# Verification of nexxt-lan

TLA+ models of the parts of nexxt-lan in which threads, coroutines, peers and a
lossy network meet, and of its algorithms on bytes and configurations; their model
checking with TLC; and proofs with TLAPS of the safety of eight of them. Paths are
relative to `src/`; PROJECT.json maps every definition to the lines it stands for.

## 1. The system

nexxt-lan receives live video and audio of Tuya-type cameras in the local network.
A *session* (`run_lan_preview` in `nexxt_lan.py`) speaks to one camera: signaling
over TCP, ICE checks on two UDP sockets, then KCP conversations encrypted as
"Mode 3" over the nominated path. What it receives goes through a media pipeline
to sinks: a player, files, or a `MediaStream`, which an RTSP server republishes.
`run_serve` and the Home Assistant integration run several sessions under one server.

| Component | Code | State it keeps | Operations | Interacts with |
|---|---|---|---|---|
| KCP transport | `tuya_p2p/_kcp_python.py`, `_kcp_common.py` | send and receive queues and buffers, `snd_una`, `snd_nxt`, `rcv_nxt`, `rmt_wnd`, acknowledgement list, probe | `send`, `recv`, `input`, `update`/`_flush`, `peeksize` | a peer, by UDP; the session's loop calls it |
| KCP back ends | `tuya_p2p/kcp.py`, `_kcp_native_backend.py`, `vendor/` | the choice made at import; a C object | the same | the same |
| Mode 3 | `tuya_p2p/mode3.py`, `channel.py`, `auth.py` | keys, message counters | encrypt, decrypt, channel output | between KCP and UDP |
| Camera session | `nexxt_lan.py`, `nexxt/lan33.py`, `lan_framing.py`, `rtc_signaling.py`, `device.py` | the ExitStack, `SignalingState`, `peer_addr`, `startup_sent` | open, exchange, pump, loop, activate, preview, disconnect, unwind | camera (TCP, UDP), KCP, media pipeline, `stop_event`, Ctrl+C |
| UDP classification | `nexxt/udp_protocol.py` | `ClientState` | `parse_stun`, `handle_udp_datagram` | called by the loop |
| Local STUN endpoint | `nexxt_lan.py` 221-299 | a socket and a thread | answer, close | the camera |
| Media pipeline | `nexxt/media.py` 60-220, `MediaOutput` | `HevcAssembler._fu_buffer`, statistics | `drain`, `feed_record`, `feed` | KCP objects, sinks |
| Playback pipe | `nexxt_lan.py` 1400-1570 | queue, `accepting`, `broken`, `desynchronised`, writer thread, process | `offer`, `_writer`, `close` | session thread, ffplay |
| Media stream | `nexxt/media.py` 226-345 | subscribers, `closed`, one asyncio queue each | `subscribe`, `_publish`, `close`, iterate | session thread, closing thread, event loop |
| RTSP server | `nexxt/rtsp.py` | listener, connections, publications with clients and cached parameter sets | `start`, `publish`, `unpublish`, `stop`, requests, `_consume` | media streams, RTSP clients |
| RTSP wrappers | `nexxt/rtsp.py` 565-613 | a thread with its own loop | `start`, `stop` | single-camera command |
| Service, manager, HA adapter | `nexxt/serve.py`, `nexxt/manager.py`, `custom_components/nexxt_lan/__init__.py` | tasks, `_stopped`, `stop_sessions`, streams, server | start, per-camera task, stop, cleanup | sessions in executor threads, RTSP server |
| Configuration, resolver, CLI, HA forms | `nexxt/config.py`, `device_resolver.py`, `custom_components/...` | none of interest | pure functions | start of the program |

What is hard in it, and what makes each part correct:

* **KCP**: loss, repetition, reordering; sequence numbers that wrap; a window that
  closes. Correct: messages come out whole, in order, once; nothing is released that
  the peer may still miss; in the end all is acknowledged.
* **Session**: one thread, but a camera that answers late, partly, twice or hangs
  up, and a Ctrl+C between any two statements, those that release what was opened
  included. Correct: no preview without nomination and activation, one path, a session
  that began is disconnected, what a block has taken on to release is released and at most
  one resource is lost before a block has it, `stop_event` is obeyed.
* **Media stream**: items are handed over *after* the lock is released, so publishing
  and closing threads interleave with each other and with the event loop. Correct: order,
  no loss but by overflow, every iterator ends.
* **RTSP server**: one event loop, but handlers, consumers, `unpublish()` and
  `stop()` interleave at every await, and one client can make a consumer raise. Correct:
  what a client gets it can decode, a client outlives neither its publication nor the server.
* **Service**: coroutines that fail and stop each other and threads they can only ask.
  Correct: a failure of a session stays with its camera; when cleanup is over all is
  released, and when it is broken off at least every session and stream.
* **Time in KCP**: a millisecond clock that wraps, samples that come late or twice.
  Correct: nothing is repeated too early, nothing waits longer than its timeout and
  one interval, a closed window is probed for ever.
* **Bytes**: NAL units cut for RTP, STUN lengths and digests. Correct: the reader at
  the other end finds what was meant, whatever the lengths and whatever is lost.
* **Configuration**: names that are other cameras' ids, paths that are the same once
  normalised. Correct: what is accepted can be served.
* **Playback**: a bounded queue between the session and a writer thread that may hang in a
  write to a player that may hang or die. Correct: nothing undecodable, no lost
  wake-up, no process left.

PROJECT.json lists the hazards line by line, also those no property covers and why.

## 2. The modules

| Module | Models | Composition |
|---|---|---|
| `ReliableStream` | the promise of a KCP channel: messages accepted are delivered whole, once, in order | abstract |
| `KcpLink` | two `PythonKCP` objects and the network between them | implements `ReliableStream` |
| `KcpTimers` | when one of them sends: `update`, RTO, fast resend, probes | what `KcpLink` leaves open |
| `SessionContract` | what a session promises to whoever runs it | abstract |
| `CameraSession` | one run of `run_lan_preview` with its camera | implements `SessionContract` |
| `CameraService` | `run_serve`, `NexxtLanManager`, the HA life cycle, a preview with `RtspPublisherThread` | its sessions take the steps of `SessionContract` |
| `MediaStream` | `MediaStream` and its subscriptions | |
| `RtspServer`, `MCRtspServer` | `RtspServer` with connections and publications | the subscription of a publication is a bounded queue that drops its oldest, what `MediaStream` establishes |
| `HevcAssembler` | the NAL assembler, as a function | used by `MediaOutput` |
| `PlaybackPipe` | `PlaybackPipe`, writer, player | used by `MediaOutput` |
| `MediaOutput`, `MCMediaOutput` | records of one conversation through assembler and pipe | composes the two |
| `RtpTrack` | `_RtpTrack`: a track, its packets under way, and the client's depayloader | |
| `StunMessage`, `ServeConfig` | STUN messages; from a configuration to cameras: as functions | |
| `Algorithms`, `MCAlgorithms` | the three with their readers; inputs around every boundary | composes them |
| `KcpLinkProofs`, `KcpTimersProofs`, `CameraSessionProofs`, `CameraServiceProofs`, `MediaStreamProofs`, `RtspServerProofs`, `MediaOutputProofs`, `AlgorithmsProofs` | theorems | each extends its module |

### KcpLink

One direction of data between a sending and a receiving object; the other
direction of each object is idle, so its numbers never move. `Send`, `SenderFlush`,
`ReceiverFlush`, `RecvPush`, `RecvAck`, `RecvWins`, `RecvWask`, `Recv` are the
methods or the branches of `input()`; `_flush` is one method in the code and is
split by what the object has to do (data or acknowledgements). `Pull` is the loop that ends both
`recv()` and `_parse_data()` and is part of either action. Fields keep their names.

* Chunks of payload are their place in all that was ever accepted, so "in order,
  exactly once" is equality of sequences of messages (`accepted`, `delivered`, ghosts).
* Numbers are unbounded in the state but every comparison goes through `Itimediff`,
  which is `_itimediff` with `SnMod` for 2^32. `2 * (PacketLife + RcvWnd) <= SnMod` is
  what the algorithm needs: no number older than `PacketLife` ever reaches a peer.
  In the code that is 2^31 segments, which no packet survives.
* Time is abstract: any transmitted segment may be due again. When it is is
  `KcpTimers`. Congestion control is off (every channel uses `nc=1`). Conversation
  number and frame checks of `input()` are left out.

### KcpTimers

One object with a clock. Time is counted from its construction and unbounded, the
code's `now_ms()` is that plus an arbitrary start modulo `ClockMod`, and every
comparison goes through `Itimediff`, so a comparison that forgets the wrap shows.
`ClockAssumption` says that no two times that are compared are half the clock apart:
the code's 2^32 ms are 49 days, an object lives as long as its session. `Update`,
`DirectFlush`, `Ack`, `Wins` are `update`, `flush`, `input` of an acknowledgement and
of a window; `Estimate`, `Clamped`, `Passed`, `Resent`, `Probe` are the helpers. A
segment keeps when it was sent and how long it may wait instead of their sum.
The peer acknowledges any transmission at any time, again, or with an old `una`.

### CameraSession

`phase` is the thread's place; each phase is a blocking call or the statement
between two of them. `FinallyOf` says which finally block takes over. A frame of
the TCP stream arrives whole or in two pieces; `ReadTimesOut` drops a lone head
because `recv_exact` keeps it in a local variable. Whatever frame the camera sends,
it sends once and only if it was asked, except a bounded number of frames nobody
asked for, a status and a hang-up at any time. Datagrams that change nothing in the
loop are left out. `Stage` maps the phases to those of `SessionContract`.

Acquiring a resource (`Open`, `BuildMedia`) and handing it to a block that will release
it (`Register`: the ExitStack or the `with` of the connection; `EnterLoop`: the `try` of
the loop) are steps of their own, so that an error or Ctrl+C can come in between: `open`
is what was acquired, `owned` what a block has taken on. The releases are steps too, in
the order of the ExitStack, and `InterruptedIn` says where Ctrl+C leaves each place: in a
release, such as the `join` of `LocalStunServer.close()` whose `_closed` is already set,
that resource stays open and the others still come; between two of them, all that are left
stay open. `OwnedIsReleased` therefore says of a cleanup that no further Ctrl+C disturbs
that all owned is released, and of any end of a session that at most one resource was lost
before it was owned: a socket whose `bind()` failed, or the player and its writer when
Ctrl+C falls between `MediaOutput()` and the `try`. That CPython closes what nobody refers
to is not counted on; a `close()` that is not interrupted is taken to succeed.

### MediaStream

`Publish` and `Close` take the subscriber list under the lock; `HandOver` and
`HandOverEnd` are the `call_soon_threadsafe` calls that follow it without the lock.
`callbacks` is the FIFO of the event loop. A subscriber queue of one is excluded by
`QueueAssumption`: with it a chunk of a publish that raced `close()` evicts the end
marker (every stream of the program has 512).

### RtspServer

Each action runs from one await to the next: `BeginUnpublish`/`EndUnpublish`
around the await of the consumer, `Stop`/`WaitClosed`/`StopUnpublishes` around the
waits of `stop()`, `Connect`/`HandlerStarts` for the accept and the first step of
the handler's task. A publication *object* has its own identity, so that the same path
published again is told from the first. Decodability is tracked by ghosts: which
parameter sets a client has and the last chunk it got.

`SETUP` accepts any number as an interleaved channel; `wide` are the clients whose video
channel is above 255, `Wide` those that may ask for one. `_send` raises for such a client
and nothing catches it: `ConsumerFails` ends the consumer of the whole publication, after
some of the clients were sent the chunk. `unpublish()` awaits the consumer and raises in
turn (`UnpublishFails`), and so does `stop()` (`stopping = "failed"`), which leaves the
publications it had not come to. Only the video track is modelled; an audio channel above
255 does the same at the first audio chunk, to the same states.

### CameraService

Three front ends in one module: they share everything but the order of the last
steps, and the thread of a preview's publisher. `pc` is the await each coroutine is
at. A session is a thread, and each of its steps (`SessionBegins` ... `SessionEnds`)
is one of `SessionContract`, of which `Session(c)` is an instance: it obeys
`stop_sessions` in its loop only, leaves signaling by itself and ends once its loop
is left. That a session does so is what `ImplementsContract` shows of `CameraSession`.
`TaskEnds` is the event loop taking notice. `ThreadBinds` ... `Join` are
`RtspPublisherThread`, with both of its time-outs: `start()` may raise while the thread
still binds, `stop()` may give up on handlers that do not end. A camera is in `spoiled`
once the consumer of its publication has failed; `UnpublishFails` breaks a cleanup off
(`pc = "failed"`), that of `run_serve` before it stops the server, since it suppresses
`KeyError` only. `_cleanup` has stopped the listener by then.

### MediaOutput

A camera that cuts NAL units into fragments, records that are skipped, the
assembler, and the pipe. `WriterLooks`/`WriteDone`/`WriteBreaks` are the writer's
steps with the write outside the lock; `Join`...`LastJoin` the escalation of `close()`.

The pipe keeps `queued_bytes` beside its queue, as the code does; that it is the length of
what is in the queue is a property and not a definition.

### The algorithms

`RtpTrack` is a track with its numbers and timestamps, the packets of the last chunk
that are under way, a network that loses any of them, and a client that joins fragments
again; `hevc()` and `pcm()` are `Hevc` and `Pcm`. A client cannot tell as many losses in
a row as there are sequence numbers from none, so `MaxMissed < SequenceMod` is assumed: in the
code that is 65536 packets, half a minute of video.
`StunMessage` and `ServeConfig` are functions on sequences of bytes and
records, written after the code's: the STUN makers and `parse_stun` with their offsets,
and the way from a loaded file to the cameras of a front end. HMAC, CRC and the XOR of
bytes are parameters, for TLC stand-ins that tell apart the inputs; of a
field's values those are told apart that the code treats differently.
`Algorithms` takes each input, computes, and compares with what a reader finds: a
camera that checks digests and reads back the user name, the server that is asked to
publish. What the code does in a loop is a recursive function here, not an operator,
so that it can be proved about.

## 3. The runs

| Run | Question | Instance |
|---|---|---|
| `KcpStream` | Do messages come out whole, in order, once, is nothing forgotten, and does everything arrive in the end? | 3 chunks, messages of 1 or 2, windows of 2, 2 faults, 2 packets under way |
| `KcpTimers` | Is nothing resent early or late, and is a closed window probed, across the wrap of the clock? | a clock modulo 256 that starts at 240, 22 units of time, calls 3 or 11 apart, 2 segments, 3 acknowledgements, both modes |
| `Session` | One path, preview only after nomination and activation, one disconnect, everything owned released, and the contract? | both protocols and RTC modes, 2 interrupts, or 1 and an oddity (a split or unrequested frame), 2 sockets |
| `SessionSplitFrame` | (violation) Does a slice of a pump lose nothing? | one split frame |
| `MediaStream` | Order, loss only by overflow, every iterator ends? | 2 subscribers, queues of 2, 3 chunks |
| `Rtsp` | Decodable, silent after unpublish and stop, stop ends? | 2 connections, one of which may set up a channel above 255, 2 publications at one path, 3 chunks, queue of 2 |
| `RtspLateAccept` | (violation) Does no connection survive `stop()`? | 1 connection |
| `Service` | Isolation of failures; everything released, or what a failed consumer left; cleanup ends? | 3 cameras, 2 threads, 2 stops, all front ends |
| `ServiceFailedStream` | (violation) Does the stream of a failed session end? | 2 cameras |
| `ServiceStopDuringStart` | (violation) Is a stopped manager released for good? | 1 camera, stop at any time |
| `MediaOutput` | Nothing undecodable, no mixed NAL units, no missed wake-up, player reaped, close returns? | 5 NAL units of 1 or 2 fragments, 1 lost record, queue of 3 units of length, video and PCM |
| `Algorithms` | Do clients read whole NAL units and every sample, do peer and client agree on STUN messages, can an accepted configuration be served? | MTU 8, two units of 1 to 13 bytes or chunks of PCM, any packets lost, numbers modulo 16 from 0 and 14; user fragments of 0 to 5 bytes; every pair of 2 ids, 3 names, paths and flags |

**Why the bounds are enough.** A window of 2 lets segments overtake each other,
leave a gap, fill and close the window; 3 chunks make a fragmented message followed by
one that must wait for a closed window; any loss, or a duplicate that arrives
after its number was passed, is 1 fault, and resends repeat without being counted.
That sequence numbers go round is left to the proofs, which hold for every number space
of twice what may be under way. In `KcpTimers` the clock wraps after 16 of 22 units; a pause of 11
exceeds the slap of 10, the back-off and the probe's growth reach their limits, and
two acknowledgements of a later segment make a fast resend. In
the session each kind of frame is sent once, and every race of the properties
needs one such frame, 1 interrupt (2 for an interrupted cleanup) and 2 paths, one for
each socket; `MaxInterrupts` grants one interrupt less for each oddity, which keeps the
instance small: the proofs are for any number of both together.
Overflow of a stream's queue needs 3 chunks at size 2, beside the end marker; a race
of two iterators needs 2. In RTSP a client that comes back, one that stays, a changed parameter set
(set, IRAP, set) and a republished path need 2, 2 and 3. One thread fewer than cameras
makes a session wait for a thread while cleanup waits for it. In the player's queue
an IRAP may or may not fit with its parameter set, so both ways of
resynchronising happen. The lengths of the algorithms lie on both sides of each
boundary: a header, one packet, one fragment more, every remainder of padding.

`MaxNet` bounds packets under way: `Next` takes a flush only if its packets fit.
Fairness is stated of the actions *without* that bound, so the liveness of
`KcpStream` is checked for all fair behaviours of the code with at most two packets
under way; the bound never excuses a flush. The other bounds are in the guards of
the environment's actions (messages, frames, chunks, interrupts, faults): the
environment does less, the program is not constrained. Deadlock is not checked:
each of these systems may come to rest (nothing more to send, session over, service
stopped).

**Fairness.**

* `KcpLink`: `update()` runs periodically on both sides; an outstanding segment becomes
  due (its timer); a packet that is not lost arrives; `recv()` is called after each
  input; finitely many faults. Not assumed: that anything is sent.
* `CameraSession`: the thread goes on, since every blocking call has a timeout; a pump's
  deadline passes; the loop looks at `stop_event` in each round. Nothing is assumed
  of camera or network. From this follows the fairness of `SessionContract`.
* `MediaStream`: a thread finishes its loop of hand-overs, the event loop runs its
  callbacks, an iterator that has an item takes it.
* `RtspServer`: the event loop runs what is ready; a closed connection ends its handler,
  for peers that read. Clients owe nothing else.
* `CameraService`: the event loop and the executor run what they can; waits with a
  timeout end; sessions keep the fairness of their contract. No session ends its loop
  by itself, and `wait_closed()` of a preview may take for ever.
* `MediaOutput`: writer and closing thread run; the player need neither read nor exit.

**Mutants.** Each property of a passing run has a mutant in PROJECT.json: an
operator of the model replaced by a plausible mistake in that code (a dropped
guard, an off-by-one, a skipped notify), with which TLC finds the property violated.

## 4. What is proved

None of the properties below is inductive. Each proof module defines an invariant
`IInv` that is, shows that `Init` implies it and that each action preserves each of
its parts, and derives the properties. Except `KcpLinkProofs`, whose instance is
larger, the parts were also checked with TLC on the instance of the run.

**`KcpLinkProofs`**, for all windows, fragment limits and number spaces that
satisfy `WindowAssumption` and `SnAssumption`, and any number of messages and
faults: `LinkTypes`, `LinkInOrderExactlyOnce`, `LinkNothingForgotten`,
`LinkAcksAreTrue` (no acknowledgement for a segment that was not stored),
`LinkBuffersBounded` (no buffer outgrows its window), `LinkEdgesAdvance` (`snd_una`,
`snd_nxt`, `rcv_nxt` never move back), and `LinkRefinesStream`: the link implements
`ReliableStream!Spec`; `Send` is `Accept`, `Recv` is `Deliver`, every other step
stutters. Whether `recv()` returns the right message depends
on what is in `rcv_queue`, that on `rcv_buf`, that on packets, those on `snd_buf`.
`IInv` says of all these places that number and chunk agree and that `frg` counts
the rest of the message (`CountsDown`), that the accepted messages partition the
chunks (`AcceptedOK`), that the queues lie end to end (`SenderOK`, `ReceiverOK`,
`DeliveredOK`), that no `una` in the network is ahead of the receiver, and that no packet is
older than `PacketLife` (`NetOK`). The last makes the key lemma `DiffExact`
applicable: a difference within half the number space is computed exactly by
`Itimediff`, so every comparison of the code means what it does on
unbounded numbers. Each helper has a lemma, each action one that it preserves
`IInv`, and `NextStep` puts them together.

**`KcpTimersProofs`**, for every clock, start, interval, RTO limit, window and number of
segments that satisfy `TimerAssumption` and `ClockAssumption`: `TimersTyped`, `NeverRepeatedEarly`
(`NeverEarly`), `TimeoutsAreServed` (`ResentInTime`) and `ProbesAreSent` (`ProbedInTime`).
Its `DiffExact` makes each comparison of times one of plain numbers, provided that no
back-off carries a timeout out of range: `Waits` says that nothing outstanding had timed
out at the last flush, so no RTO exceeds what has elapsed before it is doubled. `Flushes`
ties the next flush to the last one, across a pause or a jump of the clock, `Probes` the
next probe likewise, and `Numbers` bounds `snd_buf` by the window.

**`CameraSessionProofs`**, for both protocols and modes, any number of camera addresses,
oddities and Ctrl+C: `SessionTyped`, `TrafficHasOnePath` (`OnePath`),
`CameraAgreesToPreview` (`PreviewNeedsCamera`), `CameraIsTold` (`StartedIsDisconnected`),
`EverythingOwnedClosed` (`OwnedIsReleased`), and `SessionRefinesContract`: the session
implements the safety part of `SessionContract`. `Ends` counts Ctrl+C by how the
session ended, `Opens`, `Holds` and `Told` say what is open and owned, and what the camera
was told, at each place of the thread, each release included, `Stream` that what is unread came from the camera, and `Path` that
nothing is sent before the start-up, everything after it to the one peer, and no KCP
datagram comes before a start-up was sent. `Exchanges` and `Outside` gather what the
many steps of signaling and of the environment have in common.

**`CameraServiceProofs`**, for any number of cameras, threads and calls of `async_stop`:
`ServiceTyped`, and if no call of `async_stop` comes while `async_start` awaits the
listener (`~StopAnyTime`; `ServiceStopDuringStart` shows what happens otherwise)
`StreamsOutlive` (`StreamsOutliveSessions`), `CleanupReleases` (`AllReleased`, of cleanups
that end and of those a failed consumer breaks off) and
`FailuresStayLocal` (`Serving`). `Places` says where the coroutines may be together,
`Known` that a cleanup's `gather()` waits for every session or there are none,
`Streams`, `Listener` and `Preview` what then is left of each. The sessions are only
known by their contract: `SessionSteps` derives all that is needed of them from it.

**`MediaStreamProofs`**, for any number of subscribers and chunks and every queue of
two or more: `StreamTyped`, `EndIsKept` (`EndSurvives`), `OrderIsKept` (`ChunksInOrder`)
and `NothingElseIsLost` (`OnlyOverflowDrops`). The end marker is evicted
only from the head of a full queue, so it must be shown that at most one chunk ever
comes behind it. `OneBehind` says so of the queue and of the calls still in the
event loop together, and `Lists` why: whom the end is on its way to is in no list any
more from which a later chunk could be published. `Ordered` compares what was returned,
what is in the queue and what is in the event loop pairwise, and says of each that it is
older than the chunk still to be handed over.

**`RtspServerProofs`**, for any number of connections and publications, any queue and
stream: `ServerTyped`, `RemovedIsSilent` (`UnpublishedIsSilent`), `StopIsComplete`
(`NothingAfterStop`), `ClientsCanDecode` (`EveryPictureDecodable`). `StopIsComplete` covers both ends of `stop()`: once it has returned nothing is published
and nobody is connected, and where it raised there is a failed consumer, and still nobody
is connected. `Lifecycle` ties the
tasks to the publications and to where `stop()` is, `Belonging` the lists of clients
to what the connections are bound to, across every await; `Gapless` says that what waits in a
queue continues what was sent, and `UpToDate` that a client which has seen an IRAP
has what was consumed and the parameter sets cached. A client can then decode the next
chunk because it is the next and of that version, or is given the cached sets with it.

**`MediaOutputProofs`**, for every size of queue, stream and number of skipped records:
`WriterIsWoken` (`NoMissedWakeup`), `PlayerIsReaped`, `NeverMixed` (`NothingMixed`), `NeverGarbled`
(`NothingGarbled`) and `QueueIsBounded` (`TypeOK`: `queued_bytes` is what is in the queue, and
never more than its limit). `Control` relates the flags, the writer, the process and the place
of `close()`; `Beginning` says that what is put together is the beginning of the unit
under way or, after a skip, of one before; `Following` that each chunk of the queue can be
decoded behind the one before, the first behind what was written, and that the
sets kept for a resynchronisation are the last ones offered. `Accounted` keeps the counter
and the queue together through each offer, take and clearing.

**`AlgorithmsProofs`**, for every MTU above the fragment header, range of sequence numbers
and timestamps, number of chunks and loss: `TracksReadable` (`TracksAreReadable`), by an
invariant `RtpInv` that says of the packets under way which of the last chunk's they
are, of the depayloader that it holds the beginning of the chunk if none of its packets was
lost so far, or nothing it will ever complete, and of the numbers that the next
expected one is within `SequenceMod` of the last received. The operators have lemmas of their own
(`SlicesFit`, `SlicesCover`, `PayloadsFit`, `NeverStartAndEnd`, `FragmentsCarryAll`): fragments
fit, none is empty or both first and last, and each byte is where the client looks for
it. For every configuration and list of selectors, `ConfigServed` (`AcceptedIsServed`):
from distinct normalised paths, names and ids of what is accepted follows that no
publication is refused and that there are as many tasks as cameras. For every exchange
of STUN messages, user names and reasons of any length up to 256 bytes and any SHA-1, CRC-32
and exclusive or that undoes itself, `StunPeersAgree` (`PeersAgree`): a body is followed
attribute by attribute through `BodyReads`, which says what `parse_stun()` reads of it behind
any header; an attribute of whole words put behind keeps what was read before and adds itself,
so that a message with its two digests is read as it was written (`SignedIs`), the length
fields the digests were computed with are those their reader recomputes
(`SignedIsAuthentic`), and what is cut short contradicts its length field (`CutShort`).

Recursive functions are proved about without an induction theorem: `Least` gives each
non-empty set of numbers a least element, `Induction` follows for sets, and a
recursive function is shown to be the explicit one that satisfies its equation.

Assumed in all of this are the named `ASSUME`s of the modules about their constants,
which TLC evaluates in every run, and nothing else.

Only model-checked is all liveness, which like ENABLED is out of the prover's reach.

## 5. Where the code and its documentation part

1. `SessionSplitFrame`: a frame that straddles the end of a pump slice loses the
   bytes already read, and the session fails with "bad prefix" well before the
   deadline the comment at `nexxt_lan.py:2525` speaks of.
2. `RtspLateAccept`: a connection accepted just before `stop()`, whose handler has
   not run, is not closed, and `wait_closed()` waits for it (Python 3.12 or later).
3. `ServiceFailedStream`: a session that fails in signaling leaves its stream open,
   against the docstring of `run_serve`.
4. `ServiceStopDuringStart`: a manager stopped while its listener binds starts
   nevertheless and can no longer be stopped. Home Assistant's adapter does not do so.

Two more observations have no run of their own. In `Rtsp` and `Service` a client that sets
up a channel above 255 ends the publication's consumer for everybody, and `stop()`, or the
finally block of `run_serve`, does not get to its end: the models follow the code and
`StopReturns`, `NothingAfterStop`, `AllReleased` and `CleanupEnds` say what still holds.
And `README.md:146` calls only two combinations of protocol and RTC mode supported, while
the code and its tests accept LAN 3.4 with direct mode; `ServeConfig` and `CameraSession`
follow the code.

## 6. What is not modelled

* *Mode 3 crypto, authentication, the envelope of a record, SDP, frame layouts*: functions
  over bytes with fixed layouts that unit vectors test; the models treat a datagram that fails
  a check as one that never came.
* *The vendored C implementation of KCP* and its wrapper: third-party; the
  selection at import has no state that changes.
* *Congestion window, dead link and stream mode of KCP*: every channel sets `nc=1`,
  nothing reads the dead-link state, no channel streams.
* *Dump sinks, statistics, logging*: no behaviour of their own. The search for start
  codes in `MediaReceiver.drain` looks for a literal backslash sequence instead of zero
  bytes; only statistics depend on it.
* *Discovery of cameras* (`device_resolver.py`): no front end passes a resolver.
* *UDP tracks of the RTSP server and its SDP*: a repeated SETUP and its sockets stay
  to be modelled; TCP-interleaved tracks are, with everything decodability needs.
* *The thread of `LocalStunServer`*: it answers with `StunSuccess` and keeps nothing.
* *Command line, Home Assistant's forms*: beyond `RunOne` and `ValidateConfigFile` no
  behaviour of their own.

## 7. Plan

What is left, in order of importance:

1. UDP tracks and their sockets in `RtspServer`.
2. `KcpTimers` shown to implement the flushes of `KcpLink`: a flush sends some subset
   of what is outstanding.
