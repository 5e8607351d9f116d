----------------------------- MODULE PlaybackPipe ----------------------------
(***************************************************************************)
(* PlaybackPipe (nexxt_lan.py): an ffplay process fed through a bounded    *)
(* queue.  Three threads of control meet here: the session, which offers   *)
(* chunks and in the end closes the pipe; the writer, which writes them to *)
(* the player's stdin; and the player, which reads, stalls or exits as it  *)
(* likes.  All but the write itself happens under one condition variable.  *)
(*                                                                         *)
(* A chunk has a kind, the version of the parameter sets it belongs to,    *)
(* its place in the stream and a length.  max_chunks, which only tests set,*)
(* and the counters are left out.  A timeout of close() may expire whenever*)
(* what it waits for is not there.                                         *)
(***************************************************************************)
EXTENDS Integers, Sequences

CONSTANT MaxBytes   \* max_bytes

VARIABLES
  codec_safe,      \* HEVC rather than PCM
  accepting, broken,
  queue, queued_bytes,
  desynchronised,
  parameter_sets,  \* the latest parameter set, in a sequence of at most one
  process,         \* the player: "none", "running", "exited" or "reaped"
  writer,          \* its thread: "none", "ready", "asleep", "writing" or "ended"
  closing,         \* where close() is: "no", "join", ..., "closed"
  written,         \* ghost: version and place of what the player was last given
  garbled          \* ghost: the player was given a picture it cannot decode

feeding == <<accepting, broken, queue, queued_bytes, desynchronised, parameter_sets>>
ghosts  == <<written, garbled>>
pipe == <<codec_safe, feeding, process, writer, closing, ghosts>>

PipeInit ==
  /\ codec_safe \in BOOLEAN /\ accepting = TRUE /\ broken = FALSE
  /\ queue = <<>> /\ queued_bytes = 0
  /\ desynchronised = FALSE /\ parameter_sets = <<>>
  /\ process = "none" /\ writer = "none" /\ closing = "no"
  /\ written = [version |-> 0, at |-> 0] /\ garbled = FALSE

\* sum(map(len, q))
Bytes(q) ==
  LET upto[n \in 0..Len(q)] == IF n = 0 THEN 0 ELSE upto[n - 1] + q[n].len
  IN  upto[Len(q)]

----------------------------------------------------------------------------
\* The session: offer()

FitsSoFar(bytes, chunk) == bytes <= MaxBytes

Fits(bytes, chunk) == bytes + chunk.len <= MaxBytes

Offered(q, bytes, lost) == [queue |-> q, bytes |-> bytes, desynchronised |-> lost]

Latest(chunk) == IF chunk.kind = "set" THEN <<chunk>> ELSE parameter_sets

RestartBare(chunk) == <<chunk>>

RestartWith(chunk) == Latest(chunk) \o <<chunk>>

\* only an IRAP with the latest parameter sets ends a loss of synchronisation
Resynchronised(q, bytes, chunk) ==
  LET length == Bytes(RestartWith(chunk))
  IN  IF chunk.kind = "irap" /\ length <= MaxBytes
      THEN Offered(q \o RestartWith(chunk), bytes + length, FALSE)
      ELSE Offered(q, bytes, TRUE)

\* _offer_video_locked: a video queue that overflows is flushed as a whole
OfferVideo(chunk) ==
  IF desynchronised THEN Resynchronised(queue, queued_bytes, chunk)
  ELSE IF Fits(queued_bytes, chunk)
       THEN Offered(Append(queue, chunk), queued_bytes + chunk.len, FALSE)
       ELSE Resynchronised(<<>>, 0, chunk)

\* PCM: the oldest chunks make room
OfferAudio(chunk) ==
  LET left(n) == queued_bytes - Bytes(SubSeq(queue, 1, n))
      fitting == {n \in 0..Len(queue) : Fits(left(n), chunk)}
      popped == CHOOSE n \in fitting : \A m \in fitting : n <= m
  IN  IF fitting = {} THEN Offered(<<>>, left(Len(queue)), desynchronised)
      ELSE Offered(Append(SubSeq(queue, popped + 1, Len(queue)), chunk),
                   left(popped) + chunk.len, desynchronised)

NotifyNobody == writer

\* a waiting writer goes on
Notify == IF writer = "asleep" THEN "ready" ELSE writer

Starts == accepting /\ ~broken /\ process = "none"

\* the queue after the offer, and a notify() if anything was appended
Enqueue(chunk) ==
  LET after == IF codec_safe THEN OfferVideo(chunk) ELSE OfferAudio(chunk)
  IN  /\ queue' = after.queue /\ queued_bytes' = after.bytes
      /\ desynchronised' = after.desynchronised
      /\ parameter_sets' = IF codec_safe THEN Latest(chunk) ELSE parameter_sets
      /\ writer' = IF Starts THEN "ready" ELSE IF after.queue = <<>> THEN writer ELSE Notify

Offer(chunk) ==
  /\ \/ (~accepting \/ broken) /\ UNCHANGED <<feeding, process, writer>>
     \/ /\ accepting /\ ~broken /\ Enqueue(chunk)
        /\ process' = IF process = "none" THEN "running" ELSE process
        /\ UNCHANGED <<accepting, broken>>
     \/ \* ffplay cannot be started: _mark_dead_locked
        /\ Starts /\ broken' = TRUE /\ queue' = <<>> /\ queued_bytes' = 0
        /\ UNCHANGED <<accepting, desynchronised, parameter_sets, process, writer>>
  /\ UNCHANGED <<codec_safe, closing, ghosts>>

----------------------------------------------------------------------------
\* The writer

\* what the player must have had before: the parameter sets of the chunk, and
\* for a picture that is no IRAP the chunk before it
Garbles(chunk) ==
  /\ codec_safe /\ chunk.kind # "set"
  /\ \/ chunk.version # written.version
     \/ chunk.kind = "inter" /\ written.at # chunk.at - 1

WriterLooks ==
  /\ writer = "ready"
  /\ \/ /\ queue = <<>>
        /\ writer' = IF accepting /\ ~broken THEN "asleep" ELSE "ended"
        /\ UNCHANGED <<queue, queued_bytes, ghosts>>
     \/ /\ queue # <<>>
        /\ queue' = Tail(queue) /\ queued_bytes' = queued_bytes - Head(queue).len
        /\ writer' = "writing"
        /\ written' = [version |-> IF Head(queue).kind = "set" THEN Head(queue).version
                                   ELSE written.version, at |-> Head(queue).at]
        /\ garbled' = (garbled \/ Garbles(Head(queue)))
  /\ UNCHANGED <<codec_safe, accepting, broken, desynchronised, parameter_sets, process, closing>>

WriteDone ==
  /\ writer = "writing" /\ process = "running"
  /\ writer' = "ready"
  /\ UNCHANGED <<codec_safe, feeding, process, closing, ghosts>>

\* BrokenPipeError: _mark_dead_locked, then the end of the thread
WriteBreaks ==
  /\ writer = "writing" /\ process \in {"exited", "reaped"}
  /\ broken' = TRUE /\ queue' = <<>> /\ queued_bytes' = 0 /\ writer' = "ended"
  /\ UNCHANGED <<codec_safe, accepting, desynchronised, parameter_sets, process, closing, ghosts>>

PlayerExits ==
  /\ process = "running" /\ process' = "exited"
  /\ UNCHANGED <<codec_safe, feeding, writer, closing, ghosts>>

----------------------------------------------------------------------------
\* close()

Close ==
  /\ closing = "no"
  /\ accepting' = FALSE /\ queue' = <<>> /\ queued_bytes' = 0 /\ writer' = Notify
  /\ closing' = IF process = "none" THEN "closed" ELSE "join"
  /\ UNCHANGED <<codec_safe, broken, desynchronised, parameter_sets, process, ghosts>>

Continue(next) ==
  closing' = next /\ UNCHANGED <<codec_safe, feeding, writer, ghosts>>

JoinEnough ==
  /\ closing = "join"
  /\ \/ writer = "ended" /\ Continue("last_join")
     \/ writer # "ended" /\ Continue("wait")
  /\ UNCHANGED process

\* the writer ends, or after a second the player is asked to
Join ==
  /\ closing = "join"
  /\ \/ writer = "ended" /\ Continue("wait")
     \/ writer # "ended" /\ Continue(IF process = "running" THEN "join_again" ELSE "wait")
  /\ UNCHANGED process

JoinAgain == closing = "join_again" /\ Continue("wait") /\ UNCHANGED process

Reap == process = "exited" /\ process' = "reaped"

Wait ==
  /\ closing = "wait"
  /\ \/ Reap /\ Continue("last_join")
     \/ process = "running" /\ Continue("wait_again") /\ UNCHANGED process

WaitsOn == FALSE

\* after terminate(), process.wait() with a timeout
TimesOut == process = "running"

\* the player had its second to end: kill() leaves it no choice
WaitAgain ==
  /\ closing = "wait_again"
  /\ \/ Reap /\ Continue("last_join")
     \/ TimesOut /\ process' = "reaped" /\ Continue("last_join")

LastJoin == closing = "last_join" /\ Continue("closed") /\ UNCHANGED process

PipeNext ==
  \/ WriterLooks \/ WriteDone \/ WriteBreaks \/ PlayerExits
  \/ Close \/ Join \/ JoinAgain \/ Wait \/ WaitAgain \/ LastJoin

\* Threads run; the player owes nothing: it may never read and never exit.
PipeFairness ==
  /\ WF_pipe(WriterLooks) /\ WF_pipe(WriteBreaks)
  /\ WF_pipe(Join \/ JoinAgain \/ Wait \/ WaitAgain \/ LastJoin)
=============================================================================
