----------------------------- MODULE MediaOutput -----------------------------
(***************************************************************************)
(* MediaOutput with --play (nexxt_lan.py): the records of one conversation *)
(* go through MediaPipeline, for video through HevcAssembler, into a       *)
(* PlaybackPipe.  A record whose decryption or envelope fails is skipped.  *)
(* Other sinks are left out: an exception of theirs is caught.             *)
(***************************************************************************)
EXTENDS PlaybackPipe, HevcAssembler

CONSTANTS
  MaxNals,       \* bound: NAL units, or PCM chunks, of the camera
  MaxFragments,  \* bound: fragments of a NAL unit
  MaxLost,       \* bound: records skipped
  LenOf          \* bound: the lengths of each kind

Kinds == {"set", "irap", "inter"}

\* offer() passes an empty chunk over
ASSUME OutputAssumption ==
  /\ {MaxBytes, MaxNals, MaxFragments, MaxLost} \subseteq Nat /\ MaxBytes > 0
  /\ \A kind \in Kinds : LenOf[kind] \subseteq Nat \ {0}

VARIABLES
  nal,      \* the camera's NAL unit under way
  sent,     \* how many of its fragments were sent
  pieces,   \* how many it has
  lost,     \* records skipped
  skipped,  \* the last record was skipped
  fu,       \* _fu_buffer of the assembler
  mixed     \* ghost: a NAL unit was made of more than one

stream == <<nal, sent, pieces, lost, skipped>>
vars == <<pipe, stream, fu, mixed>>

Init ==
  /\ PipeInit
  /\ nal = [kind |-> "none", version |-> 0, at |-> 0, len |-> 0]
  /\ sent = 0 /\ pieces = 0 /\ lost = 0 /\ skipped = FALSE
  /\ fu = NoFu /\ mixed = FALSE

\* the camera: parameter sets before the first IRAP, an IRAP before any other
\* picture and after every change of parameter sets
Camera(kind, len, n) ==
  /\ closing = "no" /\ sent = pieces /\ nal.at < MaxNals
  /\ kind = "irap" => nal.kind # "none"
  /\ kind = "inter" => nal.kind \in {"irap", "inter"}
  /\ nal' = [kind |-> kind, version |-> nal.version + (IF kind = "set" THEN 1 ELSE 0),
             at |-> nal.at + 1, len |-> len]
  /\ sent' = 0 /\ pieces' = n
  /\ UNCHANGED <<lost, skipped, pipe, fu, mixed>>

NextFragment == Fragment(nal, sent + 1, pieces)

\* drain, feed_record and on_video: one record, and the NAL unit it completes
Record ==
  LET fed == Fed(fu, NextFragment)
  IN  /\ closing = "no" /\ sent < pieces
      /\ sent' = sent + 1 /\ skipped' = FALSE
      /\ fu' = fed.fu
      /\ IF fed.nals = {} THEN UNCHANGED <<pipe, mixed>>
         ELSE /\ \A whole \in fed.nals : mixed' = (mixed \/ ~Unmixed(whole))
              /\ Offer(nal)
      /\ UNCHANGED <<nal, pieces, lost>>

\* never two in a row
Skip ==
  /\ closing = "no" /\ sent < pieces /\ lost < MaxLost /\ ~skipped
  /\ sent' = sent + 1 /\ lost' = lost + 1 /\ skipped' = TRUE
  /\ UNCHANGED <<nal, pieces, pipe, fu, mixed>>

Next ==
  \/ \E kind \in Kinds, n \in 1..MaxFragments : \E len \in LenOf[kind] : Camera(kind, len, n)
  \/ Record \/ Skip
  \/ PipeNext /\ UNCHANGED <<stream, fu, mixed>>

Spec == Init /\ [][Next]_vars
FairSpec == Spec /\ PipeFairness

----------------------------------------------------------------------------
\* Properties

\* Types of the pipe's fields.  Whatever overflows, is evicted or flushed,
\* queued_bytes, by which _fits_locked() decides, stays the sum over the queue,
\* and the queue within max_bytes.
TypeOK ==
  /\ {codec_safe, accepting, broken, desynchronised, garbled, mixed, skipped} \subseteq BOOLEAN
  /\ process \in {"none", "running", "exited", "reaped"}
  /\ writer \in {"none", "ready", "asleep", "writing", "ended"}
  /\ closing \in {"no", "join", "join_again", "wait", "wait_again", "last_join", "closed"}
  /\ Len(parameter_sets) <= 1
  /\ queued_bytes = Bytes(queue) /\ queued_bytes <= MaxBytes
  /\ sent \in 0..pieces /\ lost \in 0..MaxLost

\* HEVC uses codec_safe "because" evicting single NAL units would leave pictures
\* without their references: whatever overflows, in whatever order the writer
\* takes it, the player is never given a picture it cannot decode.
NothingGarbled == lost = 0 => ~garbled

\* A record that is skipped spoils its own NAL unit at most: fragments of two
\* are never joined, unless an END and the following START are both skipped.
NothingMixed == ~mixed

\* The writer sleeps only while there is nothing to write and nothing to end
\* for: no notify() is missed between the session, the writer and close().
NoMissedWakeup == writer = "asleep" => queue = <<>> /\ accepting /\ ~broken

\* When close() returns no player is left behind, running or a zombie.
PlayerReaped == closing = "closed" => process \in {"none", "reaped"}

\* close() returns, and the writer ends, even if the player neither reads nor exits.
CloseEnds == (closing # "no") ~> (closing = "closed" /\ writer \in {"none", "ended"})
=============================================================================
