----------------------------- MODULE MediaStream -----------------------------
(***************************************************************************)
(* MediaStream (nexxt/media.py): the session thread publishes chunks, any  *)
(* thread may close the stream, and the coroutines of one event loop       *)
(* subscribe, iterate and unsubscribe.                                     *)
(*                                                                         *)
(* _publish and close take the list of subscribers under the lock and give *)
(* it up before they hand the item over, one call_soon_threadsafe after    *)
(* the other: pending is what each still has to hand over, and callbacks   *)
(* the FIFO of the event loop.  A chunk is its number; End is _CLOSED.     *)
(* The event loop outlives the stream (is_closed() is never true).         *)
(***************************************************************************)
EXTENDS Naturals, Sequences, SequencesExt, FiniteSets

CONSTANTS
  Subscribers,  \* calls of subscribe()
  QueueSize,    \* subscriber_queue_size
  MaxChunks     \* bound: chunks published in all

\* With a queue of one, the chunk of a _publish that raced close() evicts End.
ASSUME QueueAssumption == QueueSize \in Nat /\ QueueSize >= 2
ASSUME ChunksAssumption == MaxChunks \in Nat /\ IsFiniteSet(Subscribers)

VARIABLES
  subscribers,   \* _subscribers
  closed,        \* _closed
  published,     \* number of the last chunk _publish has been called with
  publishing,    \* whom _publish still has to hand it to
  closing,       \* whom close() still has to hand End to
  callbacks,     \* _offer calls scheduled in the event loop
  queue,         \* each subscription's asyncio.Queue
  since,         \* ghost: what had been published at subscribe()
  got,           \* ghost: the chunks each iterator has returned
  dropped,       \* ghost: the chunks evicted from each queue
  state          \* each subscription: "none", "open", "ended" or "closed"

vars == <<subscribers, closed, published, publishing, closing, callbacks, queue,
          since, got, dropped, state>>

End == 0

Init ==
  /\ subscribers = {} /\ closed = FALSE
  /\ published = 0 /\ publishing = {} /\ closing = {}
  /\ callbacks = <<>>
  /\ queue = [s \in Subscribers |-> <<>>]
  /\ since = [s \in Subscribers |-> 0]
  /\ got = [s \in Subscribers |-> <<>>]
  /\ dropped = [s \in Subscribers |-> {}]
  /\ state = [s \in Subscribers |-> "none"]

QueueWhenClosedEmpty == <<>>

QueueWhenClosed == <<End>>

Subscribe(s) ==
  /\ state[s] = "none"
  /\ state' = [state EXCEPT ![s] = "open"]
  /\ since' = [since EXCEPT ![s] = published]
  /\ IF closed
     THEN queue' = [queue EXCEPT ![s] = QueueWhenClosed] /\ UNCHANGED subscribers
     ELSE subscribers' = subscribers \cup {s} /\ UNCHANGED queue
  /\ UNCHANGED <<closed, published, publishing, closing, callbacks, got, dropped>>

\* on_video or on_audio; the one session thread publishes one chunk at a time
Publish ==
  /\ publishing = {} /\ published < MaxChunks
  /\ published' = published + 1
  /\ publishing' = subscribers
  /\ UNCHANGED <<subscribers, closed, closing, callbacks, queue, since, got, dropped, state>>

HandOver(s) ==
  /\ s \in publishing
  /\ publishing' = publishing \ {s}
  /\ callbacks' = Append(callbacks, [to |-> s, item |-> published])
  /\ UNCHANGED <<subscribers, closed, published, closing, queue, since, got, dropped, state>>

Close ==
  /\ ~closed
  /\ closed' = TRUE
  /\ closing' = subscribers
  /\ subscribers' = {}
  /\ UNCHANGED <<published, publishing, callbacks, queue, since, got, dropped, state>>

HandOverEnd(s) ==
  /\ s \in closing
  /\ closing' = closing \ {s}
  /\ callbacks' = Append(callbacks, [to |-> s, item |-> End])
  /\ UNCHANGED <<subscribers, closed, published, publishing, queue, since, got, dropped, state>>

OfferedKeepOldest(q, item) == IF Len(q) = QueueSize THEN q ELSE Append(q, item)

OfferedReplaceNewest(q, item) == Append(IF Len(q) = QueueSize THEN Front(q) ELSE q, item)

OfferedInFront(q, item) == <<item>> \o (IF Len(q) = QueueSize THEN Tail(q) ELSE q)

OfferedAlways(q, item) == Append(q, item)

\* _offer: a full queue loses its oldest item
Offered(q, item) == Append(IF Len(q) = QueueSize THEN Tail(q) ELSE q, item)

RunCallback ==
  /\ callbacks # <<>>
  /\ LET s == Head(callbacks).to  new == Offered(queue[s], Head(callbacks).item)
     IN  /\ queue' = [queue EXCEPT ![s] = new]
         /\ dropped' = [dropped EXCEPT ![s] = @ \cup (ToSet(queue[s]) \ ToSet(new))]
  /\ callbacks' = Tail(callbacks)
  /\ UNCHANGED <<subscribers, closed, published, publishing, closing, since, got, state>>

\* __anext__
Iterate(s) ==
  /\ state[s] = "open" /\ queue[s] # <<>>
  /\ queue' = [queue EXCEPT ![s] = Tail(@)]
  /\ IF Head(queue[s]) = End
     THEN state' = [state EXCEPT ![s] = "ended"] /\ UNCHANGED got
     ELSE got' = [got EXCEPT ![s] = Append(@, Head(queue[s]))] /\ UNCHANGED state
  /\ UNCHANGED <<subscribers, closed, published, publishing, closing, callbacks, since, dropped>>

\* MediaSubscription.close, by the coroutine that iterates
Unsubscribe(s) ==
  /\ state[s] \in {"open", "ended"}
  /\ state' = [state EXCEPT ![s] = "closed"]
  /\ subscribers' = subscribers \ {s}
  /\ UNCHANGED <<closed, published, publishing, closing, callbacks, queue, since, got, dropped>>

Next ==
  \/ Publish \/ Close \/ RunCallback
  \/ \E s \in Subscribers :
       \/ Subscribe(s) \/ HandOver(s) \/ HandOverEnd(s) \/ Iterate(s) \/ Unsubscribe(s)

Spec == Init /\ [][Next]_vars

(***************************************************************************)
(* Fairness: threads finish what they have begun, the event loop runs its  *)
(* callbacks, and an iterator that has an item takes it.  Nobody has to    *)
(* publish, close, subscribe or unsubscribe.                               *)
(***************************************************************************)
FairSpec ==
  /\ Spec
  /\ WF_vars(RunCallback)
  /\ \A s \in Subscribers :
       WF_vars(HandOver(s)) /\ WF_vars(HandOverEnd(s)) /\ WF_vars(Iterate(s))

----------------------------------------------------------------------------
\* Properties

\* Types of the stream's fields and the event loop; a queue keeps to its size.
TypeOK ==
  /\ subscribers \subseteq Subscribers /\ closed \in BOOLEAN /\ published \in Nat
  /\ publishing \subseteq Subscribers /\ closing \subseteq Subscribers
  /\ callbacks \in Seq([to : Subscribers, item : Nat])
  /\ queue \in [Subscribers -> Seq(Nat)] /\ got \in [Subscribers -> Seq(Nat)]
  /\ \A s \in Subscribers : Len(queue[s]) <= QueueSize
  /\ since \in [Subscribers -> Nat] /\ dropped \in [Subscribers -> SUBSET Nat]
  /\ state \in [Subscribers -> {"none", "open", "ended", "closed"}]

\* the calls of the event loop that will offer something to s
CallsTo(s) == {i \in 1..Len(callbacks) : callbacks[i].to = s}

Before(x, y) == x = End \/ y = End \/ x < y

\* The chunks a subscription has returned, those in its queue and those on the way
\* to it are in the order of publication, none twice, all later than subscribe().
ChunksInOrder ==
  \A s \in Subscribers :
    LET kept == got[s] \o queue[s]
    IN  /\ \A j \in 1..Len(kept) :
             /\ Before(since[s], kept[j])
             /\ \A i \in 1..(j - 1) : Before(kept[i], kept[j])
        /\ \A j \in CallsTo(s) :
             /\ Before(since[s], callbacks[j].item)
             /\ \A i \in 1..Len(kept) : Before(kept[i], callbacks[j].item)
             /\ \A i \in CallsTo(s) : i < j => Before(callbacks[i].item, callbacks[j].item)

\* Nothing is lost but by overflow: a chunk published while subscribed is
\* returned, waiting, still to be handed over, or was evicted from a full queue.
OnlyOverflowDrops ==
  \A s \in subscribers : \A c \in (since[s] + 1)..published :
    \/ c \in ToSet(got[s]) \cup ToSet(queue[s]) \cup dropped[s]
    \/ \E i \in CallsTo(s) : callbacks[i].item = c
    \/ c = published /\ s \in publishing

\* The end marker is never what overflow evicts, though a chunk of a _publish
\* that had its list before close() may be handed over after it.
EndSurvives == \A s \in Subscribers : End \notin dropped[s]

\* After close() every iterator ends, whenever it subscribed.
CloseEndsIteration ==
  \A s \in Subscribers :
    (closed /\ state[s] = "open") ~> (state[s] \in {"ended", "closed"})
=============================================================================
