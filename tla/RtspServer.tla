----------------------------- MODULE RtspServer ------------------------------
(***************************************************************************)
(* RtspServer (nexxt/rtsp.py): one event loop, in which the handlers of    *)
(* the connections, the consumer of each publication, and the application, *)
(* which publishes, unpublishes and stops, take turns at every await.      *)
(*                                                                         *)
(* A publication object has a path for life; several may share one, one    *)
(* after the other.  Media is the video track: a chunk is a parameter set  *)
(* (standing for VPS, SPS and PPS), an IRAP or another picture, with the   *)
(* version of the parameter sets it belongs to and its place in the        *)
(* stream; pending is the subscription's queue, which drops its oldest     *)
(* chunk when full.  Audio, RTP headers, SDP and the text of requests and  *)
(* responses are left out.  A video channel no byte holds makes the        *)
(* consumer raise (an audio one does so at an audio chunk).                *)
(* wait_closed() waits for every connection, as asyncio does from Python   *)
(* 3.12 on; start() and stop() are called once, stop() with no unpublish() *)
(* under way.                                                              *)
(***************************************************************************)
EXTENDS Naturals, Sequences, FiniteSets

CONSTANTS
  Conns,       \* TCP connections clients open
  Pubs,        \* _Publication objects
  PathOf,      \* the path of each
  QueueSize,   \* size of the subscription's queue
  Stalling,    \* connections whose peer stops reading with data under way
  Wide,        \* connections that may ask for a channel above 255
  LateAccept,  \* stop() may be called while a handler has not started yet
  MaxChunks    \* bound: chunks each publication's camera emits

ASSUME RtspAssumption ==
  /\ IsFiniteSet(Conns) /\ IsFiniteSet(Pubs) /\ DOMAIN PathOf = Pubs /\ "none" \notin Pubs
  /\ Stalling \subseteq Conns /\ Wide \subseteq Conns /\ LateAccept \in BOOLEAN
  /\ QueueSize \in Nat \ {0} /\ MaxChunks \in [Pubs -> Nat]

VARIABLES
  server,        \* _server: "new", "listening", or "closed" once stop() took it
  stopping,      \* where stop() is: "no", "waiting", "unpublishing", "done", "failed"
  publications,  \* _publications, as a set of objects
  leaving,       \* objects whose unpublish() awaits the consumer
  consumer,      \* the task of each object; "failed" once it has raised
  pending,       \* its subscription's queue
  lossy,         \* ghost: objects whose queue has overflowed
  emitted,       \* ghost: chunks the camera has put into its stream
  version,       \* ghost: the camera's parameter sets
  parameter_sets,\* the version cached
  clients,       \* clients of each object
  conn,          \* each connection: "none", "accepted", "serving", "closing", "gone"
  bound,         \* client.publication, or "none"
  playing, waiting_for_irap,
  transport,     \* the video track is in client.transports
  wide,          \* clients that last set up a channel above 255
  have,          \* ghost: the version of the parameter sets the client has
  last,          \* ghost: the place of the last chunk it got since PLAY, 0 for none
  broken         \* ghost: clients that got what they cannot decode, no chunk being
                 \* lost before it reached them and their connection being open

media  == <<pending, lossy, emitted, version>>
client == <<bound, playing, waiting_for_irap, transport, wide>>
ghosts == <<have, last, broken>>
vars == <<server, stopping, publications, leaving, consumer, media, parameter_sets, clients,
          conn, client, ghosts>>

Kinds  == {"set", "irap", "inter"}
Active == {"accepted", "serving", "closing"}

Init ==
  /\ server = "new" /\ stopping = "no" /\ publications = {} /\ leaving = {}
  /\ consumer = [k \in Pubs |-> "none"]
  /\ pending = [k \in Pubs |-> <<>>] /\ lossy = {} /\ emitted = [k \in Pubs |-> <<>>]
  /\ version = [k \in Pubs |-> 0] /\ parameter_sets = [k \in Pubs |-> 0]
  /\ clients = [k \in Pubs |-> {}]
  /\ conn = [c \in Conns |-> "none"] /\ bound = [c \in Conns |-> "none"]
  /\ playing = [c \in Conns |-> FALSE] /\ waiting_for_irap = [c \in Conns |-> TRUE]
  /\ transport = [c \in Conns |-> FALSE] /\ wide = {}
  /\ have = [c \in Conns |-> 0] /\ last = [c \in Conns |-> 0] /\ broken = {}

----------------------------------------------------------------------------
\* The application

Start ==
  /\ server = "new" /\ server' = "listening"
  /\ UNCHANGED <<stopping, publications, leaving, consumer, media, parameter_sets, clients,
                 conn, client, ghosts>>

Publish(k) ==
  /\ server = "listening" /\ consumer[k] = "none"
  /\ \A j \in publications : PathOf[j] # PathOf[k]
  /\ publications' = publications \cup {k}
  /\ consumer' = [consumer EXCEPT ![k] = "running"]
  /\ UNCHANGED <<server, stopping, leaving, media, parameter_sets, clients, conn, client, ghosts>>

\* unpublish() up to the await of the cancelled consumer
BeginUnpublish(k) ==
  /\ k \in publications /\ consumer[k] = "running"
  /\ publications' = publications \ {k}
  /\ leaving' = leaving \cup {k}
  /\ consumer' = [consumer EXCEPT ![k] = "cancelled"]
  /\ UNCHANGED <<server, media, parameter_sets, clients, conn, client, ghosts>>

\* unpublish() of an object whose consumer has failed: awaiting the task raises,
\* the clients are left as they are
UnpublishFails(k) ==
  /\ k \in publications /\ consumer[k] = "failed"
  /\ publications' = publications \ {k}
  /\ UNCHANGED <<server, leaving, consumer, media, parameter_sets, clients, conn, client, ghosts>>

Unpublish(k) ==
  /\ server = "listening" /\ (BeginUnpublish(k) \/ UnpublishFails(k)) /\ UNCHANGED stopping

ClosingBound(c) == IF conn[c] = "serving" /\ bound[c] # "none" THEN "closing" ELSE conn[c]

\* writer.close(), of a connection whose handler has registered it
Closing(c) == IF conn[c] = "serving" THEN "closing" ELSE conn[c]

\* the rest of it, once the consumer has ended
EndUnpublish(k) ==
  /\ k \in leaving
  /\ leaving' = leaving \ {k}
  /\ consumer' = [consumer EXCEPT ![k] = "ended"]
  /\ clients' = [clients EXCEPT ![k] = {}]
  /\ playing' = [c \in Conns |-> playing[c] /\ c \notin clients[k]]
  /\ transport' = [c \in Conns |-> transport[c] /\ c \notin clients[k]]
  /\ conn' = [c \in Conns |-> IF c \in clients[k] THEN Closing(c) ELSE conn[c]]
  /\ UNCHANGED <<server, stopping, publications, media, parameter_sets, bound,
                 waiting_for_irap, wide, ghosts>>

\* stop() up to wait_closed(): it closes the connections whose handlers have
\* registered them
Stop ==
  /\ server = "listening" /\ leaving = {}
  /\ LateAccept \/ \A c \in Conns : conn[c] # "accepted"
  /\ server' = "closed" /\ stopping' = "waiting"
  /\ conn' = [c \in Conns |-> Closing(c)]
  /\ transport' = [c \in Conns |-> transport[c] /\ conn[c] \notin {"serving", "closing"}]
  /\ UNCHANGED <<publications, leaving, consumer, media, parameter_sets, clients, bound,
                 playing, waiting_for_irap, wide, ghosts>>

NoneServing == \A c \in Conns : conn[c] # "serving"

AllGone == \A c \in Conns : conn[c] \notin Active

WaitClosed ==
  /\ stopping = "waiting" /\ AllGone
  /\ stopping' = "unpublishing"
  /\ UNCHANGED <<server, publications, leaving, consumer, media, parameter_sets, clients,
                 conn, client, ghosts>>

\* publications one after the other; one that fails ends stop()
StopUnpublishes ==
  /\ stopping = "unpublishing" /\ leaving = {}
  /\ \/ /\ publications = {} /\ stopping' = "done"
        /\ UNCHANGED <<server, publications, leaving, consumer, media, parameter_sets,
                       clients, conn, client, ghosts>>
     \/ \E k \in publications : BeginUnpublish(k) /\ UNCHANGED stopping
     \/ \E k \in publications : UnpublishFails(k) /\ stopping' = "failed"

----------------------------------------------------------------------------
\* The connections.  A handler whose writer was closed goes on with what its
\* reader had buffered.

Connect(c) ==
  /\ conn[c] = "none" /\ server = "listening"
  /\ conn' = [conn EXCEPT ![c] = "accepted"]
  /\ UNCHANGED <<server, stopping, publications, leaving, consumer, media, parameter_sets,
                 clients, client, ghosts>>

\* the first step of _handle_client
HandlerStarts(c) ==
  /\ conn[c] = "accepted"
  /\ conn' = [conn EXCEPT ![c] = "serving"]
  /\ UNCHANGED <<server, stopping, publications, leaving, consumer, media, parameter_sets,
                 clients, client, ghosts>>

FoundWhereBound(c, k) == k \in publications \/ bound[c] = k

\* _publication_for_uri
Found(c, k) == k \in publications

\* _bind_client: a client belongs to one publication for good
Bind(c, k) ==
  /\ bound[c] \in {"none", k}
  /\ IF bound[c] = k THEN UNCHANGED <<bound, clients>>
     ELSE /\ bound' = [bound EXCEPT ![c] = k]
          /\ clients' = [clients EXCEPT ![k] = @ \cup {c}]

Describe(c, k) ==
  /\ conn[c] \in {"serving", "closing"} /\ Found(c, k) /\ Bind(c, k)
  /\ UNCHANGED <<server, stopping, publications, leaving, consumer, media, parameter_sets,
                 conn, playing, waiting_for_irap, transport, wide, ghosts>>

Setup(c, k) ==
  /\ conn[c] \in {"serving", "closing"} /\ Found(c, k) /\ Bind(c, k)
  /\ transport' = [transport EXCEPT ![c] = TRUE]
  /\ \E above \in BOOLEAN :
       (above => c \in Wide) /\ wide' = IF above THEN wide \cup {c} ELSE wide \ {c}
  /\ UNCHANGED <<server, stopping, publications, leaving, consumer, media, parameter_sets,
                 conn, playing, waiting_for_irap, ghosts>>

Play(c, k) ==
  /\ conn[c] \in {"serving", "closing"} /\ Found(c, k) /\ bound[c] = k
  /\ playing' = [playing EXCEPT ![c] = TRUE]
  /\ waiting_for_irap' = [waiting_for_irap EXCEPT ![c] = TRUE]
  /\ have' = [have EXCEPT ![c] = 0] /\ last' = [last EXCEPT ![c] = 0]
  /\ UNCHANGED <<server, stopping, publications, leaving, consumer, media, parameter_sets,
                 clients, conn, bound, transport, wide, broken>>

\* TEARDOWN, the end of the stream or an error: the finally block
HandlerEnds(c) ==
  /\ conn[c] \in {"serving", "closing"}
  /\ conn' = [conn EXCEPT ![c] = "gone"]
  /\ clients' = [k \in Pubs |-> clients[k] \ {c}]
  /\ transport' = [transport EXCEPT ![c] = FALSE]
  /\ UNCHANGED <<server, stopping, publications, leaving, consumer, media, parameter_sets,
                 bound, playing, waiting_for_irap, wide, ghosts>>

\* _send finds more than MAX_CLIENT_WRITE_BUFFER unsent
SlowClient(c) ==
  /\ conn[c] = "serving" /\ playing[c] /\ transport[c]
  /\ playing' = [playing EXCEPT ![c] = FALSE]
  /\ conn' = [conn EXCEPT ![c] = "closing"]
  /\ UNCHANGED <<server, stopping, publications, leaving, consumer, media, parameter_sets,
                 clients, bound, waiting_for_irap, transport, wide, ghosts>>

----------------------------------------------------------------------------
\* Media

Unbounded(queue) == queue

\* _offer makes room in a full queue
WithRoom(queue) == IF Len(queue) = QueueSize THEN Tail(queue) ELSE queue

\* the camera: parameter sets before the first IRAP, an IRAP before any other
\* picture and after every change of parameter sets
Emit(k, kind) ==
  LET before == IF emitted[k] = <<>> THEN "nothing" ELSE emitted[k][Len(emitted[k])]
      v      == IF kind = "set" THEN version[k] + 1 ELSE version[k]
      chunk  == [kind |-> kind, version |-> v, at |-> Len(emitted[k]) + 1]
  IN  /\ consumer[k] = "running" /\ Len(emitted[k]) < MaxChunks[k]
      /\ kind = "irap" => before # "nothing"
      /\ kind = "inter" => before \in {"irap", "inter"}
      /\ emitted' = [emitted EXCEPT ![k] = Append(@, kind)]
      /\ version' = [version EXCEPT ![k] = v]
      /\ lossy' = IF Len(pending[k]) = QueueSize THEN lossy \cup {k} ELSE lossy
      /\ pending' = [pending EXCEPT ![k] = Append(WithRoom(pending[k]), chunk)]
      /\ UNCHANGED <<server, stopping, publications, leaving, consumer, parameter_sets,
                     clients, conn, client, ghosts>>

\* clients that _broadcast_video sends this chunk to
Sent(k, chunk) ==
  {c \in clients[k] :
     playing[c] /\ transport[c] /\ (waiting_for_irap[c] => chunk.kind = "irap")}

CachedFirst(k, chunk) ==
  IF chunk.kind = "set" /\ parameter_sets[k] = 0 THEN chunk.version ELSE parameter_sets[k]

\* _consume keeps the latest parameter sets
Cached(k, chunk) == IF chunk.kind = "set" THEN chunk.version ELSE parameter_sets[k]

\* what a client that gets the chunk has for parameter sets afterwards: those
\* just sent, the cached ones before its first IRAP, or those it had
HasAfter(c, k, chunk) ==
  IF chunk.kind = "set" THEN chunk.version
  ELSE IF waiting_for_irap[c] THEN parameter_sets[k] ELSE have[c]

\* a picture needs its parameter sets, and the chunk before it if not an IRAP
Undecodable(c, k, chunk) ==
  chunk.kind # "set" /\ (\/ HasAfter(c, k, chunk) # chunk.version
                         \/ chunk.kind = "inter" /\ last[c] # chunk.at - 1)

\* the chunk is taken from the queue, and these clients get it
Delivered(k, chunk, to) ==
  /\ pending' = [pending EXCEPT ![k] = Tail(@)]
  /\ parameter_sets' = [parameter_sets EXCEPT ![k] = Cached(k, chunk)]
  /\ have' = [c \in Conns |-> IF c \in to THEN HasAfter(c, k, chunk) ELSE have[c]]
  /\ last' = [c \in Conns |-> IF c \in to THEN chunk.at ELSE last[c]]
  /\ broken' = broken \cup {c \in to : /\ k \notin lossy /\ conn[c] = "serving"
                                     /\ Undecodable(c, k, chunk)}
  /\ UNCHANGED <<server, stopping, publications, leaving, lossy, emitted, version, clients,
                 conn, bound, playing, transport, wide>>

Consume(k) ==
  /\ consumer[k] = "running" /\ pending[k] # <<>>
  /\ LET chunk == Head(pending[k])  to == Sent(k, chunk)
     IN  /\ to \cap wide = {}
         /\ Delivered(k, chunk, to)
         /\ waiting_for_irap' = [c \in Conns |-> waiting_for_irap[c] /\ c \notin to]
  /\ UNCHANGED consumer

\* _send raises at the first client whose channel is above 255, at the first
\* packet, after some of the others (clients is a set) were sent the chunk
ConsumerFails(k) ==
  /\ consumer[k] = "running" /\ pending[k] # <<>>
  /\ LET chunk == Head(pending[k])
     IN  \E to \in SUBSET (Sent(k, chunk) \ wide), f \in Sent(k, chunk) \cap wide :
           /\ Delivered(k, chunk, to)
           /\ waiting_for_irap' = [c \in Conns |-> /\ waiting_for_irap[c] /\ c \notin to
                                                  /\ c = f => parameter_sets[k] # 0]
  /\ consumer' = [consumer EXCEPT ![k] = "failed"]

----------------------------------------------------------------------------
Next ==
  \/ Start \/ Stop \/ WaitClosed \/ StopUnpublishes
  \/ \E k \in Pubs :
       \/ Publish(k) \/ Unpublish(k) \/ EndUnpublish(k)
       \/ Consume(k) \/ ConsumerFails(k)
       \/ \E kind \in Kinds : Emit(k, kind)
  \/ \E c \in Conns :
       \/ Connect(c) \/ HandlerStarts(c) \/ HandlerEnds(c) \/ SlowClient(c)
       \/ \E k \in Pubs : Describe(c, k) \/ Setup(c, k) \/ Play(c, k)

Spec == Init /\ [][Next]_vars

(***************************************************************************)
(* Fairness: the event loop runs what is ready.  A closed connection ends  *)
(* its handler, unless its peer has stopped reading what is to be flushed  *)
(* first; an open one lasts as long as its client likes.                   *)
(***************************************************************************)
FairSpec ==
  /\ Spec
  /\ WF_vars(WaitClosed) /\ WF_vars(StopUnpublishes)
  /\ \A k \in Pubs : WF_vars(EndUnpublish(k)) /\ WF_vars(Consume(k) \/ ConsumerFails(k))
  /\ \A c \in Conns : WF_vars(HandlerStarts(c))
  /\ \A c \in Conns \ Stalling : WF_vars(conn[c] = "closing" /\ HandlerEnds(c))

----------------------------------------------------------------------------
\* Properties

AllConnectionsEnded == \A c \in Conns : conn[c] \notin Active

\* Types of the server's, the publications' and the clients' fields.
TypeOK ==
  /\ server \in {"new", "listening", "closed"}
  /\ stopping \in {"no", "waiting", "unpublishing", "done", "failed"}
  /\ {publications, leaving, lossy} \subseteq SUBSET Pubs
  /\ consumer \in [Pubs -> {"none", "running", "cancelled", "ended", "failed"}]
  /\ \A k \in Pubs : clients[k] \subseteq Conns /\ emitted[k] \in Seq(Kinds)
                       /\ Len(pending[k]) <= QueueSize
  /\ version \in [Pubs -> Nat] /\ parameter_sets \in [Pubs -> Nat]
  /\ conn \in [Conns -> Active \cup {"none", "gone"}]
  /\ bound \in [Conns -> Pubs \cup {"none"}]
  /\ {playing, waiting_for_irap, transport} \subseteq [Conns -> BOOLEAN]
  /\ have \in [Conns -> Nat] /\ last \in [Conns -> Nat]
  /\ broken \subseteq Conns /\ wide \subseteq Conns

\* README: a newly playing client "is held until the next HEVC IRAP NAL, then
\* receives the cached parameter sets and that random-access NAL before
\* subsequent media": while no queue overflows, whatever a client is sent it can
\* decode, whenever it sets up, plays, or plays again, until its connection is
\* closed (a SETUP that was buffered then may still be served).
EveryPictureDecodable == broken = {}

\* Once unpublish() is through, no client of the publication is left in service:
\* a request that comes after the path was removed does not revive it.  (When the
\* consumer had failed, unpublish() raises before it gets to the clients.)
UnpublishedIsSilent ==
  \A k \in Pubs : consumer[k] = "ended" =>
    /\ clients[k] = {}
    /\ \A c \in Conns : bound[c] = k => conn[c] # "serving" /\ ~(playing[c] /\ transport[c])

\* However stop() ends, nobody is connected any more.  Once it has returned, nothing
\* is published or consumed either; it raises for a failed consumer only.
NothingAfterStop ==
  /\ stopping \in {"done", "failed"} => AllConnectionsEnded
  /\ stopping = "done" => publications = {} /\ \A k \in Pubs : consumer[k] # "running"
  /\ stopping = "failed" => \E k \in Pubs : consumer[k] = "failed"

\* stop() comes to an end, with handlers that had all begun and peers that read:
\* it returns, with every publication removed, unless one whose consumer has failed
\* was still published; then it raises.
StopReturns ==
  (stopping = "waiting") ~> \/ stopping = "done"
                            \/ stopping = "failed" /\ \E k \in Pubs : consumer[k] = "failed"

\* rtsp.py, in stop(): "Connections which have not selected a publication are
\* still owned by the listener and must not survive a server shutdown."
NoneSurvivesStop == (server = "closed") ~> AllConnectionsEnded
=============================================================================
