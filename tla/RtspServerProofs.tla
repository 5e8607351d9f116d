--------------------------- MODULE RtspServerProofs --------------------------
(***************************************************************************)
(* The safety properties of RtspServer for any number of connections and   *)
(* publications, any size of queue and any stream.                         *)
(***************************************************************************)
EXTENDS RtspServer, SequenceTheorems, TLAPS

Chunk == [kind : Kinds, version : Nat, at : Nat]

Types ==
  /\ TypeOK
  /\ clients \in [Pubs -> SUBSET Conns]
  /\ emitted \in [Pubs -> Seq(Kinds)]
  /\ pending \in [Pubs -> Seq(Chunk)]

\* how far the server and its publications are
Lifecycle ==
  /\ \A k \in Pubs : /\ k \in publications => consumer[k] \in {"running", "failed"}
                     /\ consumer[k] = "running" => k \in publications
                     /\ consumer[k] = "cancelled" <=> k \in leaving
  /\ stopping # "no" => server = "closed"
  /\ stopping \in {"unpublishing", "done", "failed"} => AllGone
  /\ stopping = "done" => publications = {} /\ leaving = {}
  /\ stopping = "failed" => \E k \in Pubs : consumer[k] = "failed"

\* a publication's clients are the connections bound to it, as long as both last
Belonging ==
  /\ \A c \in Conns :
       /\ conn[c] \in {"none", "accepted"} => bound[c] = "none"
       /\ bound[c] = "none" => ~transport[c] /\ ~playing[c] /\ waiting_for_irap[c]
       /\ conn[c] = "gone" => ~transport[c]
  /\ \A c \in Conns, k \in Pubs :
       /\ conn[c] \in {"serving", "closing"} /\ bound[c] = k /\ consumer[k] # "ended"
            => c \in clients[k]
       /\ c \in clients[k] => bound[c] = k /\ conn[c] \in {"serving", "closing"}

\* the version of the parameter sets the i-th waiting chunk finds
Version(k, i) == IF i = 0 THEN parameter_sets[k] ELSE pending[k][i].version

Consumed(k) == Len(emitted[k]) - Len(pending[k])

\* what waits has no gap and begins where the cached parameter sets end
Gapless ==
  \A k \in Pubs : k \notin lossy =>
    /\ Consumed(k) \in Nat
    /\ Version(k, Len(pending[k])) = version[k]
    /\ \A i \in 1..Len(pending[k]) :
         /\ pending[k][i].at = Consumed(k) + i
         /\ Version(k, i) = Version(k, i - 1) + (IF pending[k][i].kind = "set" THEN 1 ELSE 0)

\* a client that has seen an IRAP has seen all since, until the consumer fails
UpToDate ==
  \A c \in Conns, k \in Pubs :
    conn[c] = "serving" /\ bound[c] = k /\ ~waiting_for_irap[c] /\ k \notin lossy
      /\ consumer[k] # "failed" =>
      playing[c] /\ transport[c] /\ have[c] = parameter_sets[k] /\ last[c] = Consumed(k)

IInv ==
  /\ Types /\ Lifecycle /\ Belonging /\ UnpublishedIsSilent
  /\ Gapless /\ UpToDate /\ EveryPictureDecodable

LEMMA Cases ==
  ASSUME [Next]_vars
  PROVE  \/ Start \/ Stop \/ WaitClosed \/ StopUnpublishes
         \/ \E k \in Pubs : Publish(k) \/ Unpublish(k) \/ EndUnpublish(k) \/ Consume(k)
                            \/ ConsumerFails(k)
         \/ \E k \in Pubs, kind \in Kinds : Emit(k, kind)
         \/ \E c \in Conns : Connect(c) \/ HandlerStarts(c) \/ HandlerEnds(c) \/ SlowClient(c)
         \/ \E c \in Conns, k \in Pubs : Describe(c, k) \/ Setup(c, k) \/ Play(c, k)
         \/ UNCHANGED vars
BY DEF Next

LEMMA LifecycleStep ==
  ASSUME Types, Lifecycle, [Next]_vars
  PROVE  Lifecycle'
<1> USE DEF vars, media, client, ghosts, Lifecycle, Types, TypeOK, AllGone, Active, Closing
<1>1. CASE Start
  BY <1>1 DEF Start
<1>2. CASE Stop
  BY <1>2 DEF Stop
<1>3. CASE WaitClosed
  BY <1>3 DEF WaitClosed
<1>4. CASE StopUnpublishes
  BY <1>4 DEF StopUnpublishes, BeginUnpublish, UnpublishFails
<1>5. ASSUME NEW k \in Pubs, Publish(k) PROVE Lifecycle'
  BY <1>5 DEF Publish
<1>6. ASSUME NEW k \in Pubs, Unpublish(k) PROVE Lifecycle'
  BY <1>6 DEF Unpublish, BeginUnpublish, UnpublishFails
<1>7. ASSUME NEW k \in Pubs, EndUnpublish(k) PROVE Lifecycle'
  BY <1>7, RtspAssumption DEF EndUnpublish
<1>8. ASSUME NEW k \in Pubs, Consume(k) PROVE Lifecycle'
  BY <1>8 DEF Consume, Delivered
<1>9. ASSUME NEW k \in Pubs, NEW kind \in Kinds, Emit(k, kind) PROVE Lifecycle'
  BY <1>9 DEF Emit
<1>10. ASSUME NEW c \in Conns, Connect(c) PROVE Lifecycle'
  BY <1>10, RtspAssumption DEF Connect
<1>11. ASSUME NEW c \in Conns, HandlerStarts(c) PROVE Lifecycle'
  BY <1>11, RtspAssumption DEF HandlerStarts
<1>12. ASSUME NEW c \in Conns, HandlerEnds(c) PROVE Lifecycle'
  BY <1>12 DEF HandlerEnds
<1>13. ASSUME NEW c \in Conns, SlowClient(c) PROVE Lifecycle'
  BY <1>13 DEF SlowClient
<1>14. ASSUME NEW c \in Conns, NEW k \in Pubs, Describe(c, k) PROVE Lifecycle'
  BY <1>14, RtspAssumption DEF Describe, Bind
<1>15. ASSUME NEW c \in Conns, NEW k \in Pubs, Setup(c, k) PROVE Lifecycle'
  BY <1>15, RtspAssumption DEF Setup, Bind
<1>16. ASSUME NEW c \in Conns, NEW k \in Pubs, Play(c, k) PROVE Lifecycle'
  BY <1>16, RtspAssumption DEF Play
<1>17. CASE UNCHANGED vars
  BY <1>17
<1>18. ASSUME NEW k \in Pubs, ConsumerFails(k) PROVE Lifecycle'
  BY <1>18 DEF ConsumerFails, Delivered
<1> QED
  BY <1>1, <1>2, <1>3, <1>4, <1>5, <1>6, <1>7, <1>8, <1>9, <1>10, <1>11, <1>12, <1>13, <1>14,
     <1>15, <1>16, <1>17, <1>18, Cases

\* the second part of Belonging after a client was bound, or was before
LEMMA BindKeeps ==
  ASSUME Types, Lifecycle, Belonging, NEW c \in Conns, NEW k \in publications,
         conn[c] \in {"serving", "closing"}, Bind(c, k), UNCHANGED <<conn, consumer>>
  PROVE  /\ \A d \in Conns, j \in Pubs :
              /\ conn'[d] \in {"serving", "closing"} /\ bound'[d] = j /\ consumer'[j] # "ended"
                   => d \in clients'[j]
              /\ d \in clients'[j] => bound'[d] = j /\ conn'[d] \in {"serving", "closing"}
         /\ bound'[c] = k /\ \A d \in Conns : d # c => bound'[d] = bound[d]
<1>1. k \in Pubs /\ k # "none"
  BY RtspAssumption DEF Types, TypeOK
<1>2. CASE bound[c] = k
  BY <1>2 DEF Bind, Belonging
<1>3. CASE bound[c] # k
  <2>1. bound[c] = "none" /\ \A j \in Pubs : j # bound[c]
    BY <1>3, RtspAssumption DEF Bind
  <2>2. bound' = [bound EXCEPT ![c] = k] /\ clients' = [clients EXCEPT ![k] = @ \cup {c}]
    BY <1>3 DEF Bind
  <2>3. bound \in [Conns -> Pubs \cup {"none"}] /\ clients \in [Pubs -> SUBSET Conns]
    BY DEF Types, TypeOK
  <2>4. bound'[c] = k /\ \A d \in Conns : d # c => bound'[d] = bound[d]
    BY <2>2, <2>3
  <2>5. \A j \in Pubs : clients'[j] = IF j = k THEN clients[k] \cup {c} ELSE clients[j]
    BY <2>2, <2>3
  <2>6. \A j \in Pubs : c \notin clients[j]
    BY <2>1 DEF Belonging
  <2> QED BY <1>1, <2>4, <2>5, <2>6 DEF Belonging
<1> QED BY <1>2, <1>3

LEMMA BelongingStep ==
  ASSUME Types, Lifecycle, Belonging, [Next]_vars
  PROVE  Belonging'
<1> USE DEF vars, media, client, ghosts, Belonging, Lifecycle, Types, TypeOK, Active, Closing,
            Found, Sent
<1>1. CASE Start
  BY <1>1 DEF Start
<1>2. CASE Stop
  BY <1>2 DEF Stop
<1>3. CASE WaitClosed
  BY <1>3 DEF WaitClosed
<1>4. CASE StopUnpublishes
  BY <1>4, SMTT(40) DEF StopUnpublishes, BeginUnpublish, UnpublishFails
<1>5. ASSUME NEW k \in Pubs, Publish(k) PROVE Belonging'
  BY <1>5 DEF Publish
<1>6. ASSUME NEW k \in Pubs, Unpublish(k) PROVE Belonging'
  BY <1>6 DEF Unpublish, BeginUnpublish, UnpublishFails
<1>7. ASSUME NEW k \in Pubs, EndUnpublish(k) PROVE Belonging'
  BY <1>7, RtspAssumption DEF EndUnpublish
<1>8. ASSUME NEW k \in Pubs, Consume(k) PROVE Belonging'
  BY <1>8 DEF Consume, Delivered
<1>9. ASSUME NEW k \in Pubs, NEW kind \in Kinds, Emit(k, kind) PROVE Belonging'
  BY <1>9 DEF Emit
<1>10. ASSUME NEW c \in Conns, Connect(c) PROVE Belonging'
  BY <1>10, RtspAssumption DEF Connect
<1>11. ASSUME NEW c \in Conns, HandlerStarts(c) PROVE Belonging'
  BY <1>11, RtspAssumption DEF HandlerStarts
<1>12. ASSUME NEW c \in Conns, HandlerEnds(c) PROVE Belonging'
  BY <1>12 DEF HandlerEnds
<1>13. ASSUME NEW c \in Conns, SlowClient(c) PROVE Belonging'
  BY <1>13 DEF SlowClient
<1>14. ASSUME NEW c \in Conns, NEW k \in Pubs, Describe(c, k) PROVE Belonging'
  <2>1. /\ k \in publications /\ conn[c] \in {"serving", "closing"} /\ Bind(c, k)
        /\ UNCHANGED <<conn, consumer>> /\ k # "none"
    BY <1>14, RtspAssumption DEF Describe
  <2> USE DEF Describe
  <2>2. /\ \A d \in Conns, j \in Pubs :
             /\ conn'[d] \in {"serving", "closing"} /\ bound'[d] = j /\ consumer'[j] # "ended"
                  => d \in clients'[j]
             /\ d \in clients'[j] => bound'[d] = j /\ conn'[d] \in {"serving", "closing"}
        /\ bound'[c] = k /\ \A d \in Conns : d # c => bound'[d] = bound[d]
    BY <2>1, BindKeeps
  <2>3. \A d \in Conns :
          /\ conn'[d] \in {"none", "accepted"} => bound'[d] = "none"
          /\ bound'[d] = "none" => ~transport'[d] /\ ~playing'[d] /\ waiting_for_irap'[d]
          /\ conn'[d] = "gone" => ~transport'[d]
    BY <1>14, <2>1, <2>2
  <2> QED BY <2>2, <2>3
<1>15. ASSUME NEW c \in Conns, NEW k \in Pubs, Setup(c, k) PROVE Belonging'
  <2>1. /\ k \in publications /\ conn[c] \in {"serving", "closing"} /\ Bind(c, k)
        /\ UNCHANGED <<conn, consumer>> /\ k # "none"
    BY <1>15, RtspAssumption DEF Setup
  <2> USE DEF Setup
  <2>2. /\ \A d \in Conns, j \in Pubs :
             /\ conn'[d] \in {"serving", "closing"} /\ bound'[d] = j /\ consumer'[j] # "ended"
                  => d \in clients'[j]
             /\ d \in clients'[j] => bound'[d] = j /\ conn'[d] \in {"serving", "closing"}
        /\ bound'[c] = k /\ \A d \in Conns : d # c => bound'[d] = bound[d]
    BY <2>1, BindKeeps
  <2>3. \A d \in Conns :
          /\ conn'[d] \in {"none", "accepted"} => bound'[d] = "none"
          /\ bound'[d] = "none" => ~transport'[d] /\ ~playing'[d] /\ waiting_for_irap'[d]
          /\ conn'[d] = "gone" => ~transport'[d]
    BY <1>15, <2>1, <2>2
  <2> QED BY <2>2, <2>3
<1>16. ASSUME NEW c \in Conns, NEW k \in Pubs, Play(c, k) PROVE Belonging'
  BY <1>16, RtspAssumption DEF Play
<1>17. CASE UNCHANGED vars
  BY <1>17
<1>18. ASSUME NEW k \in Pubs, ConsumerFails(k) PROVE Belonging'
  BY <1>18 DEF ConsumerFails, Delivered
<1> QED
  BY <1>1, <1>2, <1>3, <1>4, <1>5, <1>6, <1>7, <1>8, <1>9, <1>10, <1>11, <1>12, <1>13, <1>14,
     <1>15, <1>16, <1>17, <1>18, Cases

LEMMA SilentStep ==
  ASSUME Types, Lifecycle, Belonging, UnpublishedIsSilent, [Next]_vars
  PROVE  UnpublishedIsSilent'
<1> USE DEF vars, media, client, ghosts, UnpublishedIsSilent, Belonging, Lifecycle, Types, TypeOK,
            Active, Closing, Found, Sent
<1>1. CASE Start
  BY <1>1 DEF Start
<1>2. CASE Stop
  BY <1>2 DEF Stop
<1>3. CASE WaitClosed
  BY <1>3 DEF WaitClosed
<1>4. CASE StopUnpublishes
  <2>1. UNCHANGED <<clients, conn, bound, playing, transport>>
    BY <1>4 DEF StopUnpublishes, BeginUnpublish, UnpublishFails
  <2>2. \A j \in Pubs : consumer'[j] = "ended" => consumer[j] = "ended"
    BY <1>4 DEF StopUnpublishes, BeginUnpublish, UnpublishFails
  <2> QED BY <2>1, <2>2
<1>5. ASSUME NEW k \in Pubs, Publish(k) PROVE UnpublishedIsSilent'
  BY <1>5 DEF Publish
<1>6. ASSUME NEW k \in Pubs, Unpublish(k) PROVE UnpublishedIsSilent'
  BY <1>6 DEF Unpublish, BeginUnpublish, UnpublishFails
<1>7. ASSUME NEW k \in Pubs, EndUnpublish(k) PROVE UnpublishedIsSilent'
  <2> SUFFICES ASSUME NEW j \in Pubs, consumer'[j] = "ended"
               PROVE  /\ clients'[j] = {}
                      /\ \A c \in Conns : bound'[c] = j =>
                           conn'[c] # "serving" /\ ~(playing'[c] /\ transport'[c])
    OBVIOUS
  <2> USE DEF EndUnpublish
  <2>1. CASE j = k
    <3>1. clients'[k] = {} /\ consumer[k] # "ended" /\ bound' = bound
      BY <1>7
    <3>2. ASSUME NEW c \in Conns, bound[c] = k
          PROVE  conn'[c] # "serving" /\ ~(playing'[c] /\ transport'[c])
      <4>1. CASE c \in clients[k]
        BY <1>7, <4>1
      <4>2. CASE c \notin clients[k]
        BY <1>7, <3>1, <3>2, <4>2, RtspAssumption
      <4> QED BY <4>1, <4>2
    <3> QED BY <2>1, <3>1, <3>2
  <2>2. CASE j # k
    BY <1>7, <2>2
  <2> QED BY <2>1, <2>2
<1>8. ASSUME NEW k \in Pubs, Consume(k) PROVE UnpublishedIsSilent'
  BY <1>8 DEF Consume, Delivered
<1>9. ASSUME NEW k \in Pubs, NEW kind \in Kinds, Emit(k, kind) PROVE UnpublishedIsSilent'
  BY <1>9 DEF Emit
<1>10. ASSUME NEW c \in Conns, Connect(c) PROVE UnpublishedIsSilent'
  BY <1>10, RtspAssumption DEF Connect
<1>11. ASSUME NEW c \in Conns, HandlerStarts(c) PROVE UnpublishedIsSilent'
  BY <1>11, RtspAssumption DEF HandlerStarts
<1>12. ASSUME NEW c \in Conns, HandlerEnds(c) PROVE UnpublishedIsSilent'
  BY <1>12 DEF HandlerEnds
<1>13. ASSUME NEW c \in Conns, SlowClient(c) PROVE UnpublishedIsSilent'
  BY <1>13 DEF SlowClient
<1>14. ASSUME NEW c \in Conns, NEW k \in Pubs, Describe(c, k) PROVE UnpublishedIsSilent'
  <2>1. k \in publications /\ consumer[k] # "ended" /\ UNCHANGED <<conn, consumer>>
    BY <1>14 DEF Describe
  <2>2. bound'[c] = k /\ \A d \in Conns : d # c => bound'[d] = bound[d]
    BY <1>14, <2>1, BindKeeps DEF Describe
  <2>3. \A d \in Conns : d # c => transport'[d] = transport[d] /\ playing'[d] = playing[d]
    BY <1>14 DEF Describe
  <2>4. \A j \in Pubs : j # k => clients'[j] = clients[j]
    BY <1>14 DEF Describe, Bind
  <2>5. ASSUME NEW j \in Pubs, consumer'[j] = "ended"
        PROVE  /\ clients'[j] = {}
               /\ \A d \in Conns : bound'[d] = j =>
                    conn'[d] # "serving" /\ ~(playing'[d] /\ transport'[d])
    <3>1. j # k /\ consumer[j] = "ended"
      BY <2>1, <2>5
    <3>2. \A d \in Conns : bound'[d] = j => d # c /\ bound[d] = j
      BY <2>2, <3>1
    <3> QED BY <2>1, <2>2, <2>3, <2>4, <3>1, <3>2
  <2> QED BY <2>5
<1>15. ASSUME NEW c \in Conns, NEW k \in Pubs, Setup(c, k) PROVE UnpublishedIsSilent'
  <2>1. k \in publications /\ consumer[k] # "ended" /\ UNCHANGED <<conn, consumer>>
    BY <1>15 DEF Setup
  <2>2. bound'[c] = k /\ \A d \in Conns : d # c => bound'[d] = bound[d]
    BY <1>15, <2>1, BindKeeps DEF Setup
  <2>3. \A d \in Conns : d # c => transport'[d] = transport[d] /\ playing'[d] = playing[d]
    BY <1>15 DEF Setup
  <2>4. \A j \in Pubs : j # k => clients'[j] = clients[j]
    BY <1>15 DEF Setup, Bind
  <2>5. ASSUME NEW j \in Pubs, consumer'[j] = "ended"
        PROVE  /\ clients'[j] = {}
               /\ \A d \in Conns : bound'[d] = j =>
                    conn'[d] # "serving" /\ ~(playing'[d] /\ transport'[d])
    <3>1. j # k /\ consumer[j] = "ended"
      BY <2>1, <2>5
    <3>2. \A d \in Conns : bound'[d] = j => d # c /\ bound[d] = j
      BY <2>2, <3>1
    <3> QED BY <2>1, <2>2, <2>3, <2>4, <3>1, <3>2
  <2> QED BY <2>5
<1>16. ASSUME NEW c \in Conns, NEW k \in Pubs, Play(c, k) PROVE UnpublishedIsSilent'
  <2>1. k \in publications /\ consumer[k] # "ended" /\ UNCHANGED <<conn, consumer>>
    BY <1>16 DEF Play
  <2>2. bound[c] = k /\ UNCHANGED <<bound, clients, transport>>
    BY <1>16 DEF Play
  <2>3. \A d \in Conns : d # c => playing'[d] = playing[d]
    BY <1>16 DEF Play
  <2>4. ASSUME NEW j \in Pubs, consumer'[j] = "ended"
        PROVE  /\ clients'[j] = {}
               /\ \A d \in Conns : bound'[d] = j =>
                    conn'[d] # "serving" /\ ~(playing'[d] /\ transport'[d])
    <3>1. j # k /\ consumer[j] = "ended"
      BY <2>1, <2>4
    <3>2. \A d \in Conns : bound'[d] = j => d # c /\ bound[d] = j
      BY <2>2, <3>1
    <3> QED BY <2>1, <2>2, <2>3, <3>1, <3>2
  <2> QED BY <2>4
<1>17. CASE UNCHANGED vars
  BY <1>17
<1>18. ASSUME NEW k \in Pubs, ConsumerFails(k) PROVE UnpublishedIsSilent'
  BY <1>18 DEF ConsumerFails, Delivered
<1> QED
  BY <1>1, <1>2, <1>3, <1>4, <1>5, <1>6, <1>7, <1>8, <1>9, <1>10, <1>11, <1>12, <1>13, <1>14,
     <1>15, <1>16, <1>17, <1>18, Cases

\* A queue that has made room, and the chunk behind it.
LEMMA QueueFacts ==
  ASSUME NEW q \in Seq(Chunk), Len(q) <= QueueSize, NEW x \in Chunk
  PROVE  /\ Append(WithRoom(q), x) \in Seq(Chunk)
         /\ Len(Append(WithRoom(q), x)) \in Nat
         /\ Len(Append(WithRoom(q), x)) <= QueueSize
<1>1. QueueSize \in Nat /\ QueueSize > 0 /\ Len(q) \in Nat
  BY RtspAssumption
<1>2. WithRoom(q) \in Seq(Chunk) /\ Len(WithRoom(q)) \in Nat /\ Len(WithRoom(q)) < QueueSize
  <2>1. CASE Len(q) = QueueSize
    <3>1. q # <<>>
      BY <1>1, <2>1
    <3>2. Tail(q) \in Seq(Chunk) /\ Len(Tail(q)) = Len(q) - 1
      BY <3>1
    <3> QED BY <1>1, <2>1, <3>2 DEF WithRoom
  <2>2. CASE Len(q) # QueueSize
    BY <1>1, <2>2 DEF WithRoom
  <2> QED BY <2>1, <2>2
<1> DEFINE r == WithRoom(q)
<1>3. r \in Seq(Chunk) /\ Len(r) \in Nat /\ Len(r) < QueueSize
  BY <1>2
<1> HIDE DEF r
<1>4. Append(r, x) \in Seq(Chunk) /\ Len(Append(r, x)) = Len(r) + 1
  BY <1>3
<1>5. Append(r, x) \in Seq(Chunk) /\ Len(Append(r, x)) \in Nat /\ Len(Append(r, x)) <= QueueSize
  BY <1>1, <1>3, <1>4
<1> QED BY <1>5 DEF r

\* What Emit does to the queue and the ghosts.
LEMMA EmitFacts ==
  ASSUME Types, NEW k \in Pubs, NEW kind \in Kinds, Emit(k, kind)
  PROVE  \E chunk \in Chunk :
           /\ chunk.kind = kind /\ chunk.at = Len(emitted[k]) + 1
           /\ chunk.version = version[k] + (IF kind = "set" THEN 1 ELSE 0)
           /\ version' = [version EXCEPT ![k] = chunk.version]
           /\ emitted' = [emitted EXCEPT ![k] = Append(@, kind)]
           /\ pending' = [pending EXCEPT ![k] = Append(WithRoom(pending[k]), chunk)]
           /\ lossy' = (IF Len(pending[k]) = QueueSize THEN lossy \cup {k} ELSE lossy)
           /\ UNCHANGED <<server, stopping, publications, leaving, consumer, parameter_sets,
                          clients, conn, client, ghosts>>
<1> DEFINE v     == IF kind = "set" THEN version[k] + 1 ELSE version[k]
           chunk == [kind |-> kind, version |-> v, at |-> Len(emitted[k]) + 1]
<1>1. version[k] \in Nat /\ Len(emitted[k]) \in Nat
  BY DEF Types, TypeOK
<1>2. v \in Nat /\ v = version[k] + (IF kind = "set" THEN 1 ELSE 0)
  BY <1>1
<1> HIDE DEF v
<1>3. Len(emitted[k]) + 1 \in Nat
  BY <1>1
<1>4. chunk \in Chunk /\ chunk.kind = kind /\ chunk.at = Len(emitted[k]) + 1 /\ chunk.version = v
  BY <1>2, <1>3 DEF Chunk
<1>5. /\ version' = [version EXCEPT ![k] = v]
      /\ emitted' = [emitted EXCEPT ![k] = Append(@, kind)]
      /\ pending' = [pending EXCEPT ![k] = Append(WithRoom(pending[k]), chunk)]
      /\ lossy' = (IF Len(pending[k]) = QueueSize THEN lossy \cup {k} ELSE lossy)
      /\ UNCHANGED <<server, stopping, publications, leaving, consumer, parameter_sets,
                     clients, conn, client, ghosts>>
  BY Zenon DEF Emit, v
<1> HIDE DEF chunk
<1> QED BY <1>2, <1>4, <1>5

\* The consumer, whether it fails or not, takes the first chunk, and some of those
\* it is sent to get it.
LEMMA ConsumerTakes ==
  ASSUME NEW k \in Pubs, Consume(k) \/ ConsumerFails(k)
  PROVE  /\ pending[k] # <<>> /\ consumer[k] = "running"
         /\ \E to \in SUBSET Sent(k, Head(pending[k])) : Delivered(k, Head(pending[k]), to)
<1> DEFINE chunk == Head(pending[k])
<1> HIDE DEF chunk
<1>1. CASE Consume(k)
  <2>1. pending[k] # <<>> /\ consumer[k] = "running" /\ Delivered(k, chunk, Sent(k, chunk))
    BY <1>1 DEF Consume, chunk
  <2> QED BY <2>1 DEF chunk
<1>2. CASE ConsumerFails(k)
  <2>1. /\ pending[k] # <<>> /\ consumer[k] = "running"
        /\ \E to \in SUBSET (Sent(k, chunk) \ wide) : Delivered(k, chunk, to)
    BY <1>2 DEF ConsumerFails, chunk
  <2>2. SUBSET (Sent(k, chunk) \ wide) \subseteq SUBSET Sent(k, chunk)
    OBVIOUS
  <2> QED BY <2>1, <2>2 DEF chunk
<1> QED BY <1>1, <1>2

\* What a consumer that takes a chunk leaves of the queue.
LEMMA ConsumeFacts ==
  ASSUME Types, NEW k \in Pubs, pending[k] # <<>>,
         NEW to, Delivered(k, Head(pending[k]), to)
  PROVE  /\ Head(pending[k]) = pending[k][1] /\ pending[k][1] \in Chunk
         /\ pending'[k] = Tail(pending[k]) /\ pending'[k] \in Seq(Chunk)
         /\ Len(pending[k]) \in Nat /\ Len(pending[k]) > 0
         /\ Len(pending'[k]) = Len(pending[k]) - 1
         /\ \A i \in 1..Len(pending'[k]) : pending'[k][i] = pending[k][i + 1]
         /\ \A j \in Pubs : j # k => pending'[j] = pending[j]
<1>1. /\ pending[k] \in Seq(Chunk) /\ pending[k] # <<>>
      /\ pending' = [pending EXCEPT ![k] = Tail(@)] /\ pending \in [Pubs -> Seq(Chunk)]
  BY DEF Delivered, Types
<1>2. pending'[k] = Tail(pending[k]) /\ \A j \in Pubs : j # k => pending'[j] = pending[j]
  BY <1>1
<1> DEFINE q == pending[k]
<1>3. q \in Seq(Chunk) /\ q # <<>>
  BY <1>1
<1> HIDE DEF q
<1>4. /\ Head(q) = q[1] /\ q[1] \in Chunk /\ Tail(q) \in Seq(Chunk)
      /\ Len(q) \in Nat /\ Len(q) > 0 /\ Len(Tail(q)) = Len(q) - 1
      /\ \A i \in 1..Len(Tail(q)) : Tail(q)[i] = q[i + 1]
  BY <1>3
<1> QED BY <1>2, <1>4 DEF q

\* What a consumer that takes a chunk leaves is as typed as it was.
LEMMA TypesDelivered ==
  ASSUME Types, NEW k \in Pubs, pending[k] # <<>>,
         NEW to \in SUBSET Sent(k, Head(pending[k])), Delivered(k, Head(pending[k]), to),
         waiting_for_irap' \in [Conns -> BOOLEAN],
         consumer' \in [Pubs -> {"none", "running", "cancelled", "ended", "failed"}]
  PROVE  Types'
<1> USE DEF vars, media, client, ghosts, Types, TypeOK, Active
<1>1. /\ Head(pending[k]) = pending[k][1] /\ pending[k][1] \in Chunk
      /\ pending'[k] \in Seq(Chunk) /\ Len(pending'[k]) = Len(pending[k]) - 1
      /\ Len(pending[k]) \in Nat
      /\ \A j \in Pubs : j # k => pending'[j] = pending[j]
  BY ConsumeFacts
<1>2. pending' = [pending EXCEPT ![k] = Tail(@)]
  BY DEF Delivered
<1>3. pending' \in [Pubs -> Seq(Chunk)]
  BY <1>1, <1>2
<1>4. \A j \in Pubs : Len(pending'[j]) <= QueueSize
  <2>1. QueueSize \in Nat
    BY RtspAssumption
  <2>2. Len(pending'[k]) <= QueueSize
    BY <1>1, <2>1
  <2> QED BY <1>1, <2>2
<1> DEFINE chunk == Head(pending[k])
<1>5. chunk.version \in Nat /\ chunk.at \in Nat
  BY <1>1 DEF Chunk
<1>6. /\ to \subseteq Conns
      /\ parameter_sets' = [parameter_sets EXCEPT ![k] = Cached(k, chunk)]
      /\ have' = [c \in Conns |-> IF c \in to THEN HasAfter(c, k, chunk) ELSE have[c]]
      /\ last' = [c \in Conns |-> IF c \in to THEN chunk.at ELSE last[c]]
      /\ broken' = broken \cup {c \in to : /\ k \notin lossy /\ conn[c] = "serving"
                                         /\ Undecodable(c, k, chunk)}
  BY DEF Delivered, Sent
<1> HIDE DEF chunk
<1>7. Cached(k, chunk) \in Nat /\ \A c \in Conns : HasAfter(c, k, chunk) \in Nat
  BY <1>5 DEF Cached, HasAfter
<1>8. /\ parameter_sets' \in [Pubs -> Nat] /\ have' \in [Conns -> Nat]
      /\ last' \in [Conns -> Nat] /\ broken' \subseteq Conns
  BY <1>5, <1>6, <1>7
<1>9. UNCHANGED <<server, stopping, publications, leaving, lossy, emitted, version, clients,
                  conn, bound, playing, transport, wide>>
  BY DEF Delivered
<1> QED BY <1>3, <1>4, <1>8, <1>9

LEMMA TypesStep ==
  ASSUME Types, [Next]_vars
  PROVE  Types'
<1> USE DEF vars, media, client, ghosts, Types, TypeOK, Active, Closing
<1>1. CASE Start
  BY <1>1 DEF Start
<1>2. CASE Stop
  BY <1>2 DEF Stop
<1>3. CASE WaitClosed
  BY <1>3 DEF WaitClosed
<1>4. CASE StopUnpublishes
  <2>1. CASE publications = {} /\ stopping' = "done"
    BY <1>4, <2>1 DEF StopUnpublishes, BeginUnpublish, UnpublishFails
  <2>2. ASSUME NEW k \in publications, BeginUnpublish(k), UNCHANGED stopping PROVE Types'
    BY <2>2 DEF BeginUnpublish
  <2>3. ASSUME NEW k \in publications, UnpublishFails(k), stopping' = "failed" PROVE Types'
    BY <2>3 DEF UnpublishFails
  <2> QED BY <1>4, <2>1, <2>2, <2>3 DEF StopUnpublishes
<1>5. ASSUME NEW k \in Pubs, Publish(k) PROVE Types'
  BY <1>5 DEF Publish
<1>6. ASSUME NEW k \in Pubs, Unpublish(k) PROVE Types'
  <2>1. CASE BeginUnpublish(k)
    BY <1>6, <2>1 DEF Unpublish, BeginUnpublish
  <2>2. CASE UnpublishFails(k)
    BY <1>6, <2>2 DEF Unpublish, UnpublishFails
  <2> QED BY <1>6, <2>1, <2>2 DEF Unpublish
<1>7. ASSUME NEW k \in Pubs, EndUnpublish(k) PROVE Types'
  BY <1>7 DEF EndUnpublish
<1>8. ASSUME NEW k \in Pubs, Consume(k) PROVE Types'
  <2>1. waiting_for_irap' \in [Conns -> BOOLEAN] /\ UNCHANGED consumer
    BY <1>8 DEF Consume
  <2> QED BY <1>8, <2>1, ConsumerTakes, TypesDelivered
<1>9. ASSUME NEW k \in Pubs, NEW kind \in Kinds, Emit(k, kind) PROVE Types'
  <2>1. PICK chunk \in Chunk :
          /\ chunk.version = version[k] + (IF kind = "set" THEN 1 ELSE 0)
          /\ version' = [version EXCEPT ![k] = chunk.version]
          /\ emitted' = [emitted EXCEPT ![k] = Append(@, kind)]
          /\ pending' = [pending EXCEPT ![k] = Append(WithRoom(pending[k]), chunk)]
          /\ lossy' = (IF Len(pending[k]) = QueueSize THEN lossy \cup {k} ELSE lossy)
          /\ UNCHANGED <<server, stopping, publications, leaving, consumer, parameter_sets,
                         clients, conn, client, ghosts>>
    BY <1>9, EmitFacts
  <2>2. chunk.version \in Nat
    BY DEF Chunk
  <2>3. Append(WithRoom(pending[k]), chunk) \in Seq(Chunk)
        /\ Len(Append(WithRoom(pending[k]), chunk)) <= QueueSize
    BY QueueFacts
  <2>4. \A j \in Pubs : Len(pending'[j]) <= QueueSize
    BY <2>1, <2>3
  <2>5. pending' \in [Pubs -> Seq(Chunk)]
    BY <2>1, <2>3
  <2>6. emitted' \in [Pubs -> Seq(Kinds)]
    <3>1. Append(emitted[k], kind) \in Seq(Kinds)
      OBVIOUS
    <3> QED BY <2>1, <3>1
  <2>7. version' \in [Pubs -> Nat] /\ lossy' \subseteq Pubs
    BY <2>1, <2>2
  <2> QED BY <2>1, <2>4, <2>5, <2>6, <2>7, SMTT(40)
<1>10. ASSUME NEW c \in Conns, Connect(c) PROVE Types'
  BY <1>10 DEF Connect
<1>11. ASSUME NEW c \in Conns, HandlerStarts(c) PROVE Types'
  BY <1>11 DEF HandlerStarts
<1>12. ASSUME NEW c \in Conns, HandlerEnds(c) PROVE Types'
  BY <1>12 DEF HandlerEnds
<1>13. ASSUME NEW c \in Conns, SlowClient(c) PROVE Types'
  BY <1>13 DEF SlowClient
<1>14. ASSUME NEW c \in Conns, NEW k \in Pubs, Describe(c, k) PROVE Types'
  <2>1. CASE bound[c] = k
    BY <1>14, <2>1 DEF Describe, Bind
  <2>2. CASE bound[c] # k
    <3>1. /\ bound' = [bound EXCEPT ![c] = k] /\ clients' = [clients EXCEPT ![k] = @ \cup {c}]
      BY <1>14, <2>2 DEF Describe, Bind
    <3>2. bound' \in [Conns -> Pubs \cup {"none"}] /\ clients' \in [Pubs -> SUBSET Conns]
      BY <3>1
    <3> QED BY <1>14, <3>2 DEF Describe
  <2> QED BY <2>1, <2>2
<1>15. ASSUME NEW c \in Conns, NEW k \in Pubs, Setup(c, k) PROVE Types'
  <2>1. CASE bound[c] = k
    BY <1>15, <2>1 DEF Setup, Bind
  <2>2. CASE bound[c] # k
    <3>1. /\ bound' = [bound EXCEPT ![c] = k] /\ clients' = [clients EXCEPT ![k] = @ \cup {c}]
      BY <1>15, <2>2 DEF Setup, Bind
    <3>2. bound' \in [Conns -> Pubs \cup {"none"}] /\ clients' \in [Pubs -> SUBSET Conns]
      BY <3>1
    <3>3. transport' \in [Conns -> BOOLEAN]
      <4>1. transport \in [Conns -> BOOLEAN] /\ transport' = [transport EXCEPT ![c] = TRUE]
        BY <1>15 DEF Setup
      <4> QED BY <4>1
    <3>4. UNCHANGED <<server, stopping, publications, leaving, consumer, media, parameter_sets,
                      conn, playing, waiting_for_irap, ghosts>> /\ wide' \subseteq Conns
      BY <1>15 DEF Setup
    <3> QED BY <3>2, <3>3, <3>4
  <2> QED BY <2>1, <2>2
<1>16. ASSUME NEW c \in Conns, NEW k \in Pubs, Play(c, k) PROVE Types'
  BY <1>16 DEF Play
<1>17. CASE UNCHANGED vars
  BY <1>17
<1>18. ASSUME NEW k \in Pubs, ConsumerFails(k) PROVE Types'
  <2>1. /\ waiting_for_irap' \in [Conns -> BOOLEAN]
        /\ consumer' \in [Pubs -> {"none", "running", "cancelled", "ended", "failed"}]
    BY <1>18 DEF ConsumerFails
  <2> QED BY <1>18, <2>1, ConsumerTakes, TypesDelivered
<1> QED
  BY <1>1, <1>2, <1>3, <1>4, <1>5, <1>6, <1>7, <1>8, <1>9, <1>10, <1>11, <1>12, <1>13, <1>14,
     <1>15, <1>16, <1>17, <1>18, Cases

\* Gapless of one publication depends on these fields of it.
GaplessAt(k) ==
  k \notin lossy =>
    /\ Consumed(k) \in Nat
    /\ Version(k, Len(pending[k])) = version[k]
    /\ \A i \in 1..Len(pending[k]) :
         /\ pending[k][i].at = Consumed(k) + i
         /\ Version(k, i) = Version(k, i - 1) + (IF pending[k][i].kind = "set" THEN 1 ELSE 0)

LEMMA GaplessEmit ==
  ASSUME Types, Gapless, NEW k \in Pubs, NEW kind \in Kinds, Emit(k, kind)
  PROVE  Gapless' /\ \A j \in Pubs : j \notin lossy' => Consumed(j)' = Consumed(j)
<1>1. PICK chunk \in Chunk :
        /\ chunk.kind = kind /\ chunk.at = Len(emitted[k]) + 1
        /\ chunk.version = version[k] + (IF kind = "set" THEN 1 ELSE 0)
        /\ version' = [version EXCEPT ![k] = chunk.version]
        /\ emitted' = [emitted EXCEPT ![k] = Append(@, kind)]
        /\ pending' = [pending EXCEPT ![k] = Append(WithRoom(pending[k]), chunk)]
        /\ lossy' = (IF Len(pending[k]) = QueueSize THEN lossy \cup {k} ELSE lossy)
        /\ UNCHANGED <<server, stopping, publications, leaving, consumer, parameter_sets,
                       clients, conn, client, ghosts>>
  BY EmitFacts
<1> SUFFICES ASSUME NEW j \in Pubs, j \notin lossy' 
             PROVE  GaplessAt(j)' /\ Consumed(j)' = Consumed(j)
  BY DEF Gapless, GaplessAt
<1>2. lossy \subseteq lossy'
  BY <1>1
<1>3. GaplessAt(j) /\ j \notin lossy
  BY <1>2 DEF Gapless, GaplessAt
<1>4. CASE j # k
  <2>1. pending'[j] = pending[j] /\ emitted'[j] = emitted[j] /\ version'[j] = version[j]
        /\ parameter_sets'[j] = parameter_sets[j]
    BY <1>1, <1>4 DEF Types, TypeOK
  <2> QED BY <1>3, <2>1 DEF GaplessAt, Consumed, Version
<1>5. CASE j = k
  <2> DEFINE q == pending[k]
             r == Append(q, chunk)
  <2>0. PICK n \in Nat, e \in Nat : n = Len(q) /\ e = Len(emitted[k])
    BY DEF Types
  <2>1. q \in Seq(Chunk) /\ n # QueueSize
    BY <1>1, <1>5, <2>0 DEF Types
  <2>2. /\ pending'[k] = r /\ emitted'[k] = Append(emitted[k], kind)
        /\ version'[k] = chunk.version /\ parameter_sets'[k] = parameter_sets[k]
    <3>1. pending[k] = q /\ WithRoom(q) = q
      BY <2>0, <2>1 DEF WithRoom
    <3> QED BY <1>1, <3>1 DEF Types, TypeOK
  <2>3. Len(emitted'[k]) = e + 1
    <3>1. emitted[k] \in Seq(Kinds)
      BY DEF Types
    <3> QED BY <2>0, <2>2, <3>1
  <2>4. r \in Seq(Chunk) /\ Len(r) = n + 1 /\ r[n + 1] = chunk /\ \A i \in 1..n : r[i] = q[i]
    <3> HIDE DEF q
    <3> QED BY <2>0, <2>1
  <2>5. /\ e - n \in Nat /\ Version(k, n) = version[k]
        /\ \A i \in 1..n :
             /\ q[i].at = (e - n) + i
             /\ Version(k, i) = Version(k, i - 1) + (IF q[i].kind = "set" THEN 1 ELSE 0)
    BY <1>3, <1>5, <2>0 DEF GaplessAt, Consumed
  <2>6. Consumed(k)' = e - n
    BY <2>0, <2>1, <2>2, <2>3, <2>4 DEF Consumed
  <2>7. \A i \in 0..n : Version(k, i)' = Version(k, i)
    BY <2>2, <2>4 DEF Version
  <2>8. Version(k, n + 1)' = chunk.version
    <3>1. n + 1 # 0 /\ pending'[k][n + 1] = chunk
      BY <2>2, <2>4
    <3> QED BY <3>1 DEF Version
  <2>9. version[k] \in Nat
    BY DEF Types, TypeOK
  <2> HIDE DEF q, r
  <2>10. ASSUME NEW i \in 1..(n + 1)
         PROVE  /\ pending'[k][i].at = Consumed(k)' + i
                /\ Version(k, i)' = Version(k, i - 1)' + (IF pending'[k][i].kind = "set" THEN 1 ELSE 0)
    <3>1. CASE i \in 1..n
      <4>1. i \in 0..n /\ i - 1 \in 0..n
        BY <2>1, <3>1
      <4>2. Version(k, i)' = Version(k, i) /\ Version(k, i - 1)' = Version(k, i - 1)
        BY <2>7, <4>1
      <4>3. pending'[k][i] = q[i]
        BY <2>2, <2>4, <3>1
      <4> QED BY <2>5, <2>6, <3>1, <4>2, <4>3
    <3>2. CASE i = n + 1
      <4>1. n \in 0..n /\ i - 1 = n
        BY <2>1, <3>2
      <4>2. Version(k, i - 1)' = version[k]
        BY <2>5, <2>7, <4>1
      <4>3. pending'[k][i] = chunk
        BY <2>2, <2>4, <3>2
      <4>4. chunk.at = e + 1
        BY <1>1, <2>0
      <4>5. chunk.at = (e - n) + i
        BY <2>1, <3>2, <4>4
      <4>6. Version(k, i)' = version[k] + (IF chunk.kind = "set" THEN 1 ELSE 0)
        BY <1>1, <2>8, <3>2
      <4> QED BY <2>6, <4>2, <4>3, <4>5, <4>6
    <3> QED BY <2>1, <3>1, <3>2
  <2>11. Len(pending'[k]) = n + 1
    BY <2>2, <2>4
  <2>12. version'[k] = Version(k, n + 1)'
    BY <2>2, <2>8
  <2>13. /\ Consumed(k)' \in Nat
         /\ Version(k, Len(pending[k]))' = version'[k]
         /\ \A i \in 1..Len(pending'[k]) :
              /\ pending'[k][i].at = Consumed(k)' + i
              /\ Version(k, i)' = Version(k, i - 1)' + (IF pending'[k][i].kind = "set" THEN 1 ELSE 0)
    BY <2>5, <2>6, <2>10, <2>11, <2>12
  <2>14. Consumed(k)' = Consumed(k)
    BY <2>0, <2>6 DEF Consumed, q
  <2> QED BY <1>5, <2>13, <2>14 DEF GaplessAt
<1> QED BY <1>4, <1>5

LEMMA GaplessDelivered ==
  ASSUME Types, Gapless, NEW k \in Pubs, pending[k] # <<>>,
         NEW to, Delivered(k, Head(pending[k]), to)
  PROVE  /\ Gapless'
         /\ k \notin lossy =>
              /\ pending[k][1].version = parameter_sets'[k]
              /\ pending[k][1].at = Consumed(k) + 1
              /\ Consumed(k)' = Consumed(k) + 1
              /\ pending[k][1].kind # "set" => parameter_sets'[k] = parameter_sets[k]
<1> DEFINE q == pending[k]
<1>0. PICK n \in Nat, e \in Nat : n = Len(q) /\ e = Len(emitted[k])
  BY DEF Types
<1>1. /\ Head(q) = q[1] /\ q[1] \in Chunk /\ n \in Nat /\ n > 0
      /\ Len(pending'[k]) = n - 1
      /\ \A i \in 1..Len(pending'[k]) : pending'[k][i] = q[i + 1]
      /\ \A j \in Pubs : j # k => pending'[j] = pending[j]
  BY <1>0, ConsumeFacts
<1>2. parameter_sets' = [parameter_sets EXCEPT ![k] = Cached(k, q[1])]
      /\ UNCHANGED <<lossy, emitted, version>>
  <2>1. parameter_sets' = [parameter_sets EXCEPT ![k] = Cached(k, Head(q))]
        /\ UNCHANGED <<lossy, emitted, version>>
    BY DEF Delivered
  <2> QED BY <1>1, <2>1
<1>3. ASSUME NEW j \in Pubs, j # k PROVE GaplessAt(j)'
  <2>1. pending'[j] = pending[j] /\ parameter_sets'[j] = parameter_sets[j]
    BY <1>1, <1>2, <1>3 DEF Types, TypeOK
  <2>2. GaplessAt(j)
    BY DEF Gapless, GaplessAt
  <2>3. emitted'[j] = emitted[j] /\ version'[j] = version[j] /\ lossy' = lossy
    BY <1>2
  <2> QED BY <2>1, <2>2, <2>3 DEF GaplessAt, Consumed, Version
<1>4. ASSUME k \notin lossy
      PROVE  /\ GaplessAt(k)'
             /\ q[1].version = parameter_sets'[k] /\ q[1].at = Consumed(k) + 1
             /\ Consumed(k)' = Consumed(k) + 1
             /\ q[1].kind # "set" => parameter_sets'[k] = parameter_sets[k]
  <2>1. e \in Nat /\ e - n \in Nat /\ Version(k, n) = version[k]
    BY <1>0, <1>1, <1>4 DEF Gapless, Consumed, Types
  <2>2. \A i \in 1..n :
          /\ q[i].at = (e - n) + i
          /\ Version(k, i) = Version(k, i - 1) + (IF q[i].kind = "set" THEN 1 ELSE 0)
    BY <1>0, <1>4 DEF Gapless, Consumed
  <2>3. Consumed(k) = e - n /\ Consumed(k)' = e - (n - 1)
    BY <1>0, <1>1, <1>2 DEF Consumed
  <2>4. parameter_sets[k] \in Nat /\ parameter_sets'[k] = Cached(k, q[1])
    BY <1>2 DEF Types, TypeOK
  <2>5. Version(k, 0) = parameter_sets[k] /\ Version(k, 1) = q[1].version
    BY DEF Version
  <2>6. 1 \in 1..n /\ 1 - 1 = 0
    BY <1>1
  <2>7. q[1].version = parameter_sets[k] + (IF q[1].kind = "set" THEN 1 ELSE 0)
    BY <2>2, <2>5, <2>6
  <2>8. q[1].version = parameter_sets'[k]
        /\ (q[1].kind # "set" => parameter_sets'[k] = parameter_sets[k])
    BY <2>4, <2>7 DEF Cached
  <2> HIDE DEF q
  <2>9. \A i \in 0..(n - 1) : Version(k, i)' = Version(k, i + 1)
    <3> TAKE i \in 0..(n - 1)
    <3>1. CASE i = 0
      BY <2>5, <2>8, <3>1 DEF Version
    <3>2. CASE i # 0
      <4>1. i \in 1..Len(pending'[k]) /\ i + 1 # 0
        BY <1>1, <3>2
      <4> QED BY <1>1, <3>2, <4>1 DEF Version, q
    <3> QED BY <3>1, <3>2
  <2>10. ASSUME NEW i \in 1..Len(pending'[k])
         PROVE  /\ pending'[k][i].at = Consumed(k)' + i
                /\ Version(k, i)' = Version(k, i - 1)' + (IF pending'[k][i].kind = "set" THEN 1 ELSE 0)
    <3>1. /\ i + 1 \in 1..n /\ i \in 0..(n - 1) /\ i - 1 \in 0..(n - 1)
          /\ (i - 1) + 1 = i /\ (i + 1) - 1 = i
      BY <1>1
    <3>2. Version(k, i)' = Version(k, i + 1) /\ Version(k, i - 1)' = Version(k, i)
      BY <2>9, <3>1
    <3>3. q[i + 1].at = (e - n) + (i + 1)
          /\ Version(k, i + 1) = Version(k, i) + (IF q[i + 1].kind = "set" THEN 1 ELSE 0)
      BY <2>2, <3>1
    <3>4. pending'[k][i] = q[i + 1]
      BY <1>1
    <3>5. (e - n) + (i + 1) = (e - (n - 1)) + i
      BY <1>1, <2>1
    <3> QED BY <2>3, <3>2, <3>3, <3>4, <3>5
  <2>11. Version(k, n - 1)' = version[k]
    <3>1. n - 1 \in 0..(n - 1) /\ (n - 1) + 1 = n
      BY <1>1
    <3> QED BY <2>1, <2>9, <3>1
  <2>12. GaplessAt(k)'
    <3>1. e - (n - 1) \in Nat
      BY <1>1, <2>1
    <3>2. /\ Consumed(k)' \in Nat
          /\ Version(k, Len(pending[k]))' = version'[k]
          /\ \A i \in 1..Len(pending'[k]) :
               /\ pending'[k][i].at = Consumed(k)' + i
               /\ Version(k, i)' = Version(k, i - 1)' + (IF pending'[k][i].kind = "set" THEN 1 ELSE 0)
      BY <1>1, <1>2, <2>3, <2>10, <2>11, <3>1
    <3> QED BY <3>2 DEF GaplessAt
  <2>13. q[1].at = Consumed(k) + 1
    BY <2>2, <2>3, <2>6
  <2>14. Consumed(k)' = Consumed(k) + 1
    BY <1>1, <2>1, <2>3
  <2> QED BY <2>8, <2>12, <2>13, <2>14
<1>5. k \in lossy => GaplessAt(k)'
  BY <1>2 DEF GaplessAt
<1> QED BY <1>3, <1>4, <1>5 DEF Gapless, GaplessAt

LEMMA GaplessStep ==
  ASSUME Types, Gapless, [Next]_vars
  PROVE  Gapless'
<1>1. CASE \E k \in Pubs, kind \in Kinds : Emit(k, kind)
  BY <1>1, GaplessEmit
<1>2. CASE \E k \in Pubs : Consume(k) \/ ConsumerFails(k)
  BY <1>2, ConsumerTakes, GaplessDelivered
<1>3. CASE UNCHANGED <<media, parameter_sets>>
  BY <1>3, ZenonT(60) DEF Gapless, Consumed, Version, media
<1>4. ASSUME ~ \E k \in Pubs, kind \in Kinds : Emit(k, kind),
             ~ \E k \in Pubs : Consume(k) \/ ConsumerFails(k)
      PROVE  UNCHANGED <<media, parameter_sets>>
  <2> USE DEF vars, media, client, ghosts
  <2>1. CASE Start \/ Stop \/ WaitClosed \/ StopUnpublishes
    BY <2>1 DEF Start, Stop, WaitClosed, StopUnpublishes, BeginUnpublish, UnpublishFails
  <2>2. CASE \E k \in Pubs : Publish(k) \/ Unpublish(k) \/ EndUnpublish(k)
    BY <2>2 DEF Publish, Unpublish, BeginUnpublish, UnpublishFails, EndUnpublish
  <2>3. CASE \E c \in Conns : Connect(c) \/ HandlerStarts(c) \/ HandlerEnds(c) \/ SlowClient(c)
    BY <2>3 DEF Connect, HandlerStarts, HandlerEnds, SlowClient
  <2>4. CASE \E c \in Conns, k \in Pubs : Describe(c, k) \/ Setup(c, k) \/ Play(c, k)
    BY <2>4 DEF Describe, Setup, Play
  <2>5. CASE UNCHANGED vars
    BY <2>5
  <2> QED BY <1>4, <2>1, <2>2, <2>3, <2>4, <2>5, Cases
<1> QED BY <1>1, <1>2, <1>3, <1>4

\* Nobody who gets a chunk gets it out of place.
LEMMA DecodableDelivered ==
  ASSUME Types, Belonging, Gapless, UpToDate, EveryPictureDecodable,
         NEW k \in Pubs, pending[k] # <<>>, consumer[k] = "running",
         NEW to \in SUBSET Sent(k, Head(pending[k])), Delivered(k, Head(pending[k]), to)
  PROVE  EveryPictureDecodable'
<1> DEFINE chunk == pending[k][1]
<1>1. Head(pending[k]) = chunk /\ chunk \in Chunk
  BY ConsumeFacts
<1>2. broken' = broken \cup {c \in to : /\ k \notin lossy /\ conn[c] = "serving"
                                     /\ Undecodable(c, k, chunk)}
  BY <1>1 DEF Delivered
<1>3. k \notin lossy =>
        /\ chunk.version = parameter_sets'[k] /\ chunk.at = Consumed(k) + 1
        /\ chunk.kind # "set" => parameter_sets'[k] = parameter_sets[k]
  BY GaplessDelivered
<1>4. k \notin lossy => Consumed(k) \in Nat
  BY DEF Gapless
<1>5. \A c \in to : c \in Conns /\ bound[c] = k /\ (waiting_for_irap[c] => chunk.kind = "irap")
  BY <1>1 DEF Sent, Belonging, Types
<1> HIDE DEF chunk
<1> SUFFICES ASSUME NEW c \in to, k \notin lossy, conn[c] = "serving", chunk.kind # "set"
             PROVE  HasAfter(c, k, chunk) = chunk.version
                    /\ (chunk.kind = "inter" => last[c] = chunk.at - 1)
  BY <1>2 DEF EveryPictureDecodable, Undecodable
<1>6. c \in Conns /\ bound[c] = k
  BY <1>5
<1>7. CASE waiting_for_irap[c]
  BY <1>3, <1>5, <1>7 DEF HasAfter
<1>8. CASE ~waiting_for_irap[c]
  <2>1. have[c] = parameter_sets[k] /\ last[c] = Consumed(k)
    BY <1>6, <1>8 DEF UpToDate
  <2> QED BY <1>3, <1>4, <1>8, <2>1 DEF HasAfter
<1> QED BY <1>7, <1>8

\* A chunk that is consumed reaches the clients that wait for an IRAP, if it is
\* one, and all the others.
LEMMA UpToDateConsume ==
  ASSUME Types, Lifecycle, Belonging, Gapless, UpToDate, NEW k \in Pubs, Consume(k)
  PROVE  UpToDate'
<1> DEFINE chunk == pending[k][1]
           to    == Sent(k, chunk)
<1>1. Head(pending[k]) = chunk /\ chunk \in Chunk
  <2>1. Delivered(k, Head(pending[k]), Sent(k, Head(pending[k]))) /\ pending[k] # <<>>
    BY DEF Consume
  <2> QED BY <2>1, ConsumeFacts
<1>2. /\ parameter_sets' = [parameter_sets EXCEPT ![k] = Cached(k, chunk)]
      /\ waiting_for_irap' = [c \in Conns |-> waiting_for_irap[c] /\ c \notin to]
      /\ have' = [c \in Conns |-> IF c \in to THEN HasAfter(c, k, chunk) ELSE have[c]]
      /\ last' = [c \in Conns |-> IF c \in to THEN chunk.at ELSE last[c]]
      /\ UNCHANGED <<conn, bound, playing, transport, lossy, emitted, clients, consumer>>
      /\ consumer[k] = "running"
  BY <1>1 DEF Consume, Delivered
<1>3. k \notin lossy =>
        /\ chunk.version = parameter_sets'[k] /\ chunk.at = Consumed(k) + 1
        /\ Consumed(k)' = Consumed(k) + 1
        /\ chunk.kind # "set" => parameter_sets'[k] = parameter_sets[k]
  <2>1. Delivered(k, Head(pending[k]), to) /\ pending[k] # <<>>
    BY <1>1 DEF Consume
  <2> QED BY <2>1, GaplessDelivered
<1>4. k \notin lossy => Consumed(k) \in Nat
  BY DEF Gapless
<1>5. \A c \in to : c \in Conns /\ bound[c] = k /\ (waiting_for_irap[c] => chunk.kind = "irap")
  BY DEF Sent, Belonging, Types
<1>6. \A j \in Pubs : j # k =>
        parameter_sets'[j] = parameter_sets[j] /\ Consumed(j)' = Consumed(j)
  <2>1. Delivered(k, Head(pending[k]), to) /\ pending[k] # <<>>
    BY <1>1 DEF Consume
  <2> QED BY <1>2, <2>1, ConsumeFacts DEF Consumed, Types, TypeOK
<1> HIDE DEF chunk, to
<1>7. ASSUME NEW c \in Conns, conn[c] = "serving", bound[c] = k, ~waiting_for_irap[c],
             k \notin lossy
      PROVE  c \in to /\ have[c] = parameter_sets[k] /\ last[c] = Consumed(k)
  <2>1. playing[c] /\ transport[c] /\ have[c] = parameter_sets[k] /\ last[c] = Consumed(k)
    BY <1>2, <1>7 DEF UpToDate
  <2>2. c \in clients[k]
    BY <1>2, <1>7 DEF Belonging
  <2> QED BY <1>7, <2>1, <2>2 DEF to, Sent
<1>8. UpToDate'
  <2> SUFFICES ASSUME NEW c \in Conns, NEW j \in Pubs, conn[c] = "serving", bound[c] = j,
                      ~waiting_for_irap'[c], j \notin lossy, consumer[j] # "failed"
               PROVE  /\ playing[c] /\ transport[c] /\ have'[c] = parameter_sets'[j]
                      /\ last'[c] = Consumed(j)'
    BY <1>2 DEF UpToDate
  <2>1. CASE j # k
    <3>1. c \notin to
      BY <1>5, <2>1
    <3>2. ~waiting_for_irap[c] /\ have'[c] = have[c] /\ last'[c] = last[c]
      BY <1>2, <3>1
    <3>3. playing[c] /\ transport[c] /\ have[c] = parameter_sets[j] /\ last[c] = Consumed(j)
      BY <3>2 DEF UpToDate
    <3> QED BY <1>6, <2>1, <3>2, <3>3
  <2>2. CASE j = k
    <3>1. c \in to
      BY <1>2, <1>7, <2>2
    <3>2. playing[c] /\ transport[c]
      BY <3>1 DEF to, Sent
    <3>3. last'[c] = Consumed(k)'
      BY <1>2, <1>3, <2>2, <3>1
    <3>4. have'[c] = HasAfter(c, k, chunk)
      BY <1>2, <3>1
    <3>5. HasAfter(c, k, chunk) = parameter_sets'[k]
      <4>1. CASE chunk.kind = "set"
        BY <1>3, <2>2, <4>1 DEF HasAfter
      <4>2. CASE chunk.kind # "set" /\ waiting_for_irap[c]
        BY <1>3, <2>2, <4>2 DEF HasAfter
      <4>3. CASE chunk.kind # "set" /\ ~waiting_for_irap[c]
        BY <1>3, <1>7, <2>2, <4>3 DEF HasAfter
      <4> QED BY <4>1, <4>2, <4>3
    <3> QED BY <2>2, <3>2, <3>3, <3>4, <3>5
  <2> QED BY <2>1, <2>2
<1> QED BY <1>8

\* A consumer that fails owes nothing more to its own clients, and nothing to others.
LEMMA UpToDateFailed ==
  ASSUME Types, Belonging, UpToDate, NEW k \in Pubs, ConsumerFails(k)
  PROVE  UpToDate'
<1> DEFINE chunk == Head(pending[k])
<1>1. PICK to \in SUBSET (Sent(k, chunk) \ wide), f \in Sent(k, chunk) \cap wide :
        /\ pending' = [pending EXCEPT ![k] = Tail(@)]
        /\ parameter_sets' = [parameter_sets EXCEPT ![k] = Cached(k, chunk)]
        /\ have' = [c \in Conns |-> IF c \in to THEN HasAfter(c, k, chunk) ELSE have[c]]
        /\ last' = [c \in Conns |-> IF c \in to THEN chunk.at ELSE last[c]]
        /\ waiting_for_irap' = [c \in Conns |-> /\ waiting_for_irap[c] /\ c \notin to
                                               /\ c = f => parameter_sets[k] # 0]
        /\ UNCHANGED <<conn, bound, playing, transport, lossy, emitted>>
  BY DEF ConsumerFails, Delivered
<1>2. consumer' = [consumer EXCEPT ![k] = "failed"]
  BY DEF ConsumerFails
<1>3. \A c \in to \cup {f} : c \in Conns /\ bound[c] = k
  BY DEF Sent, Belonging, Types
<1> HIDE DEF chunk
<1> SUFFICES ASSUME NEW c \in Conns, NEW j \in Pubs, conn[c] = "serving", bound[c] = j,
                    ~waiting_for_irap'[c], j \notin lossy, consumer'[j] # "failed"
             PROVE  /\ playing[c] /\ transport[c] /\ have'[c] = parameter_sets'[j]
                    /\ last'[c] = Consumed(j)'
  BY <1>1 DEF UpToDate
<1>4. j # k /\ consumer[j] # "failed"
  BY <1>2 DEF Types, TypeOK
<1>5. c \notin to /\ c # f
  BY <1>3, <1>4
<1>6. ~waiting_for_irap[c] /\ have'[c] = have[c] /\ last'[c] = last[c]
  BY <1>1, <1>5
<1>7. playing[c] /\ transport[c] /\ have[c] = parameter_sets[j] /\ last[c] = Consumed(j)
  BY <1>4, <1>6 DEF UpToDate
<1>8. parameter_sets'[j] = parameter_sets[j] /\ Consumed(j)' = Consumed(j)
  BY <1>1, <1>4 DEF Consumed, Types, TypeOK
<1> QED BY <1>6, <1>7, <1>8

\* UpToDate goes on for a client whose own fields go on.
LEMMA UpToDateFrame ==
  ASSUME UpToDate, UNCHANGED parameter_sets,
         \A k \in Pubs : k \notin lossy' => k \notin lossy /\ Consumed(k)' = Consumed(k),
         \A k \in Pubs : consumer[k] = "failed" => consumer'[k] = "failed",
         \A c \in Conns, k \in Pubs :
           conn'[c] = "serving" /\ bound'[c] = k /\ ~waiting_for_irap'[c] =>
             /\ conn[c] = "serving" /\ bound[c] = k /\ ~waiting_for_irap[c]
             /\ playing'[c] = playing[c] /\ (transport[c] => transport'[c])
             /\ have'[c] = have[c] /\ last'[c] = last[c]
  PROVE  UpToDate'
<1> SUFFICES ASSUME NEW c \in Conns, NEW k \in Pubs, conn'[c] = "serving", bound'[c] = k,
                    ~waiting_for_irap'[c], k \notin lossy', consumer'[k] # "failed"
             PROVE  /\ playing'[c] /\ transport'[c] /\ have'[c] = parameter_sets'[k]
                    /\ last'[c] = Consumed(k)'
  BY DEF UpToDate
<1>1. conn[c] = "serving" /\ bound[c] = k /\ ~waiting_for_irap[c] /\ k \notin lossy
      /\ consumer[k] # "failed"
  OBVIOUS
<1>2. playing[c] /\ transport[c] /\ have[c] = parameter_sets[k] /\ last[c] = Consumed(k)
  BY <1>1 DEF UpToDate
<1> QED BY <1>2

\* the other actions send nothing
LEMMA UpToDateStep ==
  ASSUME Types, Lifecycle, Belonging, Gapless, UpToDate, EveryPictureDecodable, [Next]_vars
  PROVE  UpToDate'
<1> USE DEF vars, media, client, ghosts, UpToDate, Belonging, Types, TypeOK, Active, Closing,
            Consumed
<1>1. CASE Start
  BY <1>1 DEF Start
<1>2. CASE Stop
  BY <1>2 DEF Stop
<1>3. CASE WaitClosed
  BY <1>3 DEF WaitClosed
<1>4. CASE StopUnpublishes
  <2>1. UNCHANGED <<parameter_sets, pending, emitted, lossy>>
    BY <1>4 DEF StopUnpublishes, BeginUnpublish, UnpublishFails
  <2>2. \A h \in Pubs : h \notin lossy' => h \notin lossy /\ Consumed(h)' = Consumed(h)
    BY <2>1
  <2>3. \A d \in Conns, j \in Pubs :
          conn'[d] = "serving" /\ bound'[d] = j /\ ~waiting_for_irap'[d] =>
            /\ conn[d] = "serving" /\ bound[d] = j /\ ~waiting_for_irap[d]
            /\ playing'[d] = playing[d] /\ (transport[d] => transport'[d])
            /\ have'[d] = have[d] /\ last'[d] = last[d]
    BY <1>4, RtspAssumption DEF StopUnpublishes, BeginUnpublish, UnpublishFails
  <2>4. \A h \in Pubs : consumer[h] = "failed" => consumer'[h] = "failed"
    BY <1>4 DEF StopUnpublishes, BeginUnpublish, UnpublishFails
  <2> QED BY <2>1, <2>2, <2>3, <2>4, UpToDateFrame
<1>5. ASSUME NEW k \in Pubs, Publish(k) PROVE UpToDate'
  BY <1>5, SMTT(40) DEF Publish
<1>6. ASSUME NEW k \in Pubs, Unpublish(k) PROVE UpToDate'
  <2>1. UNCHANGED <<parameter_sets, pending, emitted, lossy>>
    BY <1>6 DEF Unpublish, BeginUnpublish, UnpublishFails
  <2>2. \A h \in Pubs : h \notin lossy' => h \notin lossy /\ Consumed(h)' = Consumed(h)
    BY <2>1
  <2>3. \A d \in Conns, j \in Pubs :
          conn'[d] = "serving" /\ bound'[d] = j /\ ~waiting_for_irap'[d] =>
            /\ conn[d] = "serving" /\ bound[d] = j /\ ~waiting_for_irap[d]
            /\ playing'[d] = playing[d] /\ (transport[d] => transport'[d])
            /\ have'[d] = have[d] /\ last'[d] = last[d]
    BY <1>6, RtspAssumption DEF Unpublish, BeginUnpublish, UnpublishFails
  <2>4. \A h \in Pubs : consumer[h] = "failed" => consumer'[h] = "failed"
    BY <1>6 DEF Unpublish, BeginUnpublish, UnpublishFails
  <2> QED BY <2>1, <2>2, <2>3, <2>4, UpToDateFrame
<1>7. ASSUME NEW k \in Pubs, EndUnpublish(k) PROVE UpToDate'
  <2>1. /\ UNCHANGED <<parameter_sets, pending, emitted, lossy, bound, waiting_for_irap, have,
                       last>>
        /\ transport' = [c \in Conns |-> transport[c] /\ c \notin clients[k]]
        /\ playing' = [c \in Conns |-> playing[c] /\ c \notin clients[k]]
        /\ conn' = [c \in Conns |-> IF c \in clients[k] THEN Closing(c) ELSE conn[c]]
    BY <1>7 DEF EndUnpublish
  <2>2. \A h \in Pubs : h \notin lossy' => h \notin lossy /\ Consumed(h)' = Consumed(h)
    BY <2>1
  <2>3. \A d \in Conns : conn'[d] = "serving" => d \notin clients[k] /\ conn[d] = "serving"
    BY <2>1
  <2>4. \A d \in Conns : conn'[d] = "serving" =>
          playing'[d] = playing[d] /\ (transport[d] => transport'[d])
    BY <2>1, <2>3
  <2>5. \A h \in Pubs : consumer[h] = "failed" => consumer'[h] = "failed"
    BY <1>7 DEF EndUnpublish, Lifecycle
  <2> QED BY <2>1, <2>2, <2>3, <2>4, <2>5, UpToDateFrame
<1>8. ASSUME NEW k \in Pubs, Consume(k) PROVE UpToDate'
  BY <1>8, UpToDateConsume
<1>9. ASSUME NEW k \in Pubs, NEW kind \in Kinds, Emit(k, kind) PROVE UpToDate'
  <2>1. PICK chunk \in Chunk :
          /\ lossy' = (IF Len(pending[k]) = QueueSize THEN lossy \cup {k} ELSE lossy)
          /\ UNCHANGED <<server, stopping, publications, leaving, consumer, parameter_sets,
                         clients, conn, client, ghosts>>
    BY <1>9, EmitFacts
  <2>2. \A j \in Pubs : j \notin lossy' => Consumed(j)' = Consumed(j) /\ j \notin lossy
    BY <1>9, <2>1, GaplessEmit
  <2> QED BY <2>1, <2>2, UpToDateFrame
<1>10. ASSUME NEW c \in Conns, Connect(c) PROVE UpToDate'
  <2>1. UNCHANGED <<parameter_sets, pending, emitted, lossy, consumer>>
    BY <1>10 DEF Connect
  <2>2. \A h \in Pubs : h \notin lossy' => h \notin lossy /\ Consumed(h)' = Consumed(h)
    BY <2>1
  <2>3. \A d \in Conns, j \in Pubs :
          conn'[d] = "serving" /\ bound'[d] = j /\ ~waiting_for_irap'[d] =>
            /\ conn[d] = "serving" /\ bound[d] = j /\ ~waiting_for_irap[d]
            /\ playing'[d] = playing[d] /\ (transport[d] => transport'[d])
            /\ have'[d] = have[d] /\ last'[d] = last[d]
    BY <1>10, RtspAssumption DEF Connect
  <2> QED BY <2>1, <2>2, <2>3, UpToDateFrame
<1>11. ASSUME NEW c \in Conns, HandlerStarts(c) PROVE UpToDate'
  <2>1. UNCHANGED <<parameter_sets, pending, emitted, lossy, consumer>>
    BY <1>11 DEF HandlerStarts
  <2>2. \A h \in Pubs : h \notin lossy' => h \notin lossy /\ Consumed(h)' = Consumed(h)
    BY <2>1
  <2>3. \A d \in Conns, j \in Pubs :
          conn'[d] = "serving" /\ bound'[d] = j /\ ~waiting_for_irap'[d] =>
            /\ conn[d] = "serving" /\ bound[d] = j /\ ~waiting_for_irap[d]
            /\ playing'[d] = playing[d] /\ (transport[d] => transport'[d])
            /\ have'[d] = have[d] /\ last'[d] = last[d]
    BY <1>11, RtspAssumption DEF HandlerStarts
  <2> QED BY <2>1, <2>2, <2>3, UpToDateFrame
<1>12. ASSUME NEW c \in Conns, HandlerEnds(c) PROVE UpToDate'
  <2>1. UNCHANGED <<parameter_sets, pending, emitted, lossy, consumer>>
    BY <1>12 DEF HandlerEnds
  <2>2. \A h \in Pubs : h \notin lossy' => h \notin lossy /\ Consumed(h)' = Consumed(h)
    BY <2>1
  <2>3. \A d \in Conns, j \in Pubs :
          conn'[d] = "serving" /\ bound'[d] = j /\ ~waiting_for_irap'[d] =>
            /\ conn[d] = "serving" /\ bound[d] = j /\ ~waiting_for_irap[d]
            /\ playing'[d] = playing[d] /\ (transport[d] => transport'[d])
            /\ have'[d] = have[d] /\ last'[d] = last[d]
    BY <1>12, RtspAssumption DEF HandlerEnds
  <2> QED BY <2>1, <2>2, <2>3, UpToDateFrame
<1>13. ASSUME NEW c \in Conns, SlowClient(c) PROVE UpToDate'
  <2>1. UNCHANGED <<parameter_sets, pending, emitted, lossy, consumer>>
    BY <1>13 DEF SlowClient
  <2>2. \A h \in Pubs : h \notin lossy' => h \notin lossy /\ Consumed(h)' = Consumed(h)
    BY <2>1
  <2>3. /\ conn'[c] = "closing"
        /\ \A d \in Conns : d # c => conn'[d] = conn[d] /\ playing'[d] = playing[d]
    BY <1>13 DEF SlowClient
  <2>4. UNCHANGED <<bound, waiting_for_irap, transport, have, last>>
    BY <1>13 DEF SlowClient
  <2>5. \A d \in Conns, j \in Pubs :
          conn'[d] = "serving" /\ bound'[d] = j /\ ~waiting_for_irap'[d] =>
            /\ conn[d] = "serving" /\ bound[d] = j /\ ~waiting_for_irap[d]
            /\ playing'[d] = playing[d] /\ (transport[d] => transport'[d])
            /\ have'[d] = have[d] /\ last'[d] = last[d]
    BY <2>3, <2>4
  <2> QED BY <2>1, <2>2, <2>5, UpToDateFrame
<1>14. ASSUME NEW c \in Conns, NEW k \in Pubs, Describe(c, k) PROVE UpToDate'
  <2>1. UNCHANGED <<parameter_sets, pending, emitted, lossy, consumer>>
    BY <1>14 DEF Describe, Bind
  <2>2. \A h \in Pubs : h \notin lossy' => h \notin lossy /\ Consumed(h)' = Consumed(h)
    BY <2>1
  <2>3. \A d \in Conns, j \in Pubs :
          conn'[d] = "serving" /\ bound'[d] = j /\ ~waiting_for_irap'[d] =>
            /\ conn[d] = "serving" /\ bound[d] = j /\ ~waiting_for_irap[d]
            /\ playing'[d] = playing[d] /\ (transport[d] => transport'[d])
            /\ have'[d] = have[d] /\ last'[d] = last[d]
    <3>1. /\ k \in publications /\ conn[c] \in {"serving", "closing"} /\ Bind(c, k)
          /\ UNCHANGED <<conn, consumer, playing, waiting_for_irap, have, last>>
      BY <1>14 DEF Describe, Found
    <3>2. bound'[c] = k /\ \A d \in Conns : d # c => bound'[d] = bound[d]
      BY <3>1, BindKeeps
    <3>3. bound[c] = k \/ waiting_for_irap[c]
      BY <3>1 DEF Bind
    <3>4. \A d \in Conns : transport[d] => transport'[d]
      BY <1>14 DEF Describe
    <3> QED BY <3>1, <3>2, <3>3, <3>4, SMTT(40)
  <2> QED BY <2>1, <2>2, <2>3, UpToDateFrame
<1>15. ASSUME NEW c \in Conns, NEW k \in Pubs, Setup(c, k) PROVE UpToDate'
  <2>1. UNCHANGED <<parameter_sets, pending, emitted, lossy, consumer>>
    BY <1>15 DEF Setup, Bind
  <2>2. \A h \in Pubs : h \notin lossy' => h \notin lossy /\ Consumed(h)' = Consumed(h)
    BY <2>1
  <2>3. \A d \in Conns, j \in Pubs :
          conn'[d] = "serving" /\ bound'[d] = j /\ ~waiting_for_irap'[d] =>
            /\ conn[d] = "serving" /\ bound[d] = j /\ ~waiting_for_irap[d]
            /\ playing'[d] = playing[d] /\ (transport[d] => transport'[d])
            /\ have'[d] = have[d] /\ last'[d] = last[d]
    <3>1. /\ k \in publications /\ conn[c] \in {"serving", "closing"} /\ Bind(c, k)
          /\ UNCHANGED <<conn, consumer, playing, waiting_for_irap, have, last>>
      BY <1>15 DEF Setup, Found
    <3>2. bound'[c] = k /\ \A d \in Conns : d # c => bound'[d] = bound[d]
      BY <3>1, BindKeeps
    <3>3. bound[c] = k \/ waiting_for_irap[c]
      BY <3>1 DEF Bind
    <3>4. \A d \in Conns : transport[d] => transport'[d]
      BY <1>15 DEF Setup
    <3> QED BY <3>1, <3>2, <3>3, <3>4, SMTT(40)
  <2> QED BY <2>1, <2>2, <2>3, UpToDateFrame
<1>16. ASSUME NEW c \in Conns, NEW k \in Pubs, Play(c, k) PROVE UpToDate'
  <2>1. UNCHANGED <<parameter_sets, pending, emitted, lossy, consumer>>
    BY <1>16 DEF Play
  <2>2. \A h \in Pubs : h \notin lossy' => h \notin lossy /\ Consumed(h)' = Consumed(h)
    BY <2>1
  <2>3. \A d \in Conns, j \in Pubs :
          conn'[d] = "serving" /\ bound'[d] = j /\ ~waiting_for_irap'[d] =>
            /\ conn[d] = "serving" /\ bound[d] = j /\ ~waiting_for_irap[d]
            /\ playing'[d] = playing[d] /\ (transport[d] => transport'[d])
            /\ have'[d] = have[d] /\ last'[d] = last[d]
    <3>1. /\ waiting_for_irap'[c]
          /\ \A d \in Conns : d # c => /\ waiting_for_irap'[d] = waiting_for_irap[d]
                                      /\ playing'[d] = playing[d]
      BY <1>16 DEF Play
    <3>2. \A d \in Conns : d # c => have'[d] = have[d] /\ last'[d] = last[d]
      BY <1>16 DEF Play
    <3>3. UNCHANGED <<conn, bound, transport>>
      BY <1>16 DEF Play
    <3> QED BY <3>1, <3>2, <3>3
  <2> QED BY <2>1, <2>2, <2>3, UpToDateFrame
<1>17. CASE UNCHANGED vars
  BY <1>17
<1>18. ASSUME NEW k \in Pubs, ConsumerFails(k) PROVE UpToDate'
  BY <1>18, UpToDateFailed
<1> QED
  BY <1>1, <1>2, <1>3, <1>4, <1>5, <1>6, <1>7, <1>8, <1>9, <1>10, <1>11, <1>12, <1>13, <1>14,
     <1>15, <1>16, <1>17, <1>18, Cases

LEMMA DecodableStep ==
  ASSUME Types, Lifecycle, Belonging, Gapless, UpToDate, EveryPictureDecodable, [Next]_vars
  PROVE  EveryPictureDecodable'
<1>1. CASE \E k \in Pubs : Consume(k) \/ ConsumerFails(k)
  BY <1>1, ConsumerTakes, DecodableDelivered
<1>2. ASSUME ~ \E k \in Pubs : Consume(k) \/ ConsumerFails(k) PROVE broken' = broken
  <2> USE DEF vars, media, client, ghosts
  <2>1. CASE Start \/ Stop \/ WaitClosed \/ StopUnpublishes
    BY <2>1 DEF Start, Stop, WaitClosed, StopUnpublishes, BeginUnpublish, UnpublishFails
  <2>2. CASE \E k \in Pubs : Publish(k) \/ Unpublish(k) \/ EndUnpublish(k)
    BY <2>2 DEF Publish, Unpublish, BeginUnpublish, UnpublishFails, EndUnpublish
  <2>3. CASE \E k \in Pubs, kind \in Kinds : Emit(k, kind)
    BY <2>3 DEF Emit
  <2>4. CASE \E c \in Conns : Connect(c) \/ HandlerStarts(c) \/ HandlerEnds(c) \/ SlowClient(c)
    BY <2>4 DEF Connect, HandlerStarts, HandlerEnds, SlowClient
  <2>5. CASE \E c \in Conns, k \in Pubs : Describe(c, k) \/ Setup(c, k) \/ Play(c, k)
    BY <2>5 DEF Describe, Setup, Play
  <2>6. CASE UNCHANGED vars
    BY <2>6
  <2> QED BY <1>2, <2>1, <2>2, <2>3, <2>4, <2>5, <2>6, Cases
<1> QED BY <1>1, <1>2 DEF EveryPictureDecodable

----------------------------------------------------------------------------
\* IInv is inductive.
THEOREM ServerInvariant == Spec => []IInv
<1>1. Init => IInv
  <2> SUFFICES ASSUME Init PROVE IInv
    OBVIOUS
  <2> USE DEF Init
  <2>1. Types
    <3>1. \A k \in Pubs : pending[k] = <<>> /\ emitted[k] = <<>> /\ Len(pending[k]) = 0
      OBVIOUS
    <3>2. QueueSize \in Nat
      BY RtspAssumption
    <3>3. pending \in [Pubs -> Seq(Chunk)] /\ emitted \in [Pubs -> Seq(Kinds)]
      OBVIOUS
    <3> QED BY <3>1, <3>2, <3>3 DEF Types, TypeOK, Active
  <2>2. Lifecycle /\ Belonging /\ UnpublishedIsSilent /\ UpToDate /\ EveryPictureDecodable
    BY DEF Lifecycle, Belonging, UnpublishedIsSilent, UpToDate, EveryPictureDecodable
  <2>3. Gapless
    <3>1. \A k \in Pubs : /\ Len(pending[k]) = 0 /\ Len(emitted[k]) = 0
                          /\ version[k] = parameter_sets[k]
      OBVIOUS
    <3> QED BY <3>1 DEF Gapless, Consumed, Version
  <2> QED BY <2>1, <2>2, <2>3 DEF IInv
<1>2. IInv /\ [Next]_vars => IInv'
  BY TypesStep, LifecycleStep, BelongingStep, SilentStep, GaplessStep, UpToDateStep,
     DecodableStep DEF IInv
<1> QED BY <1>1, <1>2, PTL DEF Spec

\* Type correctness of the listener, its connections and publications.
THEOREM ServerTyped == Spec => []TypeOK
<1>1. IInv => TypeOK
  BY DEF IInv, Types
<1> QED BY <1>1, ServerInvariant, PTL

\* A removed publication keeps no client, whatever requests its clients still
\* have in their buffers (_publication_for_uri, unpublish()).
THEOREM RemovedIsSilent == Spec => []UnpublishedIsSilent
<1>1. IInv => UnpublishedIsSilent
  BY DEF IInv
<1> QED BY <1>1, ServerInvariant, PTL

\* stop() leaves neither publication nor connection behind.
THEOREM StopIsComplete == Spec => []NothingAfterStop
<1>1. IInv => NothingAfterStop
  BY DEF IInv, Lifecycle, NothingAfterStop, AllGone, AllConnectionsEnded, Types, TypeOK
<1> QED BY <1>1, ServerInvariant, PTL

\* _broadcast_video never sends a client what it cannot decode.
THEOREM ClientsCanDecode == Spec => []EveryPictureDecodable
<1>1. IInv => EveryPictureDecodable
  BY DEF IInv
<1> QED BY <1>1, ServerInvariant, PTL
=============================================================================
