------------------------- MODULE CameraServiceProofs -------------------------
(***************************************************************************)
(* The safety properties of CameraService for any number of cameras,       *)
(* threads and calls of async_stop, none of which comes while async_start  *)
(* awaits the listener (ServiceStopDuringStart shows what happens then).   *)
(***************************************************************************)
EXTENDS CameraService, FiniteSetTheorems, TLAPS

Fresh == \A c \in Cameras : thread[c] = "none"

\* a cleanup has begun
Late == {"gather", "wait_closed", "unpublish", "stop_wait", "join", "done", "failed"}

\* where the coroutines may be together, and who has begun which cleanup
Places ==
  /\ frontend # "manager" => ~stopped /\ \A p \in Stops : pc[p] = "idle"
  /\ pc["start"] # "nothing"
  /\ frontend = "preview" => pc["start"] \notin {"gather", "wait_closed", "unpublish", "failed"}
  /\ frontend # "preview" => /\ rtsp_thread = "none"
                              /\ \A p \in Procs : pc[p] \notin {"stop_wait", "join"}
  /\ \A p \in Stops : /\ pc[p] \notin {"starting", "running", "raised"}
                      /\ pc[p] # "idle" => stopped
  /\ \A p \in Procs : pc[p] \in Late =>
       pc["start"] # "starting" /\ (pc["start"] = "idle" => stopped)
  /\ stop_sessions => \E p \in Procs : pc[p] \in Late

\* which sessions there are, and which of them a gather() waits for
Known ==
  /\ pc["start"] \in {"idle", "starting", "raised"} => Fresh
  /\ frontend = "manager" /\ pc["start"] \in Late => Fresh
  /\ (frontend # "preview" /\ pc["start"] = "running" /\ \A p \in Stops : pc[p] \notin Late)
       => tasks = Cameras
  /\ \A p \in Procs : pc[p] = "gather" => awaited[p] = Cameras \/ Fresh
  /\ frontend = "preview" => \A c \in Cameras \ {Previewed} : thread[c] = "none"

\* the streams are as they were made until something has begun, and closed, with
\* the sessions ended, once the cleanup is past its gather()
Streams ==
  /\ (pc["start"] = "starting" \/ (pc["start"] = "idle" /\ ~stopped))
       => \A c \in Cameras : stream[c] = "open"
  /\ \A p \in Procs : pc[p] \in Late \ {"gather"} =>
       \A c \in Cameras : stream[c] = "closed" /\ thread[c] \in {"none", "ended"}
  /\ StreamsOutliveSessions

\* the listener and the publications of run_serve and the manager
Listener ==
  frontend # "preview" =>
    /\ listener = "starting" => pc["start"] = "starting"
    /\ (pc["start"] = "running" /\ \A p \in Stops : pc[p] = "idle")
         => listener = "listening" /\ published = Cameras
    /\ \A p \in Procs :
         /\ pc[p] = "done" => listener = "none" /\ published = {}
         /\ pc[p] = "failed" => frontend = "serve" \/ listener = "none"
         /\ pc[p] = "wait_closed" => listener \in {"closing", "none"}
         /\ pc[p] = "wait_closed" /\ frontend = "serve" => published = {}
         /\ pc[p] = "unpublish" /\ frontend = "manager" => listener = "none"

\* those of a preview, which its thread has
Preview ==
  frontend = "preview" =>
    /\ rtsp_thread = "none" <=> pc["start"] = "idle"
    /\ rtsp_thread \in {"none", "binding", "ended"} => published = {}
    /\ rtsp_thread = "ended" => listener = "none"
    /\ rtsp_thread = "serving" => listener = "listening" /\ published = {Previewed}
    /\ pc["start"] = "running" => rtsp_thread = "serving"

IInv == TypeOK /\ Places /\ Known /\ Streams /\ Listener /\ Preview
----------------------------------------------------------------------------
\* There is a camera to preview.
LEMMA PreviewedIs == Previewed \in Cameras
BY ServiceAssumption DEF Previewed

States == {"none", "queued", "signaling", "media", "closing", "returned", "raised", "ended"}

\* What the steps of the sessions have in common.
Moves(c, t) ==
  /\ t \in States \ {"none", "queued"} /\ thread[c] \notin {"none", "ended"}
  /\ thread' = [thread EXCEPT ![c] = t]
  /\ UNCHANGED <<pc, awaited, stop_sessions, service, spoiled>>
  /\ failed' \subseteq failed \cup {c}
  /\ \/ stream' = stream /\ (t \in {"signaling", "media"} => thread[c] \in {"queued", "signaling"})
     \/ stream' = [stream EXCEPT ![c] = "closed"] /\ t = "closing"
  /\ t \in {"signaling", "media", "closing"} =>
       (t = "signaling" /\ WorkerFree) \/ thread[c] \in {"signaling", "media", "closing"}

SessionMoves(c) ==
  \/ SessionBegins(c) \/ SessionReceives(c) \/ SessionFails(c) \/ LoopEnds(c)
  \/ SessionEnds(c) \/ TaskEnds(c)

LEMMA StageIs ==
  ASSUME TypeOK, NEW c \in Cameras
  PROVE  /\ Stage(c) = "signaling" => thread[c] = "signaling"
         /\ Stage(c) = "media" => thread[c] = "media"
         /\ Stage(c) = "closing" => thread[c] = "closing"
<1>1. thread[c] \in States
  BY DEF TypeOK, States
<1> QED BY <1>1 DEF Stage, States

LEMMA SessionSteps ==
  ASSUME TypeOK, NEW c \in Cameras, SessionMoves(c)
  PROVE  \E t \in States : Moves(c, t)
<1> USE DEF Comes, States
<1>1. CASE SessionBegins(c)
  BY <1>1 DEF SessionBegins, Moves
<1>2. CASE SessionReceives(c)
  <2>1. thread[c] = "signaling"
    BY <1>2, StageIs DEF SessionReceives, Session!Attach
  <2> QED BY <1>2, <2>1 DEF SessionReceives, Moves
<1>3. CASE SessionFails(c)
  <2>1. PICK t \in {"closing", "raised"} : Comes(c, t) /\ Session(c)!GiveUp
    BY <1>3 DEF SessionFails
  <2>2. thread[c] = "signaling"
    BY <2>1, StageIs DEF Session!GiveUp
  <2> QED BY <1>3, <2>1, <2>2 DEF SessionFails, Moves
<1>4. CASE LoopEnds(c)
  <2>1. thread[c] = "media"
    BY <1>4, StageIs DEF LoopEnds, Session!Leave
  <2> QED BY <1>4, <2>1 DEF LoopEnds, Moves
<1>5. CASE SessionEnds(c)
  <2>1. PICK t \in {"returned", "raised"} : Comes(c, t) /\ Session(c)!End
    BY <1>5 DEF SessionEnds
  <2>2. thread[c] = "closing"
    BY <2>1, StageIs DEF Session!End
  <2> QED BY <1>5, <2>1, <2>2 DEF SessionEnds, Moves
<1>6. CASE TaskEnds(c)
  BY <1>6 DEF TaskEnds, Moves, FailureStops
<1> QED BY <1>1, <1>2, <1>3, <1>4, <1>5, <1>6 DEF SessionMoves

LEMMA Cases ==
  ASSUME [Next]_vars
  PROVE  \/ CallStart \/ Started \/ StartFails \/ Shutdown
         \/ \E p \in Stops : CallStop(p)
         \/ \E p \in Procs : AfterGather(p) \/ WaitClosed(p) \/ Unpublish(p)
                            \/ UnpublishFails(p)
         \/ \E c \in Cameras : SessionMoves(c) \/ ConsumerFails(c)
         \/ ThreadBinds \/ PreviewStarts \/ PreviewOver \/ PublisherStopped
         \/ LoopStop \/ ThreadEnds \/ Join \/ UNCHANGED vars
BY DEF Next, SessionMoves

\* Who may be where.
LEMMA PlacesStep ==
  ASSUME TypeOK, Places, ~StopAnyTime, [Next]_vars
  PROVE  Places'
<1> USE ServiceAssumption DEF Places, Late, TypeOK, Procs, service, sessions
<1>1. CASE CallStart
  <2>1. CASE stopped
    BY <1>1, <2>1 DEF CallStart
  <2>2. CASE ~stopped
    <3>1. /\ pc["start"] = "idle" /\ pc' = [pc EXCEPT !["start"] = "starting"]
          /\ rtsp_thread' = (IF frontend = "preview" THEN "binding" ELSE rtsp_thread)
          /\ UNCHANGED <<frontend, awaited, stopped, tasks, stop_sessions, published, sessions>>
      BY <1>1, <2>2 DEF CallStart
    <3>2. \A p \in Procs : pc[p] \notin Late
      BY <2>2, <3>1
    <3> QED BY <2>2, <3>1, <3>2
  <2> QED BY <2>1, <2>2
<1>2. CASE Started
  BY <1>2 DEF Started
<1>3. CASE StartFails
  BY <1>3 DEF StartFails, Cleanup, SetStop
<1>4. CASE Shutdown
  BY <1>4 DEF Shutdown, Cleanup, SetStop
<1>5. ASSUME NEW p \in Stops, CallStop(p) PROVE Places'
  BY <1>5 DEF CallStop, Cleanup, SetStop, MayStop
<1>6. ASSUME NEW p \in Procs, AfterGather(p) PROVE Places'
  BY <1>6 DEF AfterGather, Gathered, CloseStreams, CloseListener
<1>7. ASSUME NEW p \in Procs, WaitClosed(p) PROVE Places'
  BY <1>7 DEF WaitClosed
<1>8. ASSUME NEW p \in Procs, Unpublish(p) PROVE Places'
  BY <1>8 DEF Unpublish, CloseListener
<1>9. ASSUME NEW c \in Cameras, SessionMoves(c) PROVE Places'
  <2>1. PICK t \in States : Moves(c, t)
    BY <1>9, SessionSteps
  <2> QED BY <2>1 DEF Moves, States
<1>10. CASE ThreadBinds
  BY <1>10 DEF ThreadBinds
<1>11. CASE PreviewStarts
  BY <1>11 DEF PreviewStarts
<1>12. CASE PreviewOver
  BY <1>12 DEF PreviewOver, CloseStreams
<1>13. CASE PublisherStopped
  BY <1>13 DEF PublisherStopped
<1>14. CASE LoopStop
  BY <1>14 DEF LoopStop
<1>15. CASE ThreadEnds
  BY <1>15 DEF ThreadEnds
<1>16. CASE Join
  BY <1>16 DEF Join
<1>17. CASE UNCHANGED vars
  BY <1>17 DEF vars
<1>18. ASSUME NEW p \in Procs, UnpublishFails(p) PROVE Places'
  BY <1>18 DEF UnpublishFails
<1>19. ASSUME NEW c \in Cameras, ConsumerFails(c) PROVE Places'
  BY <1>19 DEF ConsumerFails
<1> QED
  BY <1>1, <1>2, <1>3, <1>4, <1>5, <1>6, <1>7, <1>8, <1>9, <1>10, <1>11,
     <1>12, <1>13, <1>14, <1>15, <1>16, <1>17, <1>18, <1>19, Cases

\* No more sessions than the executor has threads.
LEMMA BusyStep ==
  ASSUME TypeOK, [Next]_vars
  PROVE  Cardinality(Busy') <= Workers
<1>1. /\ IsFiniteSet(Busy) /\ Cardinality(Busy) \in Nat /\ Cardinality(Busy) <= Workers
      /\ Workers \in Nat
  BY ServiceAssumption, FS_Subset, FS_CardinalityType DEF Busy, TypeOK
<1>2. CASE Busy' \subseteq Busy
  <2>1. Cardinality(Busy') <= Cardinality(Busy) /\ Cardinality(Busy') \in Nat
    BY <1>1, <1>2, FS_Subset, FS_CardinalityType
  <2> QED BY <1>1, <2>1
<1>3. ASSUME NEW c \in Cameras, WorkerFree, Busy' \subseteq Busy \cup {c}
      PROVE  Cardinality(Busy') <= Workers
  <2>1. IsFiniteSet(Busy \cup {c}) /\ Cardinality(Busy \cup {c}) <= Cardinality(Busy) + 1
    BY <1>1, FS_AddElement
  <2>2. /\ Cardinality(Busy') <= Cardinality(Busy \cup {c}) /\ Cardinality(Busy') \in Nat
        /\ Cardinality(Busy \cup {c}) \in Nat
    BY <1>3, <2>1, FS_Subset, FS_CardinalityType
  <2>3. Cardinality(Busy) < Workers
    BY <1>3 DEF WorkerFree
  <2> QED BY <1>1, <2>1, <2>2, <2>3
<1>4. CASE thread' = thread
  <2>1. Busy' = Busy
    BY <1>4 DEF Busy
  <2> QED BY <1>2, <2>1
<1>5. CASE Started
  <2>1. Busy' \subseteq Busy
    BY <1>5 DEF Busy, Started
  <2> QED BY <1>2, <2>1
<1>6. CASE PreviewStarts
  <2>1. Busy' \subseteq Busy
    BY <1>6, PreviewedIs DEF Busy, PreviewStarts, TypeOK
  <2> QED BY <1>2, <2>1
<1>7. ASSUME NEW c \in Cameras, SessionMoves(c)
      PROVE  Cardinality(Busy') <= Workers
  <2>1. PICK t \in States : Moves(c, t)
    BY <1>7, SessionSteps
  <2>2. /\ Busy' \subseteq Busy \cup {c}
        /\ (t \notin {"signaling", "media", "closing"} => Busy' \subseteq Busy)
    BY <2>1 DEF Busy, Moves, TypeOK
  <2>3. CASE t = "signaling" /\ WorkerFree
    BY <1>3, <2>2, <2>3
  <2>4. CASE thread[c] \in {"signaling", "media", "closing"}
    <3>1. Busy' \subseteq Busy
      BY <2>2, <2>4 DEF Busy
    <3> QED BY <1>2, <3>1
  <2>5. CASE t \notin {"signaling", "media", "closing"}
    BY <1>2, <2>2, <2>5
  <2> QED BY <2>1, <2>3, <2>4, <2>5 DEF Moves
<1> QED
  BY <1>4, <1>5, <1>6, <1>7, Cases
     DEF CallStart, StartFails, Shutdown, CallStop, AfterGather, WaitClosed, Unpublish, ThreadBinds,
         PreviewOver, PublisherStopped, LoopStop, ThreadEnds, Join, UnpublishFails, ConsumerFails,
         vars, service, sessions

\* TypeOK but for the number of sessions
Fields ==
  /\ pc \in [Procs -> {"idle", "starting", "running", "raised", "nothing", "gather",
                       "wait_closed", "unpublish", "stop_wait", "join", "done", "failed"}]
  /\ frontend \in {"serve", "manager", "preview"}
  /\ rtsp_thread \in {"none", "binding", "serving", "closing", "idle", "leaving", "ended"}
  /\ {stopped, stop_sessions} \subseteq BOOLEAN
  /\ awaited \in [Procs -> SUBSET Cameras] /\ tasks \subseteq Cameras
  /\ listener \in {"none", "starting", "listening", "closing"}
  /\ {published, failed, spoiled} \subseteq SUBSET Cameras
  /\ thread \in [Cameras -> States]
  /\ stream \in [Cameras -> {"open", "closed"}]

\* The fields keep their types.
LEMMA FieldsStep ==
  ASSUME TypeOK, [Next]_vars
  PROVE  Fields'
<1> USE PreviewedIs, ServiceAssumption DEF Fields, States, TypeOK, Procs, service, sessions
<1>1. CASE CallStart
  BY <1>1 DEF CallStart
<1>2. CASE Started
  BY <1>2 DEF Started
<1>3. CASE StartFails
  BY <1>3 DEF StartFails, Cleanup, SetStop
<1>4. CASE Shutdown
  BY <1>4 DEF Shutdown, Cleanup, SetStop
<1>5. ASSUME NEW p \in Stops, CallStop(p) PROVE Fields'
  <2>1. CASE stopped
    BY <1>5, <2>1 DEF CallStop
  <2>2. CASE ~stopped
    <3>1. /\ pc' = [pc EXCEPT ![p] = "gather"] /\ awaited' = [awaited EXCEPT ![p] = tasks]
          /\ stop_sessions' = TRUE /\ stopped' = TRUE
          /\ UNCHANGED <<frontend, tasks, listener, rtsp_thread, published, sessions>>
      BY <1>5, <2>2 DEF CallStop, Cleanup, SetStop
    <3> QED BY <3>1
  <2> QED BY <2>1, <2>2
<1>6. ASSUME NEW p \in Procs, AfterGather(p) PROVE Fields'
  BY <1>6 DEF AfterGather, Gathered, CloseStreams, CloseListener
<1>7. ASSUME NEW p \in Procs, WaitClosed(p) PROVE Fields'
  BY <1>7 DEF WaitClosed
<1>8. ASSUME NEW p \in Procs, Unpublish(p) PROVE Fields'
  BY <1>8 DEF Unpublish, CloseListener
<1>9. ASSUME NEW c \in Cameras, SessionMoves(c) PROVE Fields'
  <2>1. PICK t \in States : Moves(c, t)
    BY <1>9, SessionSteps
  <2> QED BY <2>1 DEF Moves, States
<1>10. CASE ThreadBinds
  BY <1>10 DEF ThreadBinds
<1>11. CASE PreviewStarts
  BY <1>11 DEF PreviewStarts
<1>12. CASE PreviewOver
  BY <1>12 DEF PreviewOver, CloseStreams
<1>13. CASE PublisherStopped
  BY <1>13 DEF PublisherStopped
<1>14. CASE LoopStop
  BY <1>14 DEF LoopStop
<1>15. CASE ThreadEnds
  BY <1>15 DEF ThreadEnds
<1>16. CASE Join
  BY <1>16 DEF Join
<1>17. CASE UNCHANGED vars
  BY <1>17 DEF vars
<1>18. ASSUME NEW p \in Procs, UnpublishFails(p) PROVE Fields'
  BY <1>18 DEF UnpublishFails
<1>19. ASSUME NEW c \in Cameras, ConsumerFails(c) PROVE Fields'
  BY <1>19 DEF ConsumerFails
<1> QED
  BY <1>1, <1>2, <1>3, <1>4, <1>5, <1>6, <1>7, <1>8, <1>9, <1>10, <1>11,
     <1>12, <1>13, <1>14, <1>15, <1>16, <1>17, <1>18, <1>19, Cases

\* Which sessions a gather() waits for.
LEMMA KnownStep ==
  ASSUME TypeOK, Places, Known, ~StopAnyTime, [Next]_vars
  PROVE  Known'
<1> USE ServiceAssumption, PreviewedIs
    DEF Known, Fresh, Places, Late, TypeOK, Procs, service, sessions
<1>1. CASE CallStart
  BY <1>1 DEF CallStart
<1>2. CASE Started
  BY <1>2 DEF Started
<1>3. CASE StartFails
  BY <1>3 DEF StartFails, Cleanup, SetStop
<1>4. CASE Shutdown
  BY <1>4 DEF Shutdown, Cleanup, SetStop
<1>5. ASSUME NEW p \in Stops, CallStop(p) PROVE Known'
  <2>1. CASE stopped
    BY <1>5, <2>1 DEF CallStop
  <2>2. CASE ~stopped
    <3>1. /\ pc' = [pc EXCEPT ![p] = "gather"] /\ awaited' = [awaited EXCEPT ![p] = tasks]
          /\ frontend = "manager"
          /\ UNCHANGED <<frontend, tasks, listener, rtsp_thread, published, sessions>>
      BY <1>5, <2>2 DEF CallStop, Cleanup
    <3>2. tasks = Cameras \/ Fresh
      <4>1. \A q \in Stops : pc[q] \notin Late
        BY <2>2
      <4>2. CASE pc["start"] = "running"
        BY <3>1, <4>1, <4>2
      <4>3. CASE pc["start"] # "running"
        BY <3>1, <4>3
      <4> QED BY <4>2, <4>3
    <3>3. p # "start" /\ pc'["start"] = pc["start"] /\ pc'[p] = "gather"
      BY <3>1
    <3>4. \A q \in Procs : pc'[q] = "gather" => awaited'[q] = Cameras \/ Fresh
      BY <3>1, <3>2
    <3> QED BY <3>1, <3>3, <3>4
  <2> QED BY <2>1, <2>2
<1>6. ASSUME NEW p \in Procs, AfterGather(p) PROVE Known'
  BY <1>6 DEF AfterGather, Gathered, CloseStreams, CloseListener
<1>7. ASSUME NEW p \in Procs, WaitClosed(p) PROVE Known'
  BY <1>7 DEF WaitClosed
<1>8. ASSUME NEW p \in Procs, Unpublish(p) PROVE Known'
  BY <1>8 DEF Unpublish, CloseListener
<1>9. ASSUME NEW c \in Cameras, SessionMoves(c) PROVE Known'
  <2>1. PICK t \in States : Moves(c, t)
    BY <1>9, SessionSteps
  <2> QED BY <2>1 DEF Moves, States
<1>10. CASE ThreadBinds
  BY <1>10 DEF ThreadBinds
<1>11. CASE PreviewStarts
  BY <1>11 DEF PreviewStarts
<1>12. CASE PreviewOver
  BY <1>12 DEF PreviewOver, CloseStreams
<1>13. CASE PublisherStopped
  BY <1>13 DEF PublisherStopped
<1>14. CASE LoopStop
  BY <1>14 DEF LoopStop
<1>15. CASE ThreadEnds
  BY <1>15 DEF ThreadEnds
<1>16. CASE Join
  BY <1>16 DEF Join
<1>17. CASE UNCHANGED vars
  BY <1>17 DEF vars
<1>18. ASSUME NEW p \in Procs, UnpublishFails(p) PROVE Known'
  BY <1>18 DEF UnpublishFails
<1>19. ASSUME NEW c \in Cameras, ConsumerFails(c) PROVE Known'
  BY <1>19 DEF ConsumerFails
<1> QED
  BY <1>1, <1>2, <1>3, <1>4, <1>5, <1>6, <1>7, <1>8, <1>9, <1>10, <1>11,
     <1>12, <1>13, <1>14, <1>15, <1>16, <1>17, <1>18, <1>19, Cases

\* When the streams are closed.
LEMMA StreamsStep ==
  ASSUME TypeOK, Places, Known, Streams, ~StopAnyTime, [Next]_vars
  PROVE  Streams'
<1> USE ServiceAssumption, PreviewedIs
    DEF Streams, StreamsOutliveSessions, Known, Fresh, Places, Late,
        TypeOK, Procs, service, sessions
<1>1. CASE CallStart
  BY <1>1 DEF CallStart
<1>2. CASE Started
  BY <1>2 DEF Started
<1>3. CASE StartFails
  BY <1>3 DEF StartFails, Cleanup, SetStop
<1>4. CASE Shutdown
  BY <1>4 DEF Shutdown, Cleanup, SetStop
<1>5. ASSUME NEW p \in Stops, CallStop(p) PROVE Streams'
  BY <1>5 DEF CallStop, Cleanup, SetStop, MayStop
<1>6. ASSUME NEW p \in Procs, AfterGather(p) PROVE Streams'
  BY <1>6 DEF AfterGather, Gathered, CloseStreams, CloseListener
<1>7. ASSUME NEW p \in Procs, WaitClosed(p) PROVE Streams'
  BY <1>7 DEF WaitClosed
<1>8. ASSUME NEW p \in Procs, Unpublish(p) PROVE Streams'
  BY <1>8 DEF Unpublish, CloseListener
<1>9. ASSUME NEW c \in Cameras, SessionMoves(c) PROVE Streams'
  <2>1. PICK t \in States : Moves(c, t)
    BY <1>9, SessionSteps
  <2> QED BY <2>1 DEF Moves, States
<1>10. CASE ThreadBinds
  BY <1>10 DEF ThreadBinds
<1>11. CASE PreviewStarts
  BY <1>11 DEF PreviewStarts
<1>12. CASE PreviewOver
  BY <1>12 DEF PreviewOver, CloseStreams
<1>13. CASE PublisherStopped
  BY <1>13 DEF PublisherStopped
<1>14. CASE LoopStop
  BY <1>14 DEF LoopStop
<1>15. CASE ThreadEnds
  BY <1>15 DEF ThreadEnds
<1>16. CASE Join
  BY <1>16 DEF Join
<1>17. CASE UNCHANGED vars
  BY <1>17 DEF vars
<1>18. ASSUME NEW p \in Procs, UnpublishFails(p) PROVE Streams'
  BY <1>18 DEF UnpublishFails
<1>19. ASSUME NEW c \in Cameras, ConsumerFails(c) PROVE Streams'
  BY <1>19 DEF ConsumerFails
<1> QED
  BY <1>1, <1>2, <1>3, <1>4, <1>5, <1>6, <1>7, <1>8, <1>9, <1>10, <1>11,
     <1>12, <1>13, <1>14, <1>15, <1>16, <1>17, <1>18, <1>19, Cases

\* The listener and the publications of run_serve and the manager.
LEMMA ListenerStep ==
  ASSUME TypeOK, Places, Listener, ~StopAnyTime, [Next]_vars
  PROVE  Listener'
<1> USE ServiceAssumption DEF Listener, Places, Late, TypeOK, Procs, service, sessions
<1>1. CASE CallStart
  BY <1>1 DEF CallStart
<1>2. CASE Started
  BY <1>2 DEF Started
<1>3. CASE StartFails
  BY <1>3 DEF StartFails, Cleanup, SetStop
<1>4. CASE Shutdown
  BY <1>4 DEF Shutdown, Cleanup, SetStop
<1>5. ASSUME NEW p \in Stops, CallStop(p) PROVE Listener'
  BY <1>5 DEF CallStop, Cleanup, SetStop, MayStop
<1>6. ASSUME NEW p \in Procs, AfterGather(p) PROVE Listener'
  BY <1>6 DEF AfterGather, Gathered, CloseStreams, CloseListener
<1>7. ASSUME NEW p \in Procs, WaitClosed(p) PROVE Listener'
  BY <1>7 DEF WaitClosed
<1>8. ASSUME NEW p \in Procs, Unpublish(p) PROVE Listener'
  BY <1>8 DEF Unpublish, CloseListener
<1>9. ASSUME NEW c \in Cameras, SessionMoves(c) PROVE Listener'
  <2>1. PICK t \in States : Moves(c, t)
    BY <1>9, SessionSteps
  <2> QED BY <2>1 DEF Moves, States
<1>10. CASE ThreadBinds
  BY <1>10 DEF ThreadBinds
<1>11. CASE PreviewStarts
  BY <1>11 DEF PreviewStarts
<1>12. CASE PreviewOver
  BY <1>12 DEF PreviewOver, CloseStreams
<1>13. CASE PublisherStopped
  BY <1>13 DEF PublisherStopped
<1>14. CASE LoopStop
  BY <1>14 DEF LoopStop
<1>15. CASE ThreadEnds
  BY <1>15 DEF ThreadEnds
<1>16. CASE Join
  BY <1>16 DEF Join
<1>17. CASE UNCHANGED vars
  BY <1>17 DEF vars
<1>18. ASSUME NEW p \in Procs, UnpublishFails(p) PROVE Listener'
  BY <1>18 DEF UnpublishFails
<1>19. ASSUME NEW c \in Cameras, ConsumerFails(c) PROVE Listener'
  BY <1>19 DEF ConsumerFails
<1> QED
  BY <1>1, <1>2, <1>3, <1>4, <1>5, <1>6, <1>7, <1>8, <1>9, <1>10, <1>11,
     <1>12, <1>13, <1>14, <1>15, <1>16, <1>17, <1>18, <1>19, Cases

\* Those of a preview.
LEMMA PreviewStep ==
  ASSUME TypeOK, Places, Preview, [Next]_vars
  PROVE  Preview'
<1> USE ServiceAssumption DEF Preview, Places, TypeOK, Procs, service, sessions
<1>1. CASE CallStart
  BY <1>1 DEF CallStart
<1>2. CASE Started
  BY <1>2 DEF Started
<1>3. CASE StartFails
  BY <1>3 DEF StartFails, Cleanup, SetStop
<1>4. CASE Shutdown
  BY <1>4 DEF Shutdown, Cleanup, SetStop
<1>5. ASSUME NEW p \in Stops, CallStop(p) PROVE Preview'
  BY <1>5 DEF CallStop, Cleanup, SetStop, MayStop
<1>6. ASSUME NEW p \in Procs, AfterGather(p) PROVE Preview'
  BY <1>6 DEF AfterGather, Gathered, CloseStreams, CloseListener
<1>7. ASSUME NEW p \in Procs, WaitClosed(p) PROVE Preview'
  BY <1>7 DEF WaitClosed
<1>8. ASSUME NEW p \in Procs, Unpublish(p) PROVE Preview'
  BY <1>8 DEF Unpublish, CloseListener
<1>9. ASSUME NEW c \in Cameras, SessionMoves(c) PROVE Preview'
  <2>1. PICK t \in States : Moves(c, t)
    BY <1>9, SessionSteps
  <2> QED BY <2>1 DEF Moves, States
<1>10. CASE ThreadBinds
  BY <1>10 DEF ThreadBinds
<1>11. CASE PreviewStarts
  BY <1>11 DEF PreviewStarts
<1>12. CASE PreviewOver
  BY <1>12 DEF PreviewOver, CloseStreams
<1>13. CASE PublisherStopped
  BY <1>13 DEF PublisherStopped
<1>14. CASE LoopStop
  BY <1>14 DEF LoopStop
<1>15. CASE ThreadEnds
  BY <1>15 DEF ThreadEnds
<1>16. CASE Join
  BY <1>16 DEF Join
<1>17. CASE UNCHANGED vars
  BY <1>17 DEF vars
<1>18. ASSUME NEW p \in Procs, UnpublishFails(p) PROVE Preview'
  BY <1>18 DEF UnpublishFails
<1>19. ASSUME NEW c \in Cameras, ConsumerFails(c) PROVE Preview'
  BY <1>19 DEF ConsumerFails
<1> QED
  BY <1>1, <1>2, <1>3, <1>4, <1>5, <1>6, <1>7, <1>8, <1>9, <1>10, <1>11,
     <1>12, <1>13, <1>14, <1>15, <1>16, <1>17, <1>18, <1>19, Cases

LEMMA TypesStep ==
  ASSUME TypeOK, [Next]_vars
  PROVE  TypeOK'
BY FieldsStep, BusyStep DEF Fields, States, TypeOK

LEMMA TypesInit == Init => TypeOK
<1> SUFFICES ASSUME Init PROVE TypeOK
  OBVIOUS
<1>1. Busy = {}
  BY DEF Init, Busy
<1>2. Cardinality(Busy) = 0
  BY <1>1, FS_EmptySet
<1>3. Cardinality(Busy) <= Workers
  BY <1>2, ServiceAssumption
<1> QED BY <1>3 DEF Init, TypeOK

----------------------------------------------------------------------------
\* The fields have their types, and no more sessions run than the executor has
\* threads, even if async_stop comes while async_start awaits.
THEOREM ServiceTyped == Spec => []TypeOK
<1>1. TypeOK /\ [Next]_vars => TypeOK'
  BY TypesStep
<1> QED BY TypesInit, <1>1, PTL DEF Spec

\* The inductive invariant of CameraService.
THEOREM ServiceInvariant ==
  ASSUME ~StopAnyTime
  PROVE  Spec => []IInv
<1>1. Init => IInv
  <2> SUFFICES ASSUME Init PROVE IInv
    OBVIOUS
  <2>1. Places
    BY ServiceAssumption DEF Init, Places, Late, Procs
  <2>2. Known
    BY ServiceAssumption DEF Init, Known, Late, Procs, Fresh
  <2>3. Streams
    BY ServiceAssumption DEF Init, Streams, StreamsOutliveSessions, Late, Procs
  <2>4. Listener /\ Preview
    BY ServiceAssumption DEF Init, Listener, Preview, Procs
  <2> QED BY <2>1, <2>2, <2>3, <2>4, TypesInit DEF IInv
<1>2. IInv /\ [Next]_vars => IInv'
  BY TypesStep, PlacesStep, KnownStep, StreamsStep, ListenerStep, PreviewStep DEF IInv
<1> QED BY <1>1, <1>2, PTL DEF Spec

\* Nobody's stream is closed while its session may still produce, whoever stops
\* what and when.
THEOREM StreamsOutlive ==
  ASSUME ~StopAnyTime
  PROVE  Spec => []StreamsOutliveSessions
<1>1. IInv => StreamsOutliveSessions
  BY DEF IInv, Streams
<1> QED BY <1>1, ServiceInvariant, PTL

\* When a cleanup is through, and a preview's thread over, nothing is left of the
\* streams and the sessions, nor, unless unpublish() broke it off, of the listener
\* and the publications.
THEOREM CleanupReleases ==
  ASSUME ~StopAnyTime
  PROVE  Spec => []AllReleased
<1>1. IInv => AllReleased
  <2> SUFFICES ASSUME IInv, NEW p \in Procs, pc[p] \in {"done", "failed"},
                      rtsp_thread \in {"none", "ended"}
               PROVE  /\ \A c \in Served : stream[c] = "closed" /\ thread[c] \in {"none", "ended"}
                      /\ pc[p] = "done" => listener = "none" /\ published = {}
                      /\ pc[p] = "failed" => frontend = "serve" \/ listener = "none"
    BY DEF AllReleased
  <2>1. Served \subseteq Cameras
    BY PreviewedIs DEF Served
  <2>2. \A c \in Cameras : stream[c] = "closed" /\ thread[c] \in {"none", "ended"}
    BY DEF IInv, Streams, Late
  <2>3. CASE frontend # "preview"
    BY <2>1, <2>2, <2>3 DEF IInv, Listener
  <2>4. CASE frontend = "preview"
    <3>1. pc["start"] # "idle" /\ p = "start"
      BY <2>4 DEF IInv, Places, Procs
    <3> QED BY <2>1, <2>2, <2>4, <3>1 DEF IInv, Preview
  <2> QED BY <2>3, <2>4
<1> QED BY <1>1, ServiceInvariant, PTL

\* Until somebody stops it a service that has started listens and publishes every
\* camera, whichever sessions fail, and tells none of them to stop.
THEOREM FailuresStayLocal ==
  ASSUME ~StopAnyTime
  PROVE  Spec => []Serving
<1>1. IInv => Serving
  <2> SUFFICES ASSUME IInv, pc["start"] = "running", \A p \in Stops : pc[p] = "idle"
               PROVE  /\ listener = "listening" /\ published = Served /\ ~stop_sessions
                      /\ \A c \in Served : thread[c] \in {"queued", "signaling", "media"}
                           => stream[c] = "open"
    BY DEF Serving
  <2>1. Served \subseteq Cameras
    BY PreviewedIs DEF Served
  <2>2. ~stop_sessions
    BY DEF IInv, Places, Late, Procs
  <2>3. \A c \in Cameras : thread[c] \in {"queued", "signaling", "media"} => stream[c] = "open"
    BY DEF IInv, Streams, StreamsOutliveSessions, TypeOK
  <2>4. listener = "listening" /\ published = Served
    BY DEF IInv, Listener, Preview, Served
  <2> QED BY <2>1, <2>2, <2>3, <2>4
<1> QED BY <1>1, ServiceInvariant, PTL
==============================================================================
