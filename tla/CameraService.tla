---------------------------- MODULE CameraService ----------------------------
(***************************************************************************)
(* Who runs camera sessions.  Three frontends: run_serve (nexxt/serve.py), *)
(* the foreground command, and NexxtLanManager (nexxt/manager.py), which   *)
(* Home Assistant's config entry drives, have one RTSP listener and a      *)
(* thread with a session for each camera; run_lan_preview with             *)
(* --rtsp-listen runs one session itself and the listener in a thread,     *)
(* RtspPublisherThread (nexxt/rtsp.py).                                    *)
(*                                                                         *)
(* pc is where each coroutine awaits: "start" is run_serve, async_start or *)
(* the main thread of a preview, the others are calls of async_stop.  A    *)
(* session takes the steps of SessionContract, which CameraSession         *)
(* implements; when its thread is back, the event loop takes notice in a   *)
(* step of its own.  A camera is in published from publish() to            *)
(* unpublish(), and spoiled once its consumer has raised (ConsumerFails of *)
(* RtspServer).  Streams are open or closed, whatever they carry.          *)
(***************************************************************************)
EXTENDS Naturals, FiniteSets

CONSTANTS
  Cameras,          \* selected profiles
  Workers,          \* threads of the loop's default executor
  Stops,            \* calls of async_stop
  StopAnyTime       \* async_stop may be called while async_start awaits

ASSUME ServiceAssumption ==
  /\ IsFiniteSet(Cameras) /\ Cameras # {} /\ Workers \in Nat \ {0}
  /\ "start" \notin Stops /\ StopAnyTime \in BOOLEAN

VARIABLES
  frontend,       \* "serve", "manager" or "preview"
  pc,             \* where each coroutine is
  awaited,        \* the tasks its gather() was given
  stopped,        \* _stopped of the manager
  tasks,          \* _tasks, or tasks of run_serve
  stop_sessions,  \* the event every session gets
  listener,       \* the RTSP server: "none", "starting", "listening", "closing"
  rtsp_thread,    \* where RtspPublisherThread's thread is
  published,      \* its publications
  spoiled,        \* those whose consumer has raised
  thread,         \* each session's thread
  stream,         \* each MediaStream: "open" or "closed"
  failed          \* ghost: cameras whose session raised (session_errors)

service  == <<frontend, stopped, tasks, listener, rtsp_thread, published>>
sessions == <<thread, stream, failed, spoiled>>
vars == <<frontend, pc, awaited, stopped, tasks, stop_sessions, listener, rtsp_thread, published,
          sessions>>

Procs == Stops \cup {"start"}
Busy  == {c \in Cameras : thread[c] \in {"signaling", "media", "closing"}}

\* a preview has one camera
Previewed == CHOOSE c \in Cameras : TRUE
Served == IF frontend = "preview" THEN {Previewed} ELSE Cameras

Init ==
  /\ frontend \in {"serve", "manager", "preview"} /\ rtsp_thread = "none"
  /\ pc = [p \in Procs |-> "idle"] /\ awaited = [p \in Procs |-> {}]
  /\ stopped = FALSE /\ tasks = {} /\ stop_sessions = FALSE
  /\ listener = "none" /\ published = {}
  /\ thread = [c \in Cameras |-> "none"] /\ stream = [c \in Cameras |-> "open"]
  /\ failed = {} /\ spoiled = {}

----------------------------------------------------------------------------
\* Starting

CallStart ==
  /\ pc["start"] = "idle"
  /\ IF stopped THEN pc' = [pc EXCEPT !["start"] = "raised"] /\ UNCHANGED listener
          /\ UNCHANGED rtsp_thread
     ELSE /\ pc' = [pc EXCEPT !["start"] = "starting"] /\ listener' = "starting"
          /\ rtsp_thread' = IF frontend = "preview" THEN "binding" ELSE rtsp_thread
  /\ UNCHANGED <<frontend, awaited, stopped, tasks, stop_sessions, published, sessions>>

\* the listener is bound; nothing awaits from here to the last create_task
Started ==
  /\ pc["start"] = "starting" /\ frontend # "preview"
  /\ listener' = "listening" /\ published' = Cameras /\ tasks' = Cameras
  /\ thread' = [c \in Cameras |-> "queued"]
  /\ pc' = [pc EXCEPT !["start"] = "running"]
  /\ UNCHANGED <<frontend, awaited, stopped, stop_sessions, rtsp_thread, stream, failed,
                 spoiled>>

StopForgotten(p) == stop_sessions

SetStop(p) == TRUE

\* the first lines of _cleanup, or of run_serve's finally block
Cleanup(p) ==
  /\ pc' = [pc EXCEPT ![p] = "gather"]
  /\ awaited' = [awaited EXCEPT ![p] = tasks]
  /\ stop_sessions' = SetStop(p)

\* the address is taken, or the coroutine is cancelled
StartFails ==
  /\ pc["start"] = "starting" /\ frontend # "preview" /\ Cleanup("start")
  /\ listener' = "none"
  /\ UNCHANGED <<frontend, stopped, tasks, rtsp_thread, published, sessions>>

----------------------------------------------------------------------------
\* Stopping

\* shutdown is set, or run_serve is cancelled
Shutdown ==
  /\ frontend = "serve" /\ pc["start"] = "running" /\ Cleanup("start")
  /\ UNCHANGED <<service, sessions>>

\* Home Assistant has the manager only once async_start returned: on unload, on
\* its stop event and when the platforms cannot be set up
MayStop == StopAnyTime \/ pc["start"] # "starting"

CallStop(p) ==
  /\ frontend = "manager" /\ pc[p] = "idle" /\ MayStop
  /\ IF stopped THEN pc' = [pc EXCEPT ![p] = "nothing"] /\ UNCHANGED <<awaited, stop_sessions>>
     ELSE Cleanup(p)
  /\ stopped' = TRUE
  /\ UNCHANGED <<frontend, tasks, listener, rtsp_thread, published, sessions>>

NotAwaited(p) == TRUE

\* gather() ends with the last of its tasks
Gathered(p) == \A c \in awaited[p] : thread[c] = "ended"

ClosesGathered(p) ==
  stream' = [c \in Cameras |-> IF c \in awaited[p] THEN "closed" ELSE stream[c]]

CloseStreams(p) == stream' = [c \in Cameras |-> "closed"]

\* server.stop() up to wait_closed(), on a server that has started
CloseListener(p) ==
  /\ listener' = IF listener = "listening" THEN "closing" ELSE listener
  /\ pc' = [pc EXCEPT ![p] = "wait_closed"]

\* the manager stops the server, which unpublishes; run_serve unpublishes first
AfterGather(p) ==
  /\ pc[p] = "gather" /\ Gathered(p) /\ CloseStreams(p)
  /\ tasks' = IF awaited[p] = {} THEN tasks ELSE {}
  /\ IF frontend = "manager" THEN CloseListener(p)
     ELSE pc' = [pc EXCEPT ![p] = "unpublish"] /\ UNCHANGED listener
  /\ UNCHANGED <<frontend, awaited, stopped, stop_sessions, rtsp_thread, published, thread,
                 failed, spoiled>>

WaitClosed(p) ==
  /\ pc[p] = "wait_closed"
  /\ listener' = IF listener = "closing" THEN "none" ELSE listener
  /\ pc' = [pc EXCEPT ![p] = IF frontend = "manager" THEN "unpublish" ELSE "done"]
  /\ UNCHANGED <<frontend, awaited, stopped, tasks, stop_sessions, rtsp_thread, published,
                 sessions>>

Unpublish(p) ==
  /\ pc[p] = "unpublish" /\ published \cap spoiled = {} /\ published' = {}
  /\ IF frontend = "manager" THEN pc' = [pc EXCEPT ![p] = "done"] /\ UNCHANGED listener
     ELSE CloseListener(p)
  /\ UNCHANGED <<frontend, awaited, stopped, tasks, stop_sessions, rtsp_thread, sessions>>

\* unpublish() raises for a spoiled one, after some of the others: the cleanup ends
\* there, that of run_serve without having stopped the server
UnpublishFails(p) ==
  /\ pc[p] = "unpublish"
  /\ \E gone \in SUBSET (published \ spoiled), c \in published \cap spoiled :
       published' = published \ (gone \cup {c})
  /\ pc' = [pc EXCEPT ![p] = "failed"]
  /\ UNCHANGED <<frontend, awaited, stopped, tasks, stop_sessions, listener, rtsp_thread,
                 sessions>>

----------------------------------------------------------------------------
\* run_lan_preview with an RtspPublisherThread

\* run(): the thread listens and publishes, or keeps the error and is over
ThreadBinds ==
  /\ rtsp_thread = "binding"
  /\ \/ rtsp_thread' = "serving" /\ listener' = "listening" /\ published' = {Previewed}
     \/ rtsp_thread' = "ended" /\ listener' = "none" /\ UNCHANGED published
  /\ UNCHANGED <<frontend, pc, awaited, stopped, tasks, stop_sessions, sessions>>

\* start(): "ready" came with or without an error, or not within five seconds
PreviewStarts ==
  /\ frontend = "preview" /\ pc["start"] = "starting"
  /\ \/ /\ rtsp_thread = "serving"
        /\ pc' = [pc EXCEPT !["start"] = "running"]
        /\ thread' = [thread EXCEPT ![Previewed] = "queued"]
     \/ /\ rtsp_thread \in {"ended", "binding"}
        /\ pc' = [pc EXCEPT !["start"] = "raised"] /\ UNCHANGED thread
  /\ UNCHANGED <<service, awaited, stop_sessions, stream, failed, spoiled>>

\* the finally block: the stream is closed; stop() hands publisher.stop() to the
\* loop, which closes the server and waits for its handlers
PreviewOver ==
  /\ frontend = "preview" /\ pc["start"] = "running" /\ thread[Previewed] = "ended"
  /\ CloseStreams("start")
  /\ pc' = [pc EXCEPT !["start"] = "stop_wait"]
  /\ rtsp_thread' = "closing" /\ listener' = "closing"
  /\ UNCHANGED <<frontend, awaited, stopped, tasks, stop_sessions, published, thread, failed,
                 spoiled>>

\* its one publication is taken out before unpublish() may raise; the exception
\* stays in the future
PublisherStopped ==
  /\ rtsp_thread = "closing"
  /\ rtsp_thread' = "idle" /\ listener' = "none" /\ published' = {}
  /\ UNCHANGED <<frontend, pc, awaited, stopped, tasks, stop_sessions, sessions>>

\* that was done, or took more than three seconds: loop.stop()
LoopStop ==
  /\ pc["start"] = "stop_wait"
  /\ pc' = [pc EXCEPT !["start"] = "join"]
  /\ rtsp_thread' = "leaving"
  /\ UNCHANGED <<frontend, awaited, stopped, tasks, stop_sessions, listener, published, sessions>>

\* run_forever() has returned: a second publisher.stop(), which finds no server
\* to wait for, and unpublishes what the first left; if that raises, the thread ends
ThreadEnds ==
  /\ rtsp_thread = "leaving"
  /\ rtsp_thread' = "ended" /\ listener' = "none" /\ published' = {}
  /\ UNCHANGED <<frontend, pc, awaited, stopped, tasks, stop_sessions, sessions>>

\* join(), for three seconds at most
Join ==
  /\ pc["start"] = "join" /\ pc' = [pc EXCEPT !["start"] = "done"]
  /\ UNCHANGED <<service, awaited, stop_sessions, sessions>>

----------------------------------------------------------------------------
\* The threads

WorkerAlways == TRUE

\* the executor keeps what it has no thread for
WorkerFree == Cardinality(Busy) < Workers

Stage(c) ==
  CASE thread[c] \in {"none", "queued"} -> "waiting"
    [] thread[c] \in {"returned", "raised", "ended"} -> "ended"
    [] OTHER -> thread[c]

Session(c) == INSTANCE SessionContract
  WITH stage <- Stage(c), attached <- thread[c] = "media", stop <- stop_sessions,
       Interruptible <- FALSE

\* the session on thread c comes to t, by a step of its contract
Comes(c, t) ==
  /\ thread' = [thread EXCEPT ![c] = t]
  /\ UNCHANGED <<pc, awaited, stop_sessions, service, failed, spoiled>>

SessionBegins(c) ==
  /\ thread[c] = "queued" /\ WorkerFree /\ Comes(c, "signaling")
  /\ Session(c)!Begin
  /\ UNCHANGED stream

SessionReceives(c) == Comes(c, "media") /\ Session(c)!Attach /\ UNCHANGED stream

\* an error, before the offer or after it: the stream stays as it is
SessionFails(c) ==
  /\ \E t \in {"closing", "raised"} : Comes(c, t) /\ Session(c)!GiveUp
  /\ UNCHANGED stream

\* the loop is left: stop_sessions, the camera or an error; MediaOutput.close()
\* closes the sinks
LoopEnds(c) ==
  /\ Comes(c, "closing") /\ Session(c)!Leave
  /\ stream' = [stream EXCEPT ![c] = "closed"]

\* the disconnect has been sent and the resources are closed
SessionEnds(c) ==
  /\ \E t \in {"returned", "raised"} : Comes(c, t) /\ Session(c)!End
  /\ UNCHANGED stream

FailureStopsAll == TRUE

\* _run_camera and camera_task keep the exception
FailureStops == stop_sessions

\* the event loop, or a preview's main thread, has the thread's result
TaskEnds(c) ==
  /\ thread[c] \in {"returned", "raised"}
  /\ thread' = [thread EXCEPT ![c] = "ended"]
  /\ IF thread[c] = "raised" THEN failed' = failed \cup {c} /\ stop_sessions' = FailureStops
     ELSE UNCHANGED <<failed, stop_sessions>>
  /\ UNCHANGED <<pc, awaited, service, stream, spoiled>>

\* A client has set up a channel no byte holds, and is sent a chunk.  (What is left
\* in the queue can do the same when the session is over, with the same outcome.)
ConsumerFails(c) ==
  /\ thread[c] = "media" /\ c \in published
  /\ spoiled' = spoiled \cup {c}
  /\ UNCHANGED <<pc, awaited, stop_sessions, service, thread, stream, failed>>

----------------------------------------------------------------------------
Next ==
  \/ CallStart \/ Started \/ StartFails \/ Shutdown
  \/ \E p \in Stops : CallStop(p)
  \/ \E p \in Procs : AfterGather(p) \/ WaitClosed(p) \/ Unpublish(p) \/ UnpublishFails(p)
  \/ \E c \in Cameras :
       \/ SessionBegins(c) \/ SessionReceives(c) \/ SessionFails(c) \/ LoopEnds(c)
       \/ SessionEnds(c) \/ TaskEnds(c) \/ ConsumerFails(c)
  \/ ThreadBinds \/ PreviewStarts \/ PreviewOver \/ PublisherStopped
  \/ LoopStop \/ ThreadEnds \/ Join

Spec == Init /\ [][Next]_vars

(***************************************************************************)
(* Fairness: the event loop resumes what can go on, the executor runs what *)
(* it has threads for, a wait with a timeout ends, and of the sessions what *)
(* their contract promises.  Nothing makes a loop end before stop_sessions *)
(* is set, and wait_closed() may wait for ever on a preview.               *)
(***************************************************************************)
FairSpec ==
  /\ Spec
  /\ WF_vars(Started \/ StartFails)
  /\ \A p \in Procs : /\ WF_vars(AfterGather(p)) /\ WF_vars(WaitClosed(p))
                        /\ WF_vars(Unpublish(p) \/ UnpublishFails(p))
  /\ \A c \in Cameras :
       /\ WF_vars(SessionBegins(c)) /\ WF_vars(SessionReceives(c) \/ SessionFails(c))
       /\ WF_vars(stop_sessions /\ LoopEnds(c)) /\ WF_vars(SessionEnds(c)) /\ WF_vars(TaskEnds(c))
  /\ WF_vars(PreviewStarts) /\ WF_vars(PreviewOver)
  /\ WF_vars(LoopStop) /\ WF_vars(ThreadEnds) /\ WF_vars(Join)

----------------------------------------------------------------------------
\* Properties

Cleaning(p) == pc[p] \in {"gather", "wait_closed", "unpublish", "stop_wait", "join"}

\* Types of the fields; sessions never have more threads than the executor.
TypeOK ==
  /\ pc \in [Procs -> {"idle", "starting", "running", "raised", "nothing", "gather",
                       "wait_closed", "unpublish", "stop_wait", "join", "done", "failed"}]
  /\ frontend \in {"serve", "manager", "preview"}
  /\ rtsp_thread \in {"none", "binding", "serving", "closing", "idle", "leaving", "ended"}
  /\ {stopped, stop_sessions} \subseteq BOOLEAN
  /\ awaited \in [Procs -> SUBSET Cameras] /\ tasks \subseteq Cameras
  /\ listener \in {"none", "starting", "listening", "closing"}
  /\ {published, failed, spoiled} \subseteq SUBSET Cameras
  /\ thread \in [Cameras -> {"none", "queued", "signaling", "media", "closing", "returned",
                          "raised", "ended"}]
  /\ stream \in [Cameras -> {"open", "closed"}]
  /\ Cardinality(Busy) <= Workers

\* NexxtLanManager: "an exception ends only that camera's worker while the
\* shared listener and sibling sessions remain alive": until somebody stops it,
\* a service that has started listens, publishes every camera, and no session
\* but those that end by themselves is told to.
Serving ==
  pc["start"] = "running" /\ (\A p \in Stops : pc[p] = "idle")
    => /\ listener = "listening" /\ published = Served /\ ~stop_sessions
       /\ \A c \in Served : thread[c] \in {"queued", "signaling", "media"} => stream[c] = "open"

\* Nobody's stream is closed while its session still produces.
StreamsOutliveSessions ==
  \A c \in Cameras : stream[c] = "closed" => thread[c] \notin {"queued", "signaling", "media"}

\* Whoever's cleanup is through, everything is released: no listener, no
\* publication, no open stream, no thread; a preview gives up waiting for its
\* publisher after three seconds, and still nothing is left by its thread.  A cleanup
\* that unpublish() broke off leaves publications, and run_serve's the listener, but
\* no stream and no session.
AllReleased ==
  (\A p \in Procs : ~Cleaning(p)) /\ rtsp_thread \in {"none", "ended"} =>
    \A p \in Procs :
      /\ pc[p] \in {"done", "failed"} =>
           \A c \in Served : stream[c] = "closed" /\ thread[c] \in {"none", "ended"}
      /\ pc[p] = "done" => listener = "none" /\ published = {}
      /\ pc[p] = "failed" => frontend = "serve" \/ listener = "none"

\* A cleanup that has begun comes to its end, whatever the sessions are doing and
\* however many of them have not got a thread yet; it is broken off only when a
\* publication was spoiled.
CleanupEnds ==
  \A p \in Procs : Cleaning(p) ~> \/ pc[p] = "done"
                                  \/ pc[p] = "failed" /\ spoiled # {}

\* run_serve: "A failed session is reported and its stream ends".
FailedStreamEnds == \A c \in Cameras : (c \in failed) ~> (stream[c] = "closed")

\* async_stop: "Stop sessions and close all media and RTSP resources once."
\* A manager that was stopped is released, and stays so.
StoppedIsFinal ==
  (\E p \in Stops : pc[p] = "done") ~>
     [](/\ listener = "none" /\ published = {}
        /\ \A c \in Cameras : thread[c] \in {"none", "ended"})
=============================================================================
