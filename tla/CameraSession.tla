---------------------------- MODULE CameraSession ----------------------------
(***************************************************************************)
(* One run of run_lan_preview (nexxt_lan.py), for a camera and an RTC mode *)
(* taken from its configuration: the thread that opens the resources,      *)
(* exchanges signaling with the camera over TCP, waits for the ICE         *)
(* nomination on its two UDP sockets, starts the preview and receives,     *)
(* until stop_event, Ctrl+C or an error ends it and the finally blocks run.*)
(*                                                                         *)
(* phase is the place of that thread.  A frame of the camera is its kind;  *)
(* it arrives whole, or as a head and, some time later, a tail: recv_exact *)
(* keeps what it has read in a local variable, so a read that times out    *)
(* after the head has lost it.  A read may time out whenever no complete   *)
(* frame is there, and the deadline of a pump may pass at any moment.      *)
(*                                                                         *)
(* The camera is the environment: it answers what it was sent, each kind   *)
(* of frame once, and may send a status or hang up at any time.  UDP loses,*)
(* repeats and reorders: a datagram once sent may arrive never or often.   *)
(* Datagrams that change nothing in the loop (STUN responses, errors and   *)
(* checks without USE-CANDIDATE, anything that fails its HMAC) are left    *)
(* out; so are logging and what the dump files and players do.             *)
(*                                                                         *)
(* A resource is open from its acquisition until the code releases it      *)
(* (that CPython closes an unreferenced socket is not counted on).  It is  *)
(* owned from the statement that hands it to a block which will release    *)
(* it: the ExitStack, the with of the TCP connection, the try of the loop. *)
(* Ctrl+C may come between the two, and in the release itself.  A close()  *)
(* that Ctrl+C does not cut short succeeds.                                *)
(***************************************************************************)
EXTENDS Integers, Sequences, FiniteSets

CONSTANTS
  Protocols,        \* lan_protocol of the cameras: "3.3", "3.4"
  RtcModes,         \* "direct", "preconnect"
  CameraAddrs,      \* UDP addresses the camera sends from
  LifecycleFrames,  \* max_frames of receive_lifecycle_response (8)
  MaxInterrupts,    \* bound: Ctrl+C in all, one less for each oddity
  MaxQueued,        \* bound: pieces of frames unread when the camera sends one
  MaxOddities       \* bound: frames that answer no request or arrive in two pieces

ASSUME ModeAssumption ==
  /\ Protocols \subseteq {"3.3", "3.4"} /\ RtcModes \subseteq {"direct", "preconnect"}
  /\ LifecycleFrames \in Nat \ {0}
  /\ {MaxInterrupts, MaxQueued, MaxOddities} \subseteq Nat

VARIABLES
  protocol,         \* camera.lan_protocol
  rtc_mode,         \* rtc_mode of the session
  phase,            \* where the session thread is
  open,             \* resources acquired and not released
  owned,            \* resources a block has taken on to release, so far
  outcome,          \* "running", or how the session ended
  answer,           \* SignalingState.answer_sdp is set
  host,             \* SignalingState.camera_host is set
  session_started,  \* SignalingState.session_started
  disconnect_sent,  \* SignalingState.disconnect_sent
  frames_left,      \* frames receive_lifecycle_response may still read
  peer,             \* peer_addr and peer_udp of run_udp_loop, or NoPeer
  startup_sent,     \* startup_sent of run_udp_loop
  to_camera,        \* signaling messages written to the TCP connection
  disconnects,      \* how many of them were disconnects
  inbound,          \* pieces of frames the client has not read
  owed,             \* the frame whose tail the camera has not sent yet
  hung_up,          \* the camera closed the TCP connection
  camera_sent,      \* frames the camera has sent
  udp_in,           \* datagrams the camera has sent
  udp_out,          \* Mode 3 datagrams the client has sent, and on which path
  stop,             \* stop_event
  interrupts, splits

mode      == <<protocol, rtc_mode>>
resources == <<open, owned>>
signaling == <<answer, host, session_started, disconnect_sent>>
udp       == <<peer, startup_sent>>
camera    == <<owed, hung_up, camera_sent, udp_in>>
world  == <<mode, camera, stop, interrupts, splits>>
vars == <<mode, phase, resources, outcome, signaling, frames_left, udp, to_camera, disconnects,
          inbound, world, udp_out>>

Paths  == [sock : {1, 2}, addr : CameraAddrs]
NoPeer == [sock |-> 0]
Frames == {"key_resp", "dp_resp", "hb_ack", "answer", "host",
           "active", "inactive", "disconnect", "status"}
Opening == <<"stun", "udp1", "udp2", "tcp">>

Exchanging == {"key", "key_wait", "dp", "dp_wait", "heartbeat", "heartbeat_wait",
               "offer", "offer_written", "pump", "cand1", "pump1", "cand2", "pump2",
               "pump_answer", "ice_check", "building", "built"}
InLoop     == {"loop", "activate", "activate_wait", "preview"}
Unwinding  == {"tcp_close", "udp2_close", "udp1_close", "stun_close"}
Cleanup    == {"media_close", "disconnect", "disconnect_wait"} \cup Unwinding

Init ==
  /\ protocol \in Protocols /\ rtc_mode \in RtcModes
  /\ phase = "open" /\ open = {} /\ owned = {} /\ outcome = "running"
  /\ answer = FALSE /\ host = FALSE
  /\ session_started = FALSE /\ disconnect_sent = FALSE
  /\ frames_left = 0 /\ peer = NoPeer /\ startup_sent = FALSE
  /\ to_camera = {} /\ disconnects = 0
  /\ inbound = <<>> /\ owed = "none" /\ hung_up = FALSE
  /\ camera_sent = {} /\ udp_in = {} /\ udp_out = {}
  /\ stop = FALSE /\ interrupts = 0 /\ splits = 0

----------------------------------------------------------------------------
\* The frame at the front of the stream: recv_frame of lan33 and lan_framing

HasFrame ==
  /\ inbound # <<>>
  /\ \/ inbound[1].part = "whole"
     \/ inbound[1].part = "head" /\ Len(inbound) > 1

ReadFrame(f) ==
  /\ HasFrame /\ f = inbound[1].frame
  /\ inbound' = SubSeq(inbound, IF inbound[1].part = "whole" THEN 2 ELSE 3, Len(inbound))

\* socket.timeout: what recv_exact had of an incomplete frame is gone
ReadTimesOut ==
  /\ ~HasFrame /\ ~hung_up
  /\ Len(inbound) <= 1
  /\ inbound' = <<>>

\* the rest of a frame whose head was lost has no prefix: ValueError
ReadGarbage ==
  /\ inbound # <<>> /\ inbound[1].part = "tail"
  /\ inbound' = Tail(inbound)

\* EOFError
ReadEof == ~HasFrame /\ hung_up /\ UNCHANGED inbound

----------------------------------------------------------------------------
\* How the thread leaves a phase

NoDisconnectOf(p) == IF p \in InLoop THEN "media_close" ELSE "tcp_close"

\* the finally block that receives control when a phase is left early
FinallyOf(p) ==
  IF p \in InLoop THEN "media_close"
  ELSE IF p \in Exchanging THEN "disconnect" ELSE "tcp_close"

Fail ==
  /\ outcome' = "failed"
  /\ phase' = FinallyOf(phase)

\* send_json and the frames of the key negotiation; sendall may find the
\* connection closed
Transmit(m, next) ==
  /\ \/ /\ to_camera' = to_camera \cup {m}
        /\ phase' = next /\ UNCHANGED outcome
     \/ /\ hung_up /\ Fail
        /\ UNCHANGED to_camera
  /\ UNCHANGED <<resources, signaling, frames_left, udp, disconnects, inbound, world, udp_out>>

\* a read of exactly one frame, of a kind in ok; anything else ends the session
Expect(ok, next) ==
  /\ \/ \E f \in ok : ReadFrame(f) /\ phase' = next /\ UNCHANGED outcome
     \/ (\E f \in Frames \ ok : ReadFrame(f)) /\ Fail
     \/ (ReadTimesOut \/ ReadGarbage \/ ReadEof) /\ Fail
  /\ UNCHANGED <<resources, signaling, frames_left, udp, to_camera, disconnects, world,
                 udp_out>>

----------------------------------------------------------------------------
\* Opening and the exchange of signaling

\* prepare_session, once the local STUN endpoint is bound
Prepares == ~(rtc_mode = "preconnect" /\ protocol # "3.4")

\* open_local_stun_endpoint, open_udp_candidate and open_signaling_connection: a
\* bind() that fails leaves the socket it was for, create_connection does not
Open ==
  /\ phase = "open"
  /\ LET r == Opening[Cardinality(open) + 1]
     IN  \/ /\ r = "stun" \/ Prepares
            /\ open' = open \cup {r}
            /\ \/ phase' = "opened" /\ UNCHANGED outcome
               \/ r # "tcp" /\ Fail
         \/ Fail /\ UNCHANGED open
  /\ UNCHANGED <<owned, signaling, frames_left, udp, to_camera, disconnects, inbound, world,
                 udp_out>>

RegisteredButSecond(rs) == rs \ {"udp2"}

Registered(rs) == rs

\* stack.callback, stack.enter_context, and the with of the TCP connection
Register ==
  /\ phase = "opened"
  /\ owned' = owned \cup Registered(open \ owned)
  /\ phase' = IF "tcp" \notin open THEN "open"
              ELSE IF protocol = "3.4" THEN "key" ELSE "heartbeat"
  /\ UNCHANGED <<open, outcome, signaling, frames_left, udp, to_camera, disconnects, inbound,
                 world, udp_out>>

NegotiateKey ==
  \/ phase = "key" /\ Transmit("key_start", "key_wait")
  \/ phase = "key_wait" /\ Expect({"key_resp"}, "dp")

DpQuery ==
  \/ phase = "dp" /\ Transmit("dp_query", "dp_wait")
  \/ phase = "dp_wait" /\ Expect({"dp_resp"}, "heartbeat")

\* one frame, whatever it is, counts as the acknowledgement
Heartbeat ==
  \/ phase = "heartbeat" /\ Transmit("heartbeat", "heartbeat_wait")
  \/ /\ phase = "heartbeat_wait"
     /\ \/ (\E f \in Frames : ReadFrame(f)) /\ phase' = "offer" /\ UNCHANGED outcome
        \/ ReadTimesOut /\ phase' = "offer" /\ UNCHANGED outcome
        \/ (ReadGarbage \/ ReadEof) /\ Fail
     /\ UNCHANGED <<resources, signaling, frames_left, udp, to_camera, disconnects, world,
                    udp_out>>

Offer == phase = "offer" /\ Transmit("offer", "offer_written")

\* the statement after send_json returns
MarkStarted ==
  /\ phase = "offer_written"
  /\ session_started' = TRUE
  /\ phase' = "pump"
  /\ UNCHANGED <<resources, outcome, answer, host, disconnect_sent, frames_left, udp,
                 to_camera, disconnects, inbound, world, udp_out>>

Candidate ==
  \/ phase = "cand1" /\ Transmit("candidate1", "pump1")
  \/ phase = "cand2" /\ Transmit("candidate2", "pump2")

\* receive_signaling inside a pump: answers and host candidates are kept, every
\* other frame is passed over, a timeout or the end of the stream ends a slice
Pump ==
  /\ phase \in {"pump", "pump1", "pump2", "pump_answer"}
  /\ \/ \E f \in Frames :
          /\ ReadFrame(f)
          /\ answer' = (answer \/ f = "answer")
          /\ host' = (host \/ f = "host")
          /\ UNCHANGED <<phase, outcome>>
     \/ ReadTimesOut /\ UNCHANGED <<answer, host, phase, outcome>>
     \/ ReadGarbage /\ Fail /\ UNCHANGED <<answer, host>>
  /\ UNCHANGED <<resources, session_started, disconnect_sent, frames_left, udp, to_camera,
                 disconnects, world, udp_out>>

\* the deadline of a pump passes, or the last one has what it waits for
PumpEnds ==
  /\ \/ phase = "pump" /\ phase' = "cand1" /\ UNCHANGED outcome
     \/ phase = "pump1" /\ phase' = "cand2" /\ UNCHANGED outcome
     \/ phase = "pump2" /\ phase' = "pump_answer" /\ UNCHANGED outcome
     \/ phase = "pump_answer" /\ answer /\ host /\ phase' = "ice_check" /\ UNCHANGED outcome
     \/ phase = "pump_answer" /\ ~(answer /\ host) /\ Fail
  /\ UNCHANGED <<resources, signaling, frames_left, udp, to_camera, disconnects, inbound,
                 world, udp_out>>

\* send_initial_ice_check, which sendto may refuse
IceCheck ==
  /\ phase = "ice_check"
  /\ \/ phase' = "building" /\ UNCHANGED outcome
     \/ Fail
  /\ UNCHANGED <<resources, signaling, frames_left, udp, to_camera, disconnects, inbound,
                 world, udp_out>>

\* run_udp_loop before its try: MediaOutput with its sinks, and the receivers with
\* their dump files, some of which may be open when another cannot be
BuildMedia ==
  /\ phase = "building"
  /\ \/ phase' = "built" /\ open' = open \cup {"media"} /\ UNCHANGED outcome
     \/ Fail /\ open' \in {open, open \cup {"media"}}
  /\ UNCHANGED <<owned, signaling, frames_left, udp, to_camera, disconnects, inbound, world,
                 udp_out>>

\* the try whose finally block closes them
EnterLoop ==
  /\ phase = "built"
  /\ owned' = owned \cup {"media"}
  /\ phase' = "loop"
  /\ UNCHANGED <<open, outcome, signaling, frames_left, udp, to_camera, disconnects, inbound,
                 world, udp_out>>

----------------------------------------------------------------------------
\* run_udp_loop

StopUntilPreview == stop /\ ~startup_sent

StopSeen == stop

SeeStop ==
  /\ phase = "loop" /\ StopSeen
  /\ outcome' = "stopped"
  /\ phase' = FinallyOf(phase)
  /\ UNCHANGED <<resources, signaling, frames_left, udp, to_camera, disconnects, inbound,
                 world, udp_out>>

TakesEveryNomination == TRUE

TakesNomination == ~startup_sent

PeerUnset(d) == peer

PeerAfter(d) == [sock |-> d.path.sock, addr |-> d.path.addr]

\* a binding request with USE-CANDIDATE, answered on the socket it came on
Nominated(d) ==
  /\ phase = "loop" /\ d.kind = "nominate" /\ TakesNomination
  /\ peer' = PeerAfter(d)
  /\ phase' = IF rtc_mode = "preconnect" THEN "activate" ELSE "preview"
  /\ UNCHANGED <<resources, outcome, signaling, frames_left, startup_sent, to_camera,
                 disconnects, inbound, world, udp_out>>

\* the response to a binding request cannot be sent: the sockets do not block
ResponseFails(d) ==
  /\ phase = "loop" /\ d.kind = "nominate"
  /\ Fail
  /\ UNCHANGED <<resources, signaling, frames_left, udp, to_camera, disconnects, inbound,
                 world, udp_out>>

\* output() of a Mode 3 channel: without a peer it raises, and so may sendto,
\* before or after the first of several datagrams
Output(kind) ==
  LET sent == udp_out \cup {[kind |-> kind, path |-> peer]}
  IN  \/ /\ peer = NoPeer
         /\ outcome' = "no_peer" /\ phase' = "media_close"
         /\ UNCHANGED <<udp_out, startup_sent>>
      \/ /\ peer # NoPeer
         /\ udp_out' = sent
         /\ startup_sent' = (startup_sent \/ kind = "startup")
         /\ phase' = "loop"
         /\ UNCHANGED outcome
      \/ /\ peer # NoPeer
         /\ udp_out' \in {udp_out, sent}
         /\ Fail
         /\ UNCHANGED startup_sent

\* a verified KCP datagram of the start-up or a media channel: update() sends
\* the acknowledgement at once
KcpArrives(d) ==
  /\ phase = "loop" /\ d.kind = "kcp"
  /\ Output("ack")
  /\ UNCHANGED <<resources, signaling, frames_left, peer, to_camera, disconnects, inbound,
                 world>>

\* activate_preconnect_session
Activate ==
  /\ phase = "activate"
  /\ \/ /\ to_camera' = to_camera \cup {"activate"}
        /\ frames_left' = LifecycleFrames
        /\ phase' = "activate_wait" /\ UNCHANGED outcome
     \/ hung_up /\ Fail /\ UNCHANGED <<to_camera, frames_left>>
  /\ UNCHANGED <<resources, signaling, udp, disconnects, inbound, world, udp_out>>

AnyActivateResp == {"active", "inactive"}

\* lifecycle_response_is_accepted: handle, seq and error = 0
Accepted == {"active"}

OutOfFramesLate == frames_left = 0

OutOfFrames == frames_left = 1

\* receive_lifecycle_response: the reply, after at most LifecycleFrames frames;
\* "inactive" is any refusal: a retcode, an error, another handle or seq
ActivateWait ==
  /\ phase = "activate_wait"
  /\ \/ \E f \in Frames :
          /\ ReadFrame(f)
          /\ frames_left' = frames_left - 1
          /\ \/ f \in Accepted /\ phase' = "preview" /\ UNCHANGED outcome
             \/ f \notin Accepted /\ f = "inactive" /\ Fail
             \/ /\ f \notin {"active", "inactive"}
                /\ IF OutOfFrames THEN Fail ELSE UNCHANGED <<phase, outcome>>
     \/ (ReadTimesOut \/ ReadGarbage \/ ReadEof) /\ Fail /\ UNCHANGED frames_left
  /\ UNCHANGED <<resources, signaling, udp, to_camera, disconnects, world, udp_out>>

\* request_preview: the seven messages, each flushed
Preview ==
  /\ phase = "preview"
  /\ Output("startup")
  /\ UNCHANGED <<resources, signaling, frames_left, peer, to_camera, disconnects, inbound,
                 world>>

----------------------------------------------------------------------------
\* The finally blocks

MediaClose ==
  /\ phase = "media_close"
  /\ open' = open \ {"media"}
  /\ phase' = "disconnect"
  /\ UNCHANGED <<owned, outcome, signaling, frames_left, udp, to_camera, disconnects, inbound,
                 world, udp_out>>

\* graceful_disconnect: marked before the frame is written
Disconnect ==
  /\ phase = "disconnect"
  /\ IF ~session_started \/ disconnect_sent
     THEN phase' = "tcp_close" /\ UNCHANGED <<disconnect_sent, disconnects, to_camera>>
     ELSE /\ disconnect_sent' = TRUE
          /\ \/ /\ to_camera' = to_camera \cup {"disconnect"}
                /\ disconnects' = disconnects + 1
                /\ phase' = "disconnect_wait"
             \/ hung_up /\ phase' = "tcp_close" /\ UNCHANGED <<to_camera, disconnects>>
  /\ UNCHANGED <<resources, outcome, answer, host, session_started, frames_left, udp, inbound,
                 world, udp_out>>

\* 0.3 s for the camera's own disconnect, of interest to the log only
DisconnectWait ==
  /\ phase = "disconnect_wait"
  /\ \/ \E f \in Frames :
          /\ ReadFrame(f)
          /\ answer' = (answer \/ f = "answer")
          /\ host' = (host \/ f = "host")
          /\ phase' = IF f = "disconnect" THEN "tcp_close" ELSE phase
     \/ /\ \/ ReadTimesOut \/ ReadGarbage \/ ReadEof
           \/ UNCHANGED inbound
        /\ phase' = "tcp_close"
        /\ UNCHANGED <<answer, host>>
  /\ UNCHANGED <<resources, outcome, session_started, disconnect_sent, frames_left, udp,
                 to_camera, disconnects, world, udp_out>>

\* the end of the with of the TCP connection, and ExitStack.__exit__, which calls
\* its callbacks from the last to the first; what is unread goes with the connection
Release(p, r, next) ==
  /\ phase = p
  /\ open' = open \ (owned \cap {r})
  /\ phase' = next
  /\ inbound' = IF r = "tcp" THEN <<>> ELSE inbound

Unwind ==
  /\ \/ Release("tcp_close", "tcp", "udp2_close")
     \/ Release("udp2_close", "udp2", "udp1_close")
     \/ Release("udp1_close", "udp1", "stun_close")
     \/ Release("stun_close", "stun", "done")
  /\ UNCHANGED <<owned, outcome, signaling, frames_left, udp, to_camera, disconnects,
                 world, udp_out>>

\* "status" is any other frame: an acknowledgement, a relay candidate, a status
Others == {"status", "disconnect"}

Oddities == Cardinality(camera_sent \cap Others) + splits

----------------------------------------------------------------------------
\* Ctrl+C, in any phase: the main thread raises KeyboardInterrupt there.  In a
\* finally block, what that block had left to do is skipped.  In a release, as in
\* the join of LocalStunServer.close, it is that release: ExitStack goes on with
\* the next callback, unless it was itself between two of them.
InterruptedIn(p) ==
  CASE p = "media_close" -> {"disconnect"}
    [] p \in {"disconnect", "disconnect_wait"} -> {"tcp_close"}
    [] p = "tcp_close" -> {"udp2_close", "done"}
    [] p = "udp2_close" -> {"udp1_close", "done"}
    [] p = "udp1_close" -> {"stun_close", "done"}
    [] p = "stun_close" -> {"done"}
    [] OTHER -> {FinallyOf(p)}

Interrupt ==
  /\ phase # "done" /\ interrupts + Oddities < MaxInterrupts
  /\ interrupts' = interrupts + 1
  /\ outcome' = IF phase \in Cleanup THEN outcome ELSE "interrupted"
  /\ phase' \in InterruptedIn(phase)
  /\ UNCHANGED <<mode, resources, signaling, frames_left, udp, to_camera, disconnects, inbound,
                 camera, udp_out, stop, splits>>

Stop ==
  /\ ~stop /\ stop' = TRUE
  /\ UNCHANGED <<mode, phase, resources, outcome, signaling, frames_left, udp, to_camera,
                 disconnects, inbound, camera, udp_out, interrupts, splits>>

----------------------------------------------------------------------------
\* The camera and the network

Asked(f) ==
  CASE f = "key_resp" -> "key_start" \in to_camera
    [] f = "dp_resp" -> "dp_query" \in to_camera
    [] f = "hb_ack" -> "heartbeat" \in to_camera
    [] f \in {"answer", "host", "disconnect"} -> "offer" \in to_camera
    [] f = "active" -> "activate" \in to_camera /\ "inactive" \notin camera_sent
    [] f = "inactive" -> "activate" \in to_camera /\ "active" \notin camera_sent
    [] OTHER -> "tcp" \in open

\* once the session is unwinding, what the camera does on TCP is not read any more
Connected == "tcp" \in open /\ phase \notin Unwinding \cup {"done"}

CameraSends(f) ==
  /\ f \notin camera_sent /\ Asked(f) /\ ~hung_up /\ owed = "none" /\ Connected
  /\ Len(inbound) < MaxQueued
  /\ f \in Others => Oddities < MaxOddities
  /\ camera_sent' = camera_sent \cup {f}
  /\ \/ /\ inbound' = Append(inbound, [frame |-> f, part |-> "whole"])
        /\ UNCHANGED <<owed, splits>>
     \/ /\ Oddities + (IF f \in Others THEN 1 ELSE 0) < MaxOddities /\ splits' = splits + 1
        /\ inbound' = Append(inbound, [frame |-> f, part |-> "head"])
        /\ owed' = f
  /\ UNCHANGED <<mode, phase, resources, outcome, signaling, frames_left, udp, to_camera,
                 disconnects, hung_up, udp_in, udp_out, stop, interrupts>>

TailArrives ==
  /\ owed # "none" /\ Connected
  /\ inbound' = Append(inbound, [frame |-> owed, part |-> "tail"])
  /\ owed' = "none"
  /\ UNCHANGED <<mode, phase, resources, outcome, signaling, frames_left, udp, to_camera,
                 disconnects, hung_up, camera_sent, udp_in, udp_out, stop, interrupts, splits>>

HangUp ==
  /\ ~hung_up /\ owed = "none" /\ Connected
  /\ hung_up' = TRUE
  /\ UNCHANGED <<mode, phase, resources, outcome, signaling, frames_left, udp, to_camera,
                 disconnects, inbound, owed, camera_sent, udp_in, udp_out, stop, interrupts,
                 splits>>

\* the camera nominates a path to a candidate it was told of, and speaks KCP on
\* the path on which the preview was started; after the loop nobody reads it
CameraDatagram(d) ==
  /\ d \notin udp_in /\ phase \notin Cleanup \cup {"done"}
  /\ CASE d.kind = "nominate" ->
            /\ "answer" \in camera_sent
            /\ (IF d.path.sock = 1 THEN "candidate1" ELSE "candidate2") \in to_camera
       [] OTHER -> [kind |-> "startup", path |-> d.path] \in udp_out
  /\ udp_in' = udp_in \cup {d}
  /\ UNCHANGED <<mode, phase, resources, outcome, signaling, frames_left, udp, to_camera,
                 disconnects, inbound, owed, hung_up, camera_sent, udp_out, stop, interrupts,
                 splits>>

Datagrams == [kind : {"nominate", "kcp"}, path : Paths]

\* what the thread does by itself, and what a datagram makes it do
ThreadStep ==
  \/ Open \/ Register \/ NegotiateKey \/ DpQuery \/ Heartbeat \/ Offer \/ MarkStarted
  \/ Candidate \/ Pump \/ PumpEnds \/ IceCheck \/ BuildMedia \/ EnterLoop
  \/ SeeStop \/ Activate \/ ActivateWait \/ Preview
  \/ MediaClose \/ Disconnect \/ DisconnectWait \/ Unwind

DatagramStep == \E d \in udp_in : Nominated(d) \/ ResponseFails(d) \/ KcpArrives(d)

Next ==
  \/ ThreadStep
  \/ DatagramStep
  \/ Interrupt
  \/ Stop
  \/ \E f \in Frames : CameraSends(f)
  \/ TailArrives
  \/ HangUp
  \/ \E d \in Datagrams : CameraDatagram(d)

Spec == Init /\ [][Next]_vars

(***************************************************************************)
(* Fairness.  Every blocking call of the thread has a timeout, a pump has  *)
(* a deadline, and the loop looks at stop_event in every round: the thread *)
(* goes on.  Nothing is assumed of the camera or of the network.           *)
(***************************************************************************)
Fairness ==
  /\ WF_vars(ThreadStep)
  /\ WF_vars(PumpEnds)
  /\ WF_vars(SeeStop)

FairSpec == Spec /\ Fairness

----------------------------------------------------------------------------
\* Properties

\* Types of the thread's local state, SignalingState and the environment.
TypeOK ==
  /\ protocol \in Protocols /\ rtc_mode \in RtcModes
  /\ phase \in {"open", "opened", "done"} \cup Exchanging \cup InLoop \cup Cleanup
  /\ open \cup owned \subseteq {"stun", "udp1", "udp2", "tcp", "media"}
  /\ outcome \in {"running", "failed", "stopped", "interrupted", "no_peer"}
  /\ {answer, host, session_started, disconnect_sent, startup_sent, hung_up, stop}
       \subseteq BOOLEAN
  /\ frames_left \in 0..LifecycleFrames
  /\ peer \in Paths \cup {NoPeer}
  /\ to_camera \subseteq {"key_start", "dp_query", "heartbeat", "offer", "candidate1",
                          "candidate2", "activate", "disconnect"}
  /\ disconnects \in Nat /\ owed \in Frames \cup {"none"}
  /\ inbound \in Seq([frame : Frames, part : {"whole", "head", "tail"}])
  /\ camera_sent \subseteq Frames /\ udp_in \subseteq Datagrams
  /\ udp_out \subseteq [kind : {"startup", "ack"}, path : Paths]
  /\ interrupts \in Nat /\ splits \in Nat

\* The preview is only ever started on a path the camera nominated, and in
\* preconnect mode only when the camera has activated the session, whatever
\* else was in the TCP stream before its reply.
PreviewNeedsCamera ==
  \A o \in udp_out :
    /\ [kind |-> "nominate", path |-> o.path] \in udp_in
    /\ rtc_mode = "preconnect" => "active" \in camera_sent

\* All Mode 3 traffic of a session uses one socket and one address, however
\* many nominations arrive, repeated, late or for the other socket; and "Mode3
\* output before ICE peer was selected" is never raised with a camera that
\* speaks KCP only after the preview was started.
OnePath ==
  /\ \A o1, o2 \in udp_out : o1.path = o2.path
  /\ outcome # "no_peer"

\* no Ctrl+C but the one that ended the session
CleanupUndisturbed == interrupts = (IF outcome = "interrupted" THEN 1 ELSE 0)

\* A camera that was sent an offer is told of the end: it gets one disconnect
\* before the TCP connection goes, unless it hung up first, Ctrl+C cut the
\* cleanup short, or Ctrl+C came before session_started said so.
StartedIsDisconnected ==
  /\ disconnects <= 1
  /\ (/\ phase \in Unwinding \cup {"done"} /\ ~hung_up /\ CleanupUndisturbed
      /\ session_started \/ ("offer" \in to_camera /\ outcome # "interrupted"))
       => disconnects = 1

\* Whatever ends the session, and at whatever statement, all that a block had taken
\* on is released, unless another Ctrl+C came during the release.  What no block had
\* taken on yet is one resource at most, the one an error or Ctrl+C caught between
\* its acquisition and that statement, and none once the session was in its loop.
OwnedIsReleased ==
  phase = "done" =>
    /\ CleanupUndisturbed => open \cap owned = {}
    /\ \A r1, r2 \in open \ owned : r1 = r2
    /\ open \ owned # {} => outcome \in {"failed", "interrupted"} /\ "media" \notin owned

Stage ==
  CASE phase \in Exchanging \cup {"open", "opened"} -> "signaling"
    [] phase \in InLoop \cup {"media_close"} -> "media"
    [] phase = "done" -> "ended"
    [] OTHER -> "closing"

Contract == INSTANCE SessionContract
  WITH stage <- Stage, attached <- ("media" \in open \cap owned),
       Interruptible <- MaxInterrupts > 0

\* What serve.py, manager.py and the command line rely on: signaling runs out by
\* itself, the loop owns the sinks until its finally block and no longer, and
\* stop_event ends the loop, and then the session, whatever the camera does or
\* fails to do.
ImplementsContract == Contract!FairSpec

\* exchange_signaling: the pumps keep "the original two-second overall answer
\* budget": an exchange only fails by its deadline, never because a frame of the
\* answer was still on its way when a slice of a pump ended.
InPump == phase \in {"pump", "pump1", "pump2", "pump_answer"}

SlicesLoseNothing ==
  [][(InPump /\ outcome' = "failed") => (phase = "pump_answer" /\ inbound' = inbound)]_vars
=============================================================================
