------------------------- MODULE CameraSessionProofs -------------------------
(***************************************************************************)
(* The safety properties of CameraSession for both protocols and RTC modes *)
(* and any number of camera addresses, oddities and Ctrl+C, and that every *)
(* step of a session is one its contract allows.                           *)
(***************************************************************************)
EXTENDS CameraSession, FiniteSetTheorems, SequenceTheorems, TLAPS

Early == {"open", "opened", "key", "key_wait", "dp", "dp_wait", "heartbeat", "heartbeat_wait",
          "offer"}
Final == Cleanup \cup {"done"}
Ours == {"stun", "udp1", "udp2", "tcp"}

\* how the session ended, and how many Ctrl+C that took
Ends ==
  /\ outcome = "running" <=> phase \notin Final
  /\ outcome = "running" => interrupts = 0
  /\ outcome = "interrupted" => interrupts >= 1

\* the resources, opened in order, each owned before the next is opened
Opens ==
  /\ phase = "open" => owned = open /\ open \in {{}, {"stun"}, {"stun", "udp1"},
                                                {"stun", "udp1", "udp2"}}
  /\ phase = "opened" => \/ owned = {} /\ open = {"stun"}
                         \/ owned = {"stun"} /\ open = {"stun", "udp1"}
                         \/ owned = {"stun", "udp1"} /\ open = {"stun", "udp1", "udp2"}
                         \/ owned = {"stun", "udp1", "udp2"} /\ open = Ours
  /\ phase \in Exchanging => owned = Ours
  /\ phase \in Exchanging \ {"built"} => open = Ours
  /\ phase = "built" => open = Ours \cup {"media"}
  /\ phase \in InLoop \cup {"media_close"} => owned = Ours \cup {"media"} /\ open = owned

\* what nobody owns, and what has been released
Holds ==
  /\ Opens
  /\ phase \in Final =>
       /\ \A r1, r2 \in open \ owned : r1 = r2
       /\ open \ owned # {} => outcome \in {"failed", "interrupted"} /\ "media" \notin owned
  /\ CleanupUndisturbed =>
       /\ phase \in Final \ {"media_close"} => "media" \notin open \cap owned
       /\ phase \in {"udp2_close", "udp1_close", "stun_close", "done"}
            => "tcp" \notin open \cap owned
       /\ phase \in {"udp1_close", "stun_close", "done"} => "udp2" \notin open \cap owned
       /\ phase \in {"stun_close", "done"} => "udp1" \notin open \cap owned
       /\ phase = "done" => "stun" \notin open \cap owned

\* the offer, session_started and the disconnect
Told ==
  /\ phase \in Early => ~session_started /\ "offer" \notin to_camera
  /\ "offer" \in to_camera
       => session_started \/ phase = "offer_written" \/ outcome = "interrupted"
  /\ disconnect_sent => phase \in {"disconnect_wait", "done"} \cup Unwinding
  /\ disconnects \in {0, 1} /\ (disconnects = 1 => disconnect_sent)
  /\ phase = "disconnect_wait" => disconnects = 1
  /\ StartedIsDisconnected

\* what is in the TCP stream came from the camera, and the read of the activation
\* has frames left
Stream ==
  /\ \A i \in 1..Len(inbound) : inbound[i].frame \in camera_sent
  /\ owed # "none" => owed \in camera_sent
  /\ phase = "activate_wait" => frames_left >= 1

\* the peer, and what was sent to it
Path ==
  /\ peer # NoPeer => [kind |-> "nominate", path |-> peer] \in udp_in
  /\ phase \in {"activate", "activate_wait", "preview"} => peer # NoPeer /\ ~startup_sent
  /\ (phase \notin Final /\ ~startup_sent) => udp_out = {}
  /\ \A o \in udp_out : o.path = peer
  /\ \A d \in udp_in : d.kind = "kcp" => [kind |-> "startup", path |-> d.path] \in udp_out
  /\ outcome # "no_peer"
  /\ (rtc_mode = "preconnect" /\ (udp_out # {} \/ phase = "preview"))
       => "active" \in camera_sent

IInv == TypeOK /\ Ends /\ Holds /\ Told /\ Stream /\ Path
----------------------------------------------------------------------------
Pieces == [frame : Frames, part : {"whole", "head", "tail"}]

\* What the steps of the exchange of signaling have in common, but for the offer.
Exchanges ==
  /\ phase \in Exchanging \ {"offer", "offer_written", "building", "built"}
  /\ \/ /\ phase' \in Exchanging \ {"offer_written", "building", "built"}
        /\ outcome' = outcome
        /\ phase' \in Early => phase \in Early
     \/ phase' = "disconnect" /\ outcome' = "failed"
  /\ \E m \in {"key_start", "dp_query", "heartbeat", "candidate1", "candidate2"} :
       to_camera' \in {to_camera, to_camera \cup {m}}
  /\ {answer', host'} \subseteq BOOLEAN
  /\ UNCHANGED <<resources, session_started, disconnect_sent, frames_left, udp, disconnects,
                 world, udp_out>>

\* What those of the camera, the network and whoever stops the session have.
Outside ==
  /\ UNCHANGED <<mode, phase, resources, outcome, signaling, frames_left, udp, to_camera,
                 disconnects, udp_out, interrupts>>
  /\ {stop', hung_up'} \subseteq BOOLEAN /\ (hung_up => hung_up') /\ (stop => stop')
  /\ splits' \in Nat
  /\ camera_sent \subseteq camera_sent' /\ camera_sent' \subseteq Frames
  /\ udp_in \subseteq udp_in' /\ udp_in' \subseteq Datagrams
  /\ \A d \in udp_in' \ udp_in :
       d.kind = "kcp" => [kind |-> "startup", path |-> d.path] \in udp_out

\* What output() of a channel does once there is a peer.
Sends(kind) ==
  /\ peer # NoPeer
  /\ udp_out' \in {udp_out, udp_out \cup {[kind |-> kind, path |-> peer]}}
  /\ \/ phase' = "loop" /\ startup_sent' = (startup_sent \/ kind = "startup")
        /\ outcome' = outcome
     \/ phase' = "media_close" /\ startup_sent' = startup_sent /\ outcome' = "failed"

LEMMA Counted ==
  /\ Cardinality({}) = 0 /\ Cardinality({"stun"}) = 1
  /\ Cardinality({"stun", "udp1"}) = 2 /\ Cardinality({"stun", "udp1", "udp2"}) = 3
<1> DEFINE A == {"stun"}  B == A \cup {"udp1"}  C == B \cup {"udp2"}
<1>1. Cardinality({}) = 0 /\ Cardinality(A) = 1 /\ IsFiniteSet(A)
  BY FS_EmptySet, FS_Singleton
<1>2. "udp1" \notin A /\ "udp2" \notin B
  OBVIOUS
<1> HIDE DEF A
<1>3. IsFiniteSet(B) /\ Cardinality(B) = 2
  BY <1>1, <1>2, FS_AddElement
<1> HIDE DEF B
<1>4. Cardinality(C) = 3
  BY <1>2, <1>3, FS_AddElement
<1>5. B = {"stun", "udp1"} /\ C = {"stun", "udp1", "udp2"}
  BY DEF A, B
<1> QED BY <1>1, <1>3, <1>4, <1>5 DEF A

\* There are only so many oddities.
LEMMA OdditiesCounted == TypeOK => Oddities \in Nat
<1> SUFFICES ASSUME TypeOK PROVE Oddities \in Nat
  OBVIOUS
<1>1. IsFiniteSet({"status"} \cup {"disconnect"})
  BY FS_Singleton, FS_AddElement
<1>2. Others = {"status"} \cup {"disconnect"}
  BY DEF Others
<1>3. IsFiniteSet(camera_sent \cap Others)
  BY <1>1, <1>2, FS_Intersection
<1> QED BY <1>3, FS_CardinalityType DEF Oddities, TypeOK

LEMMA OpenedSoFar ==
  ASSUME Holds, phase = "open"
  PROVE  Cardinality(open) + 1 \in 1..4
<1>1. open \in {{}, {"stun"}, {"stun", "udp1"}, {"stun", "udp1", "udp2"}}
  BY DEF Holds, Opens
<1>2. CASE open = {}
  BY <1>2, Counted
<1>3. CASE open = {"stun"}
  BY <1>3, Counted
<1>4. CASE open = {"stun", "udp1"}
  BY <1>4, Counted
<1>5. CASE open = {"stun", "udp1", "udp2"}
  BY <1>5, Counted
<1> QED BY <1>1, <1>2, <1>3, <1>4, <1>5

LEMMA ExchangeSteps ==
  ASSUME TypeOK, NegotiateKey \/ DpQuery \/ Heartbeat \/ Candidate \/ Pump \/ PumpEnds
  PROVE  Exchanges
<1> USE DEF TypeOK, Exchanges, Exchanging, InLoop, Early, Fail, FinallyOf, Transmit, Expect,
            resources,
            signaling, udp
<1>1. CASE NegotiateKey
  BY <1>1 DEF NegotiateKey
<1>2. CASE DpQuery
  BY <1>2 DEF DpQuery
<1>3. CASE Heartbeat
  BY <1>3 DEF Heartbeat
<1>4. CASE Candidate
  BY <1>4 DEF Candidate
<1>5. CASE Pump
  BY <1>5 DEF Pump
<1>6. CASE PumpEnds
  BY <1>6 DEF PumpEnds
<1> QED BY <1>1, <1>2, <1>3, <1>4, <1>5, <1>6

LEMMA OutsideSteps ==
  ASSUME TypeOK,
         \/ Stop \/ TailArrives \/ HangUp \/ UNCHANGED vars
         \/ \E f \in Frames : CameraSends(f)
         \/ \E d \in Datagrams : CameraDatagram(d)
  PROVE  Outside
<1> USE DEF TypeOK, Outside, resources, signaling, udp, mode, camera, world
<1>1. CASE Stop
  BY <1>1 DEF Stop
<1>2. CASE TailArrives
  BY <1>2 DEF TailArrives
<1>3. CASE HangUp
  BY <1>3 DEF HangUp
<1>4. CASE UNCHANGED vars
  BY <1>4 DEF vars
<1>5. ASSUME NEW f \in Frames, CameraSends(f) PROVE Outside
  BY <1>5 DEF CameraSends
<1>6. ASSUME NEW d \in Datagrams, CameraDatagram(d) PROVE Outside
  BY <1>6 DEF CameraDatagram
<1> QED BY <1>1, <1>2, <1>3, <1>4, <1>5, <1>6

LEMMA Cases ==
  ASSUME TypeOK, [Next]_vars
  PROVE  \/ Exchanges \/ Outside \/ Open \/ Register \/ Offer \/ MarkStarted
         \/ IceCheck \/ BuildMedia \/ EnterLoop
         \/ SeeStop \/ Activate \/ ActivateWait \/ Preview
         \/ MediaClose \/ Disconnect \/ DisconnectWait \/ Unwind \/ Interrupt
         \/ \E d \in udp_in : Nominated(d) \/ ResponseFails(d) \/ KcpArrives(d)
BY ExchangeSteps, OutsideSteps DEF Next, ThreadStep, DatagramStep

\* Every session has one end, and Ctrl+C is counted.
LEMMA EndsStep ==
  ASSUME TypeOK, Ends, [Next]_vars
  PROVE  Ends'
<1> USE ModeAssumption DEF TypeOK, Ends, Exchanging, InLoop, Early, Final, Cleanup,
      Unwinding, resources, signaling,
      udp, mode, camera, world
<1>1. CASE Exchanges
  BY <1>1 DEF Exchanges
<1>2. CASE Outside
  BY <1>2 DEF Outside
<1>3. CASE Open
  BY <1>3 DEF Open, Fail, FinallyOf, Opening
<1>4. CASE Offer
  BY <1>4 DEF Offer, Transmit, Fail, FinallyOf
<1>5. CASE MarkStarted
  BY <1>5 DEF MarkStarted
<1>6. CASE IceCheck
  BY <1>6 DEF IceCheck, Fail, FinallyOf
<1>7. CASE SeeStop
  BY <1>7 DEF SeeStop, FinallyOf
<1>8. CASE Activate
  BY <1>8 DEF Activate, Fail, FinallyOf
<1>9. CASE ActivateWait
  BY <1>9 DEF ActivateWait, Fail, FinallyOf, Accepted, OutOfFrames
<1>10. CASE Preview
  BY <1>10 DEF Preview, Output, Fail, FinallyOf
<1>11. CASE MediaClose
  BY <1>11 DEF MediaClose
<1>12. CASE Disconnect
  BY <1>12 DEF Disconnect
<1>13. CASE DisconnectWait
  BY <1>13 DEF DisconnectWait
<1>14. CASE Unwind
  BY <1>14 DEF Unwind, Release
<1>15. CASE Interrupt
  BY <1>15 DEF Interrupt, InterruptedIn, FinallyOf
<1>16. ASSUME NEW d \in udp_in, Nominated(d) PROVE Ends'
  BY <1>16 DEF Nominated, PeerAfter, TakesNomination
<1>17. ASSUME NEW d \in udp_in, ResponseFails(d) PROVE Ends'
  BY <1>17 DEF ResponseFails, Fail, FinallyOf
<1>18. ASSUME NEW d \in udp_in, KcpArrives(d) PROVE Ends'
  BY <1>18 DEF KcpArrives, Output, Fail, FinallyOf
<1>19. CASE Register
  BY <1>19 DEF Register, Registered
<1>20. CASE BuildMedia
  BY <1>20 DEF BuildMedia, Fail, FinallyOf
<1>21. CASE EnterLoop
  BY <1>21 DEF EnterLoop
<1> QED
  BY <1>1, <1>2, <1>3, <1>4, <1>5, <1>6, <1>7, <1>8, <1>9, <1>10,
      <1>11, <1>12, <1>13, <1>14, <1>15, <1>16, <1>17, <1>18, <1>19, <1>20,
      <1>21, Cases

\* What is open.
LEMMA HoldsStep ==
  ASSUME TypeOK, Ends, Holds, [Next]_vars
  PROVE  Holds'
<1> USE ModeAssumption DEF TypeOK, Ends, Opens, Holds, Ours, CleanupUndisturbed, Exchanging,
      InLoop, Early, Final, Cleanup,
      Unwinding, resources, signaling, udp, mode, camera, world
<1>1. CASE Exchanges
  BY <1>1 DEF Exchanges
<1>2. CASE Outside
  BY <1>2 DEF Outside
<1>3. CASE Open
  <2>1. PICK r \in {"stun", "udp1", "udp2", "tcp"} :
               /\ r = Opening[Cardinality(open) + 1]
               /\ \/ open' = open \cup {r} /\ phase' = "opened" /\ outcome' = outcome
                  \/ open' \in {open, open \cup {r}} /\ phase' = "tcp_close" /\ outcome' = "failed"
    <3>1. Cardinality(open) + 1 \in 1..4
      BY <1>3, OpenedSoFar DEF Open
    <3>2. Opening[Cardinality(open) + 1] \in {"stun", "udp1", "udp2", "tcp"}
      BY <3>1 DEF Opening
    <3> QED BY <1>3, <3>2 DEF Open, Fail, FinallyOf
  <2>2. phase = "open" /\ owned' = owned /\ owned = open /\ interrupts' = interrupts
    BY <1>3 DEF Open
  <2>3. CASE open = {}
    <3>1. r = "stun"
      BY <2>1, <2>3, Counted DEF Opening
    <3> QED BY <2>1, <2>2, <2>3, <3>1
  <2>4. CASE open = {"stun"}
    <3>1. r = "udp1"
      BY <2>1, <2>4, Counted DEF Opening
    <3> QED BY <2>1, <2>2, <2>4, <3>1
  <2>5. CASE open = {"stun", "udp1"}
    <3>1. r = "udp2"
      BY <2>1, <2>5, Counted DEF Opening
    <3> QED BY <2>1, <2>2, <2>5, <3>1
  <2>6. CASE open = {"stun", "udp1", "udp2"}
    <3>1. r = "tcp"
      BY <2>1, <2>6, Counted DEF Opening
    <3> QED BY <2>1, <2>2, <2>6, <3>1
  <2> QED BY <2>2, <2>3, <2>4, <2>5, <2>6
<1>4. CASE Offer
  BY <1>4 DEF Offer, Transmit, Fail, FinallyOf
<1>5. CASE MarkStarted
  BY <1>5 DEF MarkStarted
<1>6. CASE IceCheck
  BY <1>6 DEF IceCheck, Fail, FinallyOf
<1>7. CASE SeeStop
  BY <1>7 DEF SeeStop, FinallyOf
<1>8. CASE Activate
  BY <1>8 DEF Activate, Fail, FinallyOf
<1>9. CASE ActivateWait
  BY <1>9 DEF ActivateWait, Fail, FinallyOf, Accepted, OutOfFrames
<1>10. CASE Preview
  BY <1>10 DEF Preview, Output, Fail, FinallyOf
<1>11. CASE MediaClose
  BY <1>11 DEF MediaClose
<1>12. CASE Disconnect
  BY <1>12 DEF Disconnect
<1>13. CASE DisconnectWait
  BY <1>13 DEF DisconnectWait
<1>14. CASE Unwind
  BY <1>14 DEF Unwind, Release
<1>15. CASE Interrupt
  BY <1>15, SMTT(40) DEF Interrupt, InterruptedIn, FinallyOf
<1>16. ASSUME NEW d \in udp_in, Nominated(d) PROVE Holds'
  BY <1>16 DEF Nominated, PeerAfter, TakesNomination
<1>17. ASSUME NEW d \in udp_in, ResponseFails(d) PROVE Holds'
  BY <1>17 DEF ResponseFails, Fail, FinallyOf
<1>18. ASSUME NEW d \in udp_in, KcpArrives(d) PROVE Holds'
  BY <1>18 DEF KcpArrives, Output, Fail, FinallyOf
<1>19. CASE Register
  BY <1>19 DEF Register, Registered
<1>20. CASE BuildMedia
  BY <1>20 DEF BuildMedia, Fail, FinallyOf
<1>21. CASE EnterLoop
  BY <1>21 DEF EnterLoop
<1> QED
  BY <1>1, <1>2, <1>3, <1>4, <1>5, <1>6, <1>7, <1>8, <1>9, <1>10,
      <1>11, <1>12, <1>13, <1>14, <1>15, <1>16, <1>17, <1>18, <1>19, <1>20,
      <1>21, Cases

\* What the camera has been told.
LEMMA ToldStep ==
  ASSUME TypeOK, Ends, Told, [Next]_vars
  PROVE  Told'
<1> USE ModeAssumption DEF TypeOK, Ends, Told, StartedIsDisconnected,
      CleanupUndisturbed, Exchanging, InLoop, Early, Final, Cleanup,
      Unwinding, resources, signaling, udp, mode,
      camera, world
<1>1. CASE Exchanges
  BY <1>1 DEF Exchanges
<1>2. CASE Outside
  BY <1>2 DEF Outside
<1>3. CASE Open
  BY <1>3 DEF Open, Fail, FinallyOf, Opening
<1>4. CASE Offer
  BY <1>4 DEF Offer, Transmit, Fail, FinallyOf
<1>5. CASE MarkStarted
  BY <1>5 DEF MarkStarted
<1>6. CASE IceCheck
  BY <1>6 DEF IceCheck, Fail, FinallyOf
<1>7. CASE SeeStop
  BY <1>7 DEF SeeStop, FinallyOf
<1>8. CASE Activate
  BY <1>8 DEF Activate, Fail, FinallyOf
<1>9. CASE ActivateWait
  BY <1>9 DEF ActivateWait, Fail, FinallyOf, Accepted, OutOfFrames
<1>10. CASE Preview
  BY <1>10 DEF Preview, Output, Fail, FinallyOf
<1>11. CASE MediaClose
  BY <1>11 DEF MediaClose
<1>12. CASE Disconnect
  BY <1>12 DEF Disconnect
<1>13. CASE DisconnectWait
  BY <1>13 DEF DisconnectWait
<1>14. CASE Unwind
  BY <1>14 DEF Unwind, Release
<1>15. CASE Interrupt
  BY <1>15 DEF Interrupt, InterruptedIn, FinallyOf
<1>16. ASSUME NEW d \in udp_in, Nominated(d) PROVE Told'
  BY <1>16 DEF Nominated, PeerAfter, TakesNomination
<1>17. ASSUME NEW d \in udp_in, ResponseFails(d) PROVE Told'
  BY <1>17 DEF ResponseFails, Fail, FinallyOf
<1>18. ASSUME NEW d \in udp_in, KcpArrives(d) PROVE Told'
  BY <1>18 DEF KcpArrives, Output, Fail, FinallyOf
<1>19. CASE Register
  BY <1>19 DEF Register, Registered
<1>20. CASE BuildMedia
  BY <1>20 DEF BuildMedia, Fail, FinallyOf
<1>21. CASE EnterLoop
  BY <1>21 DEF EnterLoop
<1> QED
  BY <1>1, <1>2, <1>3, <1>4, <1>5, <1>6, <1>7, <1>8, <1>9, <1>10,
      <1>11, <1>12, <1>13, <1>14, <1>15, <1>16, <1>17, <1>18, <1>19, <1>20,
      <1>21, Cases

\* Where the Mode 3 traffic goes.
LEMMA PathStep ==
  ASSUME TypeOK, Stream, Path, [Next]_vars
  PROVE  Path'
<1> USE ModeAssumption DEF TypeOK, Path, Paths, NoPeer, Datagrams, Exchanging, InLoop,
      Early, Final, Cleanup,
      Unwinding, resources, signaling, udp, mode, camera, world
<1>1. CASE Exchanges
  BY <1>1 DEF Exchanges
<1>2. CASE Outside
  BY <1>2 DEF Outside
<1>3. CASE Open
  BY <1>3 DEF Open, Fail, FinallyOf, Opening
<1>4. CASE Offer
  BY <1>4 DEF Offer, Transmit, Fail, FinallyOf
<1>5. CASE MarkStarted
  BY <1>5 DEF MarkStarted
<1>6. CASE IceCheck
  BY <1>6 DEF IceCheck, Fail, FinallyOf
<1>7. CASE SeeStop
  BY <1>7 DEF SeeStop, FinallyOf
<1>8. CASE Activate
  BY <1>8 DEF Activate, Fail, FinallyOf
<1>9. CASE ActivateWait
  <2>1. ASSUME NEW f \in Frames, ReadFrame(f) PROVE f \in camera_sent
    BY <2>1 DEF Stream, ReadFrame, HasFrame
  <2> QED BY <1>9, <2>1 DEF ActivateWait, Fail, FinallyOf, Accepted, OutOfFrames
<1>10. CASE Preview
  <2>1. Sends("startup")
    BY <1>10 DEF Preview, Output, Sends, Fail, FinallyOf
  <2>2. /\ udp_out = {} /\ peer \in Paths
        /\ [kind |-> "nominate", path |-> peer] \in udp_in
        /\ (rtc_mode = "preconnect" => "active" \in camera_sent)
        /\ UNCHANGED <<peer, udp_in, camera_sent, rtc_mode>>
    BY <1>10 DEF Preview
  <2>3. \A o \in udp_out' : o.path = peer
    BY <2>1, <2>2 DEF Sends
  <2>4. \A e \in udp_in' : e.kind = "kcp" => [kind |-> "startup", path |-> e.path] \in udp_out'
    BY <2>2
  <2> QED BY <2>1, <2>2, <2>3, <2>4 DEF Sends
<1>11. CASE MediaClose
  BY <1>11 DEF MediaClose
<1>12. CASE Disconnect
  BY <1>12 DEF Disconnect
<1>13. CASE DisconnectWait
  BY <1>13 DEF DisconnectWait
<1>14. CASE Unwind
  BY <1>14 DEF Unwind, Release
<1>15. CASE Interrupt
  BY <1>15 DEF Interrupt, InterruptedIn, FinallyOf
<1>16. ASSUME NEW d \in udp_in, Nominated(d) PROVE Path'
  BY <1>16 DEF Nominated, PeerAfter, TakesNomination
<1>17. ASSUME NEW d \in udp_in, ResponseFails(d) PROVE Path'
  BY <1>17 DEF ResponseFails, Fail, FinallyOf
<1>18. ASSUME NEW d \in udp_in, KcpArrives(d) PROVE Path'
  <2>1. [kind |-> "startup", path |-> d.path] \in udp_out
    BY <1>18 DEF KcpArrives
  <2>2. peer = d.path
    BY <2>1
  <2>3. Sends("ack")
    BY <1>18, <2>2 DEF KcpArrives, Output, Sends, Fail, FinallyOf
  <2>4. /\ udp_out # {} /\ startup_sent /\ udp_out \subseteq udp_out'
        /\ (rtc_mode = "preconnect" => "active" \in camera_sent)
        /\ [kind |-> "nominate", path |-> peer] \in udp_in
        /\ UNCHANGED <<peer, udp_in, camera_sent, rtc_mode>>
    BY <1>18, <2>1, <2>3 DEF KcpArrives, Sends
  <2>5. \A o \in udp_out' : o.path = peer
    BY <2>3 DEF Sends
  <2>6. \A e \in udp_in' : e.kind = "kcp" => [kind |-> "startup", path |-> e.path] \in udp_out'
    BY <2>4
  <2> QED BY <2>3, <2>4, <2>5, <2>6 DEF Sends
<1>19. CASE Register
  BY <1>19 DEF Register, Registered
<1>20. CASE BuildMedia
  BY <1>20 DEF BuildMedia, Fail, FinallyOf
<1>21. CASE EnterLoop
  BY <1>21 DEF EnterLoop
<1> QED
  BY <1>1, <1>2, <1>3, <1>4, <1>5, <1>6, <1>7, <1>8, <1>9, <1>10,
      <1>11, <1>12, <1>13, <1>14, <1>15, <1>16, <1>17, <1>18, <1>19, <1>20,
      <1>21, Cases

\* What is read of the TCP stream is what was at its front.
LEMMA Reads ==
  ASSUME TypeOK, \/ \E f \in Frames : ReadFrame(f)
                 \/ ReadTimesOut \/ ReadGarbage \/ ReadEof \/ UNCHANGED inbound
  PROVE  /\ inbound' \in Seq(Pieces)
         /\ \A i \in 1..Len(inbound') : \E j \in 1..Len(inbound) : inbound'[i] = inbound[j]
<1> USE DEF TypeOK
<1> inbound \in Seq(Pieces)
  BY DEF Pieces
<1>1. ASSUME NEW k \in {1, 2, 3}, Len(inbound) >= k - 1,
             inbound' = SubSeq(inbound, k, Len(inbound))
      PROVE  /\ inbound' \in Seq(Pieces)
             /\ \A i \in 1..Len(inbound') : \E j \in 1..Len(inbound) : inbound'[i] = inbound[j]
  <2>1. \A i \in k..Len(inbound) : inbound[i] \in Pieces
    OBVIOUS
  <2>2. /\ inbound' \in Seq(Pieces)
        /\ Len(inbound') = Len(inbound) - k + 1
        /\ \A i \in 1..(Len(inbound) - k + 1) : inbound'[i] = inbound[k + i - 1]
    BY <1>1, <2>1, SubSeqProperties
  <2> QED BY <2>2
<1>2. CASE \E f \in Frames : ReadFrame(f)
  <2>1. PICK k \in {2, 3} : /\ Len(inbound) >= k - 1
                            /\ inbound' = SubSeq(inbound, k, Len(inbound))
    BY <1>2 DEF ReadFrame, HasFrame
  <2> QED BY <1>1, <2>1
<1>3. CASE ReadTimesOut
  BY <1>3 DEF ReadTimesOut
<1>4. CASE ReadGarbage
  <2>1. inbound' = SubSeq(inbound, 2, Len(inbound)) /\ Len(inbound) >= 1
    BY <1>4, TailIsSubSeq DEF ReadGarbage
  <2> QED BY <1>1, <2>1
<1>5. CASE ReadEof \/ UNCHANGED inbound
  BY <1>5 DEF ReadEof
<1> QED BY <1>2, <1>3, <1>4, <1>5

\* What the TCP stream may have become.
LEMMA Stands ==
  ASSUME TypeOK, [Next]_vars
  PROVE  /\ owed' \in Frames \cup {"none"} /\ inbound' \in Seq(Pieces)
         /\ \/ /\ UNCHANGED <<owed, camera_sent>>
               /\ \A i \in 1..Len(inbound') : \E j \in 1..Len(inbound) : inbound'[i] = inbound[j]
            \/ /\ camera_sent \subseteq camera_sent'
               /\ owed' = "none" \/ owed' \in camera_sent'
               /\ \E p \in Pieces : /\ inbound' = Append(inbound, p)
                                    /\ p.frame \in camera_sent' \/ p.frame = owed
                                    /\ p.frame # "none"
<1> USE DEF TypeOK
<1>1. CASE /\ UNCHANGED <<owed, camera_sent>>
           /\ \/ \E f \in Frames : ReadFrame(f)
              \/ ReadTimesOut \/ ReadGarbage \/ ReadEof \/ UNCHANGED inbound
  BY <1>1, Reads
<1>2. ASSUME NEW f \in Frames, CameraSends(f)
      PROVE  /\ owed' \in Frames \cup {"none"} /\ inbound' \in Seq(Pieces)
             /\ camera_sent \subseteq camera_sent' /\ (owed' = "none" \/ owed' \in camera_sent')
             /\ \E p \in Pieces : inbound' = Append(inbound, p) /\ p.frame \in camera_sent'
                                  /\ p.frame # "none"
  <2>1. PICK p \in Pieces : inbound' = Append(inbound, p) /\ p.frame = f
    BY <1>2 DEF CameraSends, Pieces
  <2>2. inbound' \in Seq(Pieces)
    BY <2>1 DEF Pieces
  <2> QED BY <1>2, <2>1, <2>2 DEF CameraSends, Frames
<1>3. CASE TailArrives
  <2>1. PICK p \in Pieces : inbound' = Append(inbound, p) /\ p.frame = owed
    BY <1>3 DEF TailArrives, Pieces
  <2>2. inbound' \in Seq(Pieces)
    BY <2>1 DEF Pieces
  <2> QED BY <1>3, <2>1, <2>2 DEF TailArrives
<1>4. CASE NegotiateKey \/ DpQuery
  BY <1>1, <1>4 DEF NegotiateKey, DpQuery, Expect, Transmit, Frames, world, camera
<1>5. CASE Heartbeat
  BY <1>1, <1>5 DEF Heartbeat, Transmit, world, camera
<1>6. CASE Candidate \/ Offer
  BY <1>1, <1>6 DEF Candidate, Offer, Transmit, world, camera
<1>7. CASE Pump \/ ActivateWait \/ DisconnectWait
  BY <1>1, <1>7 DEF Pump, ActivateWait, DisconnectWait, world, camera
<1>8. CASE \/ Open \/ Register \/ MarkStarted \/ PumpEnds \/ IceCheck \/ BuildMedia
           \/ EnterLoop \/ SeeStop \/ Activate \/ Preview \/ MediaClose \/ Disconnect
           \/ DatagramStep \/ Interrupt \/ Stop \/ HangUp
           \/ (\E d \in Datagrams : CameraDatagram(d)) \/ UNCHANGED vars
  BY <1>1, <1>8 DEF Open, Register, MarkStarted, PumpEnds, IceCheck, BuildMedia, EnterLoop,
     SeeStop, Activate, Preview, MediaClose, Disconnect, DatagramStep, Nominated, ResponseFails,
     KcpArrives, Interrupt, Stop, HangUp, CameraDatagram, vars, world, camera
<1>9. CASE Unwind
  <2>1. inbound' \in {<<>>, inbound} /\ UNCHANGED <<owed, camera_sent>>
    BY <1>9 DEF Unwind, Release, world, camera
  <2>2. /\ inbound' \in Seq(Pieces)
        /\ \A i \in 1..Len(inbound') : \E j \in 1..Len(inbound) : inbound'[i] = inbound[j]
    <3>1. inbound \in Seq(Pieces)
      BY DEF Pieces
    <3>2. CASE inbound' = inbound
      BY <3>1, <3>2
    <3>3. CASE inbound' = <<>>
      BY <3>3
    <3> QED BY <2>1, <3>2, <3>3
  <2> QED BY <2>1, <2>2
<1> QED BY <1>2, <1>3, <1>4, <1>5, <1>6, <1>7, <1>8, <1>9 DEF Next, ThreadStep

\* Frames come from the camera, and the read of the activation has frames left.
LEMMA StreamStep ==
  ASSUME TypeOK, Stream, [Next]_vars
  PROVE  Stream'
<1>1. /\ \A i \in 1..Len(inbound') : inbound'[i].frame \in camera_sent'
      /\ owed' # "none" => owed' \in camera_sent'
  <2>1. CASE /\ UNCHANGED <<owed, camera_sent>>
             /\ \A i \in 1..Len(inbound') : \E j \in 1..Len(inbound) : inbound'[i] = inbound[j]
    BY <2>1 DEF Stream
  <2>2. ASSUME NEW p \in Pieces, inbound' = Append(inbound, p),
               camera_sent \subseteq camera_sent',
               p.frame \in camera_sent' \/ p.frame = owed, p.frame # "none",
               owed' = "none" \/ owed' \in camera_sent'
        PROVE  \A i \in 1..Len(inbound') : inbound'[i].frame \in camera_sent'
    BY <2>2 DEF Stream, TypeOK, Pieces
  <2> QED BY <2>1, <2>2, Stands
<1>2. (phase' = "activate_wait") => frames_left' >= 1
  <2> USE ModeAssumption DEF TypeOK, Stream, Exchanging, InLoop, Cleanup, Unwinding, signaling, udp,
          mode,
      camera, world
  <2>1. CASE Activate
    BY <2>1 DEF Activate, Fail, FinallyOf
  <2>2. CASE ActivateWait
    BY <2>2 DEF ActivateWait, Fail, FinallyOf, OutOfFrames
  <2>3. CASE Exchanges \/ Outside
    BY <2>3 DEF Exchanges, Outside
  <2>4. CASE Open \/ Register \/ Offer \/ MarkStarted \/ IceCheck \/ BuildMedia \/ EnterLoop
    BY <2>4 DEF Open, Register, Offer, Transmit, MarkStarted, IceCheck, BuildMedia, EnterLoop,
       Fail, FinallyOf
  <2>5. CASE SeeStop \/ Preview
    BY <2>5 DEF SeeStop, Preview, Output, Fail, FinallyOf
  <2>6. CASE MediaClose \/ Disconnect \/ DisconnectWait \/ Unwind \/ Interrupt
    BY <2>6 DEF MediaClose, Disconnect, DisconnectWait, Unwind, Release, Interrupt,
       InterruptedIn, FinallyOf
  <2>7. CASE DatagramStep
    BY <2>7 DEF DatagramStep, Nominated, ResponseFails, KcpArrives, Output, Fail, FinallyOf
  <2> QED BY <2>1, <2>2, <2>3, <2>4, <2>5, <2>6, <2>7, Cases DEF DatagramStep
<1> QED BY <1>1, <1>2 DEF Stream

Fields ==
  /\ protocol \in Protocols /\ rtc_mode \in RtcModes
  /\ phase \in {"open", "opened"} \cup Exchanging \cup InLoop \cup Final
  /\ open \cup owned \subseteq {"stun", "udp1", "udp2", "tcp", "media"}
  /\ outcome \in {"running", "failed", "stopped", "interrupted", "no_peer"}
  /\ {answer, host, session_started, disconnect_sent, startup_sent, hung_up, stop}
       \subseteq BOOLEAN
  /\ frames_left \in 0..LifecycleFrames
  /\ peer \in Paths \cup {NoPeer}
  /\ to_camera \subseteq {"key_start", "dp_query", "heartbeat", "offer", "candidate1",
                          "candidate2", "activate", "disconnect"}
  /\ disconnects \in Nat
  /\ camera_sent \subseteq Frames /\ udp_in \subseteq Datagrams
  /\ udp_out \subseteq [kind : {"startup", "ack"}, path : Paths]
  /\ interrupts \in Nat /\ splits \in Nat

\* The types of what a step changes, but for the TCP stream.
LEMMA FieldsStep ==
  ASSUME TypeOK, Holds, Stream, Path, [Next]_vars
  PROVE  Fields'
<1> USE ModeAssumption DEF TypeOK, Fields, Paths, NoPeer, Datagrams, Exchanging,
      InLoop, Early, Final, Cleanup,
      Unwinding, resources, signaling, udp, mode, camera, world
<1>1. CASE Exchanges
  BY <1>1 DEF Exchanges
<1>2. CASE Outside
  BY <1>2 DEF Outside
<1>3. CASE Open
  <2>1. Cardinality(open) + 1 \in 1..4
    BY <1>3, OpenedSoFar DEF Open
  <2>2. Opening[Cardinality(open) + 1] \in {"stun", "udp1", "udp2", "tcp"}
    BY <2>1 DEF Opening
  <2>3. /\ open' \in {open, open \cup {Opening[Cardinality(open) + 1]}}
        /\ phase' \in {"opened", "tcp_close"} /\ outcome' \in {outcome, "failed"}
        /\ UNCHANGED <<owned, signaling, frames_left, udp, to_camera, disconnects, world, udp_out>>
    BY <1>3 DEF Open, Fail, FinallyOf
  <2> QED BY <2>2, <2>3
<1>4. CASE Offer
  BY <1>4 DEF Offer, Transmit, Fail, FinallyOf
<1>5. CASE MarkStarted
  BY <1>5 DEF MarkStarted
<1>6. CASE IceCheck
  BY <1>6 DEF IceCheck, Fail, FinallyOf
<1>7. CASE SeeStop
  BY <1>7 DEF SeeStop, FinallyOf
<1>8. CASE Activate
  <2>1. /\ \/ phase' = "activate_wait" /\ outcome' = outcome
           \/ phase' = "media_close" /\ outcome' = "failed"
        /\ frames_left' \in {frames_left, LifecycleFrames}
        /\ to_camera' \in {to_camera, to_camera \cup {"activate"}}
        /\ UNCHANGED <<resources, signaling, udp, disconnects, world, udp_out>>
    BY <1>8 DEF Activate, Fail, FinallyOf
  <2>2. frames_left' \in 0..LifecycleFrames
    BY <2>1
  <2> QED BY <2>1, <2>2
<1>9. CASE ActivateWait
  <2>1. /\ \/ phase' \in {"activate_wait", "preview"} /\ outcome' = outcome
           \/ phase' = "media_close" /\ outcome' = "failed"
        /\ frames_left' \in {frames_left, frames_left - 1}
        /\ phase = "activate_wait"
        /\ UNCHANGED <<resources, signaling, udp, to_camera, disconnects, world, udp_out>>
    BY <1>9 DEF ActivateWait, Fail, FinallyOf, Accepted
  <2>2. frames_left' \in 0..LifecycleFrames
    BY <2>1 DEF Stream
  <2> QED BY <2>1, <2>2
<1>10. CASE Preview
  <2>1. /\ peer \in Paths /\ Sends("startup")
        /\ UNCHANGED <<resources, signaling, frames_left, peer, to_camera, disconnects, world>>
    BY <1>10 DEF Preview, Output, Sends, Fail, FinallyOf, Path
  <2>2. udp_out' \subseteq [kind : {"startup", "ack"}, path : Paths]
    BY <2>1 DEF Sends
  <2>3. /\ phase' \in {"loop", "media_close"} /\ outcome' \in {outcome, "failed"}
        /\ startup_sent' \in BOOLEAN
    BY <2>1 DEF Sends
  <2> QED BY <2>1, <2>2, <2>3
<1>11. CASE MediaClose
  BY <1>11 DEF MediaClose
<1>12. CASE Disconnect
  <2>1. /\ phase' \in {"tcp_close", "disconnect_wait"} /\ disconnect_sent' \in BOOLEAN
        /\ disconnects' \in {disconnects, disconnects + 1}
        /\ to_camera' \in {to_camera, to_camera \cup {"disconnect"}}
        /\ UNCHANGED <<resources, outcome, answer, host, session_started, frames_left, udp,
                       world, udp_out>>
    BY <1>12 DEF Disconnect
  <2>2. disconnects' \in Nat
    BY <2>1
  <2> QED BY <2>1, <2>2
<1>13. CASE DisconnectWait
  BY <1>13 DEF DisconnectWait
<1>14. CASE Unwind
  BY <1>14 DEF Unwind, Release
<1>15. CASE Interrupt
  BY <1>15 DEF Interrupt, InterruptedIn, FinallyOf
<1>16. ASSUME NEW d \in udp_in, Nominated(d) PROVE Fields'
  BY <1>16 DEF Nominated, PeerAfter, TakesNomination
<1>17. ASSUME NEW d \in udp_in, ResponseFails(d) PROVE Fields'
  BY <1>17 DEF ResponseFails, Fail, FinallyOf
<1>18. ASSUME NEW d \in udp_in, KcpArrives(d) PROVE Fields'
  BY <1>18 DEF KcpArrives, Output, Fail, FinallyOf
<1>19. CASE Register
  BY <1>19 DEF Register, Registered
<1>20. CASE BuildMedia
  BY <1>20 DEF BuildMedia, Fail, FinallyOf
<1>21. CASE EnterLoop
  BY <1>21 DEF EnterLoop
<1> QED
  BY <1>1, <1>2, <1>3, <1>4, <1>5, <1>6, <1>7, <1>8, <1>9, <1>10,
      <1>11, <1>12, <1>13, <1>14, <1>15, <1>16, <1>17, <1>18, <1>19, <1>20,
      <1>21, Cases

\* Every step is one of the contract, or changes nothing it speaks of.
LEMMA ContractSteps ==
  ASSUME TypeOK, Holds, [Next]_vars
  PROVE  [Contract!Next]_(Contract!vars)
<1> USE ModeAssumption DEF TypeOK, Holds, Opens, Ours, Stage, Exchanging, InLoop, Early, Final,
        Cleanup,
      Unwinding, resources, signaling,
      udp, mode, camera, world, Contract!vars, Contract!Next, Contract!Attach,
      Contract!GiveUp, Contract!Leave, Contract!End, Contract!Stop
<1>1. CASE Exchanges
  BY <1>1 DEF Exchanges
<1>2. CASE Outside
  <2>1. CASE stop' = stop
    BY <1>2, <2>1 DEF Outside
  <2>2. CASE ~stop /\ stop'
    BY <1>2, <2>2 DEF Outside
  <2> QED BY <1>2, <2>1, <2>2 DEF Outside
<1>3. CASE Open
  <2>1. Opening[Cardinality(open) + 1] \in {"stun", "udp1", "udp2", "tcp"}
    BY <1>3, OpenedSoFar DEF Open, Opening
  <2>2. /\ open' \in {open, open \cup {Opening[Cardinality(open) + 1]}}
        /\ phase = "open" /\ phase' \in {"opened", "tcp_close"}
        /\ stop' = stop /\ owned' = owned
    BY <1>3 DEF Open, Fail, FinallyOf
  <2> QED BY <2>1, <2>2
<1>4. CASE Offer
  BY <1>4 DEF Offer, Transmit, Fail, FinallyOf
<1>5. CASE MarkStarted
  BY <1>5 DEF MarkStarted
<1>6. CASE IceCheck
  BY <1>6 DEF IceCheck, Fail, FinallyOf
<1>7. CASE SeeStop
  BY <1>7 DEF SeeStop, FinallyOf
<1>8. CASE Activate
  BY <1>8 DEF Activate, Fail, FinallyOf
<1>9. CASE ActivateWait
  BY <1>9 DEF ActivateWait, Fail, FinallyOf, Accepted, OutOfFrames
<1>10. CASE Preview
  BY <1>10 DEF Preview, Output, Fail, FinallyOf
<1>11. CASE MediaClose
  BY <1>11 DEF MediaClose
<1>12. CASE Disconnect
  BY <1>12 DEF Disconnect
<1>13. CASE DisconnectWait
  BY <1>13 DEF DisconnectWait
<1>14. CASE Unwind
  BY <1>14 DEF Unwind, Release
<1>15. CASE Interrupt
  <2>1. MaxInterrupts > 0
    BY <1>15, OdditiesCounted DEF Interrupt
  <2> QED BY <1>15, <2>1 DEF Interrupt, InterruptedIn, FinallyOf
<1>16. ASSUME NEW d \in udp_in, Nominated(d) PROVE [Contract!Next]_(Contract!vars)
  BY <1>16 DEF Nominated, PeerAfter, TakesNomination
<1>17. ASSUME NEW d \in udp_in, ResponseFails(d) PROVE [Contract!Next]_(Contract!vars)
  BY <1>17 DEF ResponseFails, Fail, FinallyOf
<1>18. ASSUME NEW d \in udp_in, KcpArrives(d) PROVE [Contract!Next]_(Contract!vars)
  BY <1>18 DEF KcpArrives, Output, Fail, FinallyOf
<1>19. CASE Register
  BY <1>19 DEF Register, Registered
<1>20. CASE BuildMedia
  BY <1>20 DEF BuildMedia, Fail, FinallyOf
<1>21. CASE EnterLoop
  BY <1>21 DEF EnterLoop
<1> QED
  BY <1>1, <1>2, <1>3, <1>4, <1>5, <1>6, <1>7, <1>8, <1>9, <1>10,
      <1>11, <1>12, <1>13, <1>14, <1>15, <1>16, <1>17, <1>18, <1>19, <1>20,
      <1>21, Cases

LEMMA TypesStep ==
  ASSUME TypeOK, Holds, Stream, Path, [Next]_vars
  PROVE  TypeOK'
<1>1. Fields
  BY DEF TypeOK, Fields, Final
<1> QED BY <1>1, FieldsStep, Stands DEF Fields, TypeOK, Final, Pieces

LEMMA Starts == Init => IInv
<1> SUFFICES ASSUME Init PROVE IInv
  OBVIOUS
<1>1. TypeOK
  <2>1. inbound \in Seq([frame : Frames, part : {"whole", "head", "tail"}])
    BY DEF Init
  <2>2. /\ frames_left \in 0..LifecycleFrames /\ disconnects \in Nat
        /\ interrupts \in Nat /\ splits \in Nat
    BY ModeAssumption DEF Init
  <2> QED BY <2>1, <2>2 DEF Init, TypeOK
<1>2. Ends /\ Holds /\ Told
  BY DEF Init, Ends, Holds, Opens, Told, StartedIsDisconnected, Early, Exchanging, Final,
     Cleanup, Unwinding, InLoop
<1>3. Stream /\ Path
  BY DEF Init, Stream, Path
<1> QED BY <1>1, <1>2, <1>3 DEF IInv

----------------------------------------------------------------------------
\* The inductive invariant of CameraSession.
THEOREM SessionInvariant == Spec => []IInv
<1>1. IInv /\ [Next]_vars => IInv'
  BY TypesStep, EndsStep, HoldsStep, ToldStep, StreamStep, PathStep DEF IInv
<1> QED BY Starts, <1>1, PTL DEF Spec

\* The fields have their types; activation never reads more than its frames.
THEOREM SessionTyped == Spec => []TypeOK
<1>1. IInv => TypeOK
  BY DEF IInv
<1> QED BY <1>1, SessionInvariant, PTL

\* All Mode 3 traffic of a session uses one socket and one address, and there is
\* a peer whenever a channel has something to send.
THEOREM TrafficHasOnePath == Spec => []OnePath
<1>1. IInv => OnePath
  BY DEF IInv, Path, OnePath
<1> QED BY <1>1, SessionInvariant, PTL

\* The preview is started where the camera nominated a path, and in preconnect
\* mode after it has activated the session.
THEOREM CameraAgreesToPreview == Spec => []PreviewNeedsCamera
<1>1. IInv => PreviewNeedsCamera
  <2> SUFFICES ASSUME IInv, NEW o \in udp_out
               PROVE  /\ [kind |-> "nominate", path |-> o.path] \in udp_in
                      /\ rtc_mode = "preconnect" => "active" \in camera_sent
    BY DEF PreviewNeedsCamera
  <2>1. o.path = peer /\ o.path \in Paths
    BY DEF IInv, Path, TypeOK
  <2>2. peer # NoPeer
    BY <2>1 DEF Paths, NoPeer
  <2> QED BY <2>1, <2>2 DEF IInv, Path
<1> QED BY <1>1, SessionInvariant, PTL

\* A camera that was sent an offer gets one disconnect, unless it hung up or
\* Ctrl+C cut the cleanup short.
THEOREM CameraIsTold == Spec => []StartedIsDisconnected
<1>1. IInv => StartedIsDisconnected
  BY DEF IInv, Told
<1> QED BY <1>1, SessionInvariant, PTL

\* Whatever ends a session, at whatever statement, what a block has taken on is
\* released, and what none has is one resource at most.
THEOREM EverythingOwnedClosed == Spec => []OwnedIsReleased
<1>1. IInv => OwnedIsReleased
  <2> SUFFICES ASSUME IInv, phase = "done"
               PROVE  /\ CleanupUndisturbed => open \cap owned = {}
                      /\ \A r1, r2 \in open \ owned : r1 = r2
                      /\ open \ owned # {}
                           => outcome \in {"failed", "interrupted"} /\ "media" \notin owned
    BY DEF OwnedIsReleased
  <2>1. open \subseteq {"stun", "udp1", "udp2", "tcp", "media"}
    BY DEF IInv, TypeOK
  <2> QED BY <2>1 DEF IInv, Holds, Final, Cleanup
<1> QED BY <1>1, SessionInvariant, PTL

\* A session does what its contract says, as far as safety goes: CameraService
\* may stand on the contract in its place.
THEOREM SessionRefinesContract == Spec => Contract!Spec
<1>1. Init => Contract!Init
  BY DEF Init, Contract!Init, Stage, Exchanging, InLoop
<1>2. IInv /\ [Next]_vars => [Contract!Next]_(Contract!vars)
  BY ContractSteps DEF IInv
<1> QED BY <1>1, <1>2, SessionInvariant, PTL DEF Spec, Contract!Spec
==============================================================================
