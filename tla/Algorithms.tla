------------------------------ MODULE Algorithms ------------------------------
(***************************************************************************)
(* The algorithms of RtpTrack, StunMessage and ServeConfig, each with who  *)
(* reads what it makes.  A behaviour is one of a track and its client, one *)
(* exchange of STUN messages, or one config that is built and published.   *)
(***************************************************************************)
EXTENDS RtpTrack, StunMessage, ServeConfig, FiniteSets

CONSTANTS
  StunInputs,   \* bound: who sends a message, of what, and is answered from where
  ConfigInputs  \* bound: the raw cameras of a config, and selectors

\* a user fragment of ICE has 256 characters at most
ASSUME InputAssumption ==
  /\ \A i \in StunInputs :
       /\ i.algorithm = "stun" /\ i.from \in {"client", "camera", "nominating", "error"}
       /\ i.txid \in Seq(Octet) /\ Len(i.txid) = 12
       /\ i.remote \in Seq(Octet) /\ Len(i.remote) <= 256
       /\ i.local \in Seq(Octet) /\ Len(i.local) <= 256
       /\ i.ip \in Seq(Octet) /\ Len(i.ip) = 4 /\ i.port \in Ports
  /\ \A i \in ConfigInputs :
       /\ i.algorithm = "config"
       /\ i.raws \in Seq(RawCamera) /\ i.selectors \in Seq(STRING)

VARIABLES
  in,         \* the input, a record with the algorithm's name
  out         \* what was computed, <<>> before

vars == <<rtp, in, out>>

----------------------------------------------------------------------------
\* StunMessage: a message, the client's or the camera's, and the client's answer

Name(i) == i.remote \o <<58>> \o i.local
Message(i) ==
  CASE i.from = "client" -> MakeStunBindingRequest(i.txid, i.remote, i.local, i.key)
    [] i.from = "error"  -> CameraError(i.txid, 487, i.local, i.key)
    [] OTHER             -> CameraRequest(i.txid, Name(i), i.from = "nominating", i.key)

Exchange ==
  /\ in.algorithm = "stun" /\ out = <<>>
  /\ out' = <<Message(in), StunSuccess(Message(in), in.ip, in.port, in.key)>>
  /\ UNCHANGED <<rtp, in>>

----------------------------------------------------------------------------
\* ServeConfig: a config and what the command line asks for, by names and ids

Build ==
  /\ in.algorithm = "config" /\ out = <<>>
  /\ LoadConfig(in.raws) # Raised
  /\ out' = BuildServeCameras(LoadConfig(in.raws), in.selectors)
  /\ UNCHANGED <<rtp, in>>

----------------------------------------------------------------------------
Init ==
  /\ out = <<>>
  /\ \/ /\ in = [algorithm |-> "rtp"]
        /\ \E of \in {"video", "audio"}, clock_rate \in ClockRates,
              sequence \in FirstSequences, base_timestamp \in BaseTimestamps :
             RtpInit(of, clock_rate, sequence, base_timestamp)
     \/ in \in StunInputs \cup ConfigInputs /\ RtpInit("none", 0, 0, 0)

Next ==
  \/ RtpNext /\ UNCHANGED <<in, out>>
  \/ Exchange
  \/ Build

Spec == Init /\ [][Next]_vars

----------------------------------------------------------------------------
\* Properties; TracksAreReadable is RtpTrack's

Expected(i) ==
  CASE i.from = "error"  -> [type |-> "STUN_ERROR", error_code |-> 487]
    [] OTHER -> [type |-> "BINDING_REQUEST", use_candidate |-> i.from = "nominating"]

\* frg and wnd have the bytes that follow the cookie's first; ts, sn and una
KcpFields == <<18, 164, 66, 232, 3, 0, 0, 7, 0, 0, 0, 6, 0, 0, 0>>

KcpDatagram(cmd, payload) ==
  <<2, 0, 0, 0, cmd>> \o KcpFields \o <<Len(payload) % 256, Len(payload) \div 256, 0, 0>>
    \o payload \o Zeros(20)

\* Whatever the lengths of user names and reasons, the peer of a message finds
\* its length right and the digests where it looks for them; the camera reads
\* the user name and whoever asked its own address back, an error is not
\* answered, a nomination is seen, and no datagram cut short, nor one of KCP, is
\* taken for a STUN message.
PeersAgree ==
  (in.algorithm = "stun" /\ out # <<>>) =>
    LET message == out[1]
        answer  == out[2]
        seen    == Attribute(ParseStun(answer), XorMappedAddress).value
    IN  /\ Authentic(message, in.key) /\ Event(message) = Expected(in)
        /\ IF in.from = "error" THEN answer = <<>>
           ELSE /\ Attribute(ParseStun(message), Username).value = Name(in)
                /\ Authentic(answer, in.key) /\ Event(answer) = [type |-> "BINDING_SUCCESS"]
                /\ Slice(answer, 8, 20) = in.txid
                /\ At16(Mapped(Slice(seen, 2, 4)), 0) = in.port
                /\ Mapped(Slice(seen, 4, 8)) = in.ip
        /\ \A m \in 1..2 : \A len \in 0..(Len(out[m]) - 1) :
             Event(Slice(out[m], 0, len)).type \in {"INVALID", "NON_STUN"}
        /\ \A cmd \in 81..84 : Event(KcpDatagram(cmd, in.local)).type = "KCP"

\* A config that is accepted can be served: no publication is refused, the
\* manager's tasks, by device id, are as many as its cameras, none is disabled
\* or starts in a mode its protocol does not have; each selector stands for one
\* camera, which the command for a single one would run alike; and the config
\* flow accepts what the manager will run.
AcceptedIsServed ==
  (in.algorithm = "config" /\ out # <<>>) =>
    LET config    == LoadConfig(in.raws)
        published == PublishAll(out)
        cameras   == {out[i].camera : i \in DOMAIN out}
    IN  /\ ~published.refused /\ Cardinality(published.paths) = Len(out)
        /\ Cardinality({c.device_id : c \in cameras}) = Len(out)
        /\ \A c \in cameras :
             /\ c.rtc_mode = "direct" \/ c.lan_protocol = "3.4"
             /\ \E i \in DOMAIN config : config[i].id = c.device_id /\ config[i].enabled
        /\ IF in.selectors = <<>> THEN ValidateConfigFile(in.raws)
           ELSE /\ Len(out) = Len(in.selectors)
                /\ \A i \in DOMAIN out :
                     RunOne(config, in.selectors[i], "none") = <<out[i].camera>>
=============================================================================
