------------------------------- MODULE RtpTrack ------------------------------
(***************************************************************************)
(* _RtpTrack (nexxt/rtsp.py): the RTP packets made of a track's chunks,    *)
(* and their way over UDP, which loses some, to a client.  NAL units and   *)
(* payloads are sequences of bytes; of the header the version, the payload *)
(* type and the ssrc, which never change, are left out.  base_ns, unset    *)
(* until the first chunk, is negative here.                                *)
(***************************************************************************)
EXTENDS Integers, Sequences

CONSTANTS
  Mtu,            \* mtu of hevc() and pcm(): 1200
  SequenceMod,    \* sequence numbers: 2^16
  TsMod,          \* RTP timestamps: 2^32
  Second,         \* timestamp_ns of one second: 10^9
  ClockRates,     \* bound: the clock rates of tracks
  FirstSequences, \* bound: their first sequence numbers
  BaseTimestamps, \* bound: their first timestamps
  Nals,           \* bound: the camera's NAL units
  PcmChunks,      \* bound: its chunks of PCM
  ChunkTimes,     \* bound: the timestamp_ns of its chunks
  MaxChunks,      \* bound: the chunks sent on a track
  MaxMissed       \* bound: the packets lost in a row

Byte == 0..255
NalType(nal) == (nal[1] \div 2) % 64

\* types of NAL units from 48 on are not HEVC's but RTP's own
ASSUME RtpAssumption ==
  /\ Mtu \in Nat /\ Mtu > 3 /\ SequenceMod \in Nat \ {0} /\ TsMod \in Nat \ {0} /\ Second \in Nat \ {0}
  /\ ClockRates \subseteq Nat /\ ChunkTimes \subseteq Nat
  /\ FirstSequences \subseteq 0..(SequenceMod - 1) /\ BaseTimestamps \subseteq 0..(TsMod - 1)
  /\ \A nal \in Nals : nal \in Seq(Byte) /\ nal # <<>> /\ NalType(nal) \in 0..47
  /\ \A data \in PcmChunks : data \in Seq(Byte)
  /\ MaxChunks \in Nat /\ MaxMissed \in Nat /\ MaxMissed < SequenceMod

VARIABLES
  media,    \* what the track carries: "video", "audio", or "none"
  track,    \* the _RtpTrack
  wire,     \* the packets of the last chunk that are under way
  client,   \* its depayloader
  missed,   \* packets lost since one arrived
  sent,     \* ghost: the chunks sent
  start,    \* ghost: the first sequence number
  passed,   \* ghost: the packets that arrived or were lost
  chunk,    \* ghost: the last chunk
  intact,   \* ghost: none of its packets was lost
  whole,    \* ghost: the NAL units of which no packet was lost
  said,     \* ghost: the samples of the chunks sent
  heard     \* ghost: the samples of the packets that arrived or were lost

rtp == <<media, track, wire, client, missed, sent, start, passed, chunk, intact, whole, said, heard>>

NewTrack(clock_rate, sequence, base_timestamp) ==
  [clock_rate |-> clock_rate, sequence |-> sequence, base_ns |-> -1,
   base_timestamp |-> base_timestamp, audio_timestamp |-> base_timestamp]

Based(t, timestamp_ns) ==
  IF t.base_ns < 0 THEN [t EXCEPT !.base_ns = timestamp_ns] ELSE t

\* timestamp(), of a track that is based
Timestamp(t, timestamp_ns) ==
  (t.base_timestamp + ((timestamp_ns - t.base_ns) * t.clock_rate) \div Second) % TsMod

\* n calls of packet(): the track afterwards, and the header of the i-th
Advanced(t, n) == [t EXCEPT !.sequence = (@ + n) % SequenceMod]
Packet(t, i, payload, timestamp, marker) ==
  [sequence |-> (t.sequence + i - 1) % SequenceMod, payload |-> payload,
   timestamp |-> timestamp, marker |-> marker]

\* s[pos : pos + size] for every pos from 0 in steps of size
Count(len, size) == (len + size - 1) \div size
Upper(len, size, i) == IF i * size < len THEN i * size ELSE len
Slices(s, size) ==
  [i \in 1..Count(Len(s), size) |-> SubSeq(s, (i - 1) * size + 1, Upper(Len(s), size, i))]

Body(nal) == SubSeq(nal, 3, Len(nal))
Room == Mtu - 3
Parts(nal) == Slices(Body(nal), Room)

\* the two bytes of the NAL header with type 49, and the third with S and E
Indicator(nal) == <<128 * (nal[1] \div 128) + 2 * 49 + (nal[1] % 2), nal[2]>>
FuHeaderOpen(nal, i, n) ==
  NalType(nal) + (IF i = 1 THEN 128 ELSE 0) + (IF i = n + 1 THEN 64 ELSE 0)
FuHeader(nal, i, n) ==
  NalType(nal) + (IF i = 1 THEN 128 ELSE 0) + (IF i = n THEN 64 ELSE 0)

\* hevc(): the payloads
Payloads(nal) ==
  IF Len(nal) < 2 THEN <<>>
  ELSE IF Len(nal) <= Mtu THEN <<nal>>
  ELSE [i \in DOMAIN Parts(nal) |->
          Indicator(nal) \o <<FuHeader(nal, i, Len(Parts(nal)))>> \o Parts(nal)[i]]

\* hevc() of a track that is based: the packets
Hevc(t, nal, timestamp_ns) ==
  LET n == Len(Payloads(nal))
  IN  [i \in 1..n |-> Packet(t, i, Payloads(nal)[i], Timestamp(t, timestamp_ns),
                             NalType(nal) < 32 /\ i = n)]

\* pcm(): the samples in network order, cut at an even number of bytes
Even(n) == n - (n % 2)
Samples(bytes) == bytes \div 2
Network(data) ==
  [i \in 1..Even(Len(data)) |-> IF i % 2 = 1 THEN data[i + 1] ELSE data[i - 1]]
PcmPayloads(data) == Slices(Network(data), Even(Mtu))

\* pcm(): the packets
Pcm(t, data) ==
  [i \in 1..Len(PcmPayloads(data)) |->
     Packet(t, i, PcmPayloads(data)[i],
            (t.audio_timestamp + Samples((i - 1) * Even(Mtu))) % TsMod, FALSE)]

----------------------------------------------------------------------------
(***************************************************************************)
(* The client's depayloader for HEVC over RTP: a fragmentation unit starts *)
(* with S, goes on with the next sequence number and ends with E.          *)
(***************************************************************************)
Depayloader == [expected |-> -1, fu |-> <<>>, nals |-> <<>>]

Opened(payload) ==
  <<128 * (payload[1] \div 128) + 2 * (payload[3] % 64) + (payload[1] % 2), payload[2]>>

Depayload(r, p) ==
  LET first == p.payload[3] \div 128 = 1
      last  == (p.payload[3] \div 64) % 2 = 1
      rest  == SubSeq(p.payload, 4, Len(p.payload))
      fu    == IF first THEN Opened(p.payload) \o rest
               ELSE IF r.fu # <<>> /\ p.sequence = r.expected THEN r.fu \o rest
               ELSE <<>>
      alone == NalType(p.payload) # 49
  IN  [expected |-> (p.sequence + 1) % SequenceMod,
       fu   |-> IF alone \/ last THEN <<>> ELSE fu,
       nals |-> IF alone THEN Append(r.nals, p.payload)
                ELSE IF last /\ fu # <<>> THEN Append(r.nals, fu) ELSE r.nals]

----------------------------------------------------------------------------
RtpInit(of, clock_rate, sequence, base_timestamp) ==
  /\ media = of /\ track = NewTrack(clock_rate, sequence, base_timestamp)
  /\ wire = <<>> /\ client = Depayloader /\ missed = 0
  /\ sent = 0 /\ start = sequence /\ passed = 0 /\ chunk = <<>> /\ intact = TRUE
  /\ whole = <<>> /\ said = <<>> /\ heard = <<>>

\* the packets are made and sent; as UDP keeps their order here, it is enough
\* to look at those of one chunk at a time
Send(data, packets) ==
  /\ wire = <<>> /\ wire' = packets
  /\ sent < MaxChunks /\ sent' = sent + 1
  /\ chunk' = data /\ intact' = TRUE
  /\ UNCHANGED <<media, client, missed, start, passed, whole, heard>>

SendVideo(nal, timestamp_ns) ==
  LET based   == Based(track, timestamp_ns)
      packets == Hevc(based, nal, timestamp_ns)
  IN  /\ media = "video"
      /\ Send(nal, packets)
      /\ track' = IF packets = <<>> THEN track ELSE Advanced(based, Len(packets))
      /\ UNCHANGED said

SendAudio(data) ==
  /\ media = "audio"
  /\ Send(data, Pcm(track, data))
  /\ track' = [Advanced(track, Len(PcmPayloads(data))) EXCEPT
                 !.audio_timestamp = (@ + Samples(Even(Len(data)))) % TsMod]
  /\ said' = said \o SubSeq(data, 1, Even(Len(data)))

Pass ==
  /\ wire # <<>> /\ wire' = Tail(wire) /\ passed' = passed + 1
  /\ heard' = IF media = "audio" THEN heard \o Network(wire[1].payload) ELSE heard
  /\ UNCHANGED <<media, track, sent, start, chunk, said>>

Arrive ==
  /\ Pass /\ missed' = 0
  /\ client' = IF media = "video" THEN Depayload(client, wire[1]) ELSE client
  /\ whole' = IF media = "video" /\ intact /\ Len(wire) = 1 THEN Append(whole, chunk) ELSE whole
  /\ UNCHANGED intact

\* by UDP
Lose ==
  /\ Pass /\ missed < MaxMissed /\ missed' = missed + 1 /\ intact' = FALSE
  /\ UNCHANGED <<client, whole>>

RtpNext ==
  \/ \E nal \in Nals, timestamp_ns \in ChunkTimes : SendVideo(nal, timestamp_ns)
  \/ \E data \in PcmChunks : SendAudio(data)
  \/ Arrive
  \/ Lose

----------------------------------------------------------------------------
\* whichever packets are lost, the client has read exactly the NAL units of
\* which none was; a picture's last packet, and no other, has the marker
OnlyWholeNals ==
  /\ client.nals = whole
  /\ media = "video" =>
       \A j \in DOMAIN wire :
         /\ wire[j].timestamp = wire[1].timestamp
         /\ wire[j].marker <=> (NalType(chunk) < 32 /\ j = Len(wire))

\* what is decoded of PCM packets is the camera's whole samples, in its order,
\* and a packet's timestamp counts the samples before it
SamplesInTime ==
  media = "audio" =>
    IF wire = <<>> THEN heard = said
    ELSE wire[1].timestamp = (track.base_timestamp + Samples(Len(heard))) % TsMod

\* RTP over UDP loses packets: a client reads every NAL unit that arrived in
\* full (one shorter than its header is not sent), never one with a hole or
\* joined of two, across the wrap of the sequence numbers too; it hears every
\* sample at its time; the numbers tell how many packets were lost, and none
\* exceeds the mtu.
TracksAreReadable ==
  /\ OnlyWholeNals /\ SamplesInTime
  /\ \A j \in DOMAIN wire :
       /\ Len(wire[j].payload) \in 1..Mtu
       /\ wire[j].sequence = (start + passed + j - 1) % SequenceMod
=============================================================================
