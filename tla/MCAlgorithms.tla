---------------------------- MODULE MCAlgorithms -----------------------------
\* Algorithms for TLC: inputs around every boundary.
EXTENDS Algorithms, Bitwise, SequencesExt

BytewiseXor(a, b) == a ^^ b

\* stand-ins that tell the inputs apart
Checksum(data) == FoldLeft(LAMBDA sum, byte : (3 * sum + byte + 1) % 65521, 0, data)
Digest(key, data) == Zeros(16) \o U16(Checksum(key)) \o U16(Checksum(data))
Crc16(data) == U16(Len(data) % 65536) \o U16(Checksum(data))

----------------------------------------------------------------------------
\* NAL units and chunks a byte around what a packet holds

VPS == 32
TRAIL == 1

Nal(type, len, tag) ==
  [i \in 1..len |-> IF i = 1 THEN 2 * type + 1 ELSE IF i = 2 THEN 1 ELSE 10 * tag + i]
SomeNals ==
  {Nal(type, len, tag) : type \in {VPS, TRAIL}, len \in {1, 2, 8, 9, 12, 13}, tag \in 1..2}
SomePcm == {[i \in 1..len |-> 100 * tag + i] : len \in {0, 1, 8, 11, 16}, tag \in 0..1}

----------------------------------------------------------------------------
\* user fragments of every length modulo 4

Bytes(len, tag) == [i \in 1..len |-> tag + i]

SomeMessages ==
  {[algorithm |-> "stun", from |-> from, txid |-> Bytes(12, 0), key |-> Bytes(remote + 1, 70),
    remote |-> Bytes(remote, 97), local |-> Bytes(local, 97), ip |-> ip, port |-> port] :
     from \in {"client", "camera", "nominating", "error"},
     remote \in {0, 3, 4, 5}, local \in {0, 3, 4, 5},
     ip \in {<<192, 168, 0, 2>>, <<33, 18, 164, 66>>}, port \in {1, 8466, 65535}}

----------------------------------------------------------------------------
\* two cameras whose identities vary, or one whose settings do

Good == [ip |-> "good", local_key |-> "set", password |-> "set"]

Raw(id, name, rtsp, path, enabled) ==
  [id |-> id, name |-> name, rtsp |-> rtsp, rtsp_path |-> path, enabled |-> enabled,
   rtc_mode |-> "direct", lan_protocol |-> "3.3", signaling_port |-> 6668, env |-> Good]

Identities ==
  {Raw(id, name, rtsp, path, enabled) :
     id \in {"id1", "id2"}, name \in {"id1", "front", "bad name"}, rtsp \in {"yes", "no"},
     path \in {NoPath} \cup [slash : BOOLEAN, segment : {"front"}], enabled \in BOOLEAN}

Settings ==
  {[Raw("id1", "front", rtsp, NoPath, TRUE) EXCEPT
      !.rtc_mode = mode, !.lan_protocol = protocol, !.signaling_port = port,
      !.env = [ip |-> ip, local_key |-> key, password |-> "set"]] :
     rtsp \in {"yes", "junk"}, mode \in {"direct", "preconnect", "junk"},
     protocol \in {"3.3", "3.4", "3.5"}, port \in {0, 6668, 65536},
     ip \in {"good", "bad", "unset"}, key \in {"set", "unset"}}

SomeConfigs ==
  [algorithm : {"config"},
   raws : {<<a, b>> : a \in Identities, b \in Identities} \cup {<<a>> : a \in Settings},
   selectors : {<<>>, <<"id1">>, <<"front">>, <<"id1", "front">>, <<"front", "id2">>,
                <<"id2", "id1">>}]
=============================================================================
