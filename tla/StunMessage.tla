----------------------------- MODULE StunMessage -----------------------------
(***************************************************************************)
(* The STUN messages the client makes (nexxt_lan.py) and how it takes a    *)
(* datagram apart (nexxt/udp_protocol.py), byte by byte: what matters is   *)
(* lengths, padding, and which bytes a digest covers.  SHA-1 and CRC-32    *)
(* may be any functions; the values of PRIORITY, ICE-CONTROLLED and        *)
(* SOFTWARE are zeros.                                                     *)
(***************************************************************************)
EXTENDS Integers, Sequences

CONSTANTS
  ByteXor(_, _), \* of two bytes
  Sha1(_, _),    \* the HMAC of a key and data
  Crc32(_)       \* the checksum of data

Octet == 0..255

ASSUME XorAssumption == \A a, b \in Octet : ByteXor(a, b) \in Octet /\ ByteXor(ByteXor(a, b), b) = a

Zeros(n) == [i \in 1..n |-> 0]
U16(n) == <<n \div 256, n % 256>>
At16(data, pos) == 256 * data[pos + 1] + data[pos + 2]     \* at offset pos, as in Python
Slice(data, from, to) == SubSeq(data, from + 1, to)        \* data[from:to]

Hmac(key, data) == [i \in 1..20 |-> Sha1(key, data)[i]]
Crc(data) == [i \in 1..4 |-> Crc32(data)[i]]

Cookie == <<33, 18, 164, 66>>
BindingRequest == 1
BindingSuccess == 257
BindingError   == 273
Username == 6
MessageIntegrity == 8
ErrorCode == 9
XorMappedAddress == 32
Priority == 36
UseCandidate == 37
Software == 32802
Fingerprint == 32808
IceControlled == 32809

----------------------------------------------------------------------------
\* Making messages (nexxt_lan.py)

Unpadded(type, value) == U16(type) \o U16(Len(value)) \o value
PaddingAlways(len) == 4 - (len % 4)
Padding(len) == (4 - (len % 4)) % 4
StunAttr(type, value) == Unpadded(type, value) \o Zeros(Padding(Len(value)))

Header(type, length, txid) == U16(type) \o U16(length) \o Cookie \o txid

Signed(type, txid, body_before_mi, key) ==
  LET digest == Hmac(key, Header(type, Len(body_before_mi) + 24, txid) \o body_before_mi)
      body   == body_before_mi \o StunAttr(MessageIntegrity, digest)
      without_fp == Header(type, Len(body) + 8, txid) \o body
  IN  without_fp \o Unpadded(Fingerprint, Crc(without_fp))

MakeStunBindingRequest(txid, remote_ufrag, local_ufrag, remote_pwd) ==
  Signed(BindingRequest, txid,
         StunAttr(Priority, Zeros(4)) \o StunAttr(IceControlled, Zeros(8))
           \o StunAttr(Software, Zeros(8))
           \o StunAttr(Username, remote_ufrag \o <<58>> \o local_ufrag),
         remote_pwd)

\* the two bytes of a port, and the four of an address, with the cookie's
Mapped(bytes) == [i \in DOMAIN bytes |-> ByteXor(bytes[i], Cookie[i])]

\* the answer, or none, which is <<>>
StunSuccess(request, ip, port, password) ==
  IF Len(request) < 20 \/ At16(request, 0) # BindingRequest \/ Slice(request, 4, 8) # Cookie
  THEN <<>>
  ELSE Signed(BindingSuccess, Slice(request, 8, 20),
              Unpadded(XorMappedAddress, <<0, 1>> \o Mapped(U16(port)) \o Mapped(ip))
                \o Unpadded(Software, Zeros(8)),
              password)

----------------------------------------------------------------------------
\* Taking datagrams apart (udp_protocol.py)

LooksLikeStun(data) == Len(data) >= 20 /\ Slice(data, 4, 8) = Cookie

Bad == [pos |-> 0, ok |-> FALSE, attributes |-> <<>>]

\* a turn of parse_stun()'s loop; a value, or its padding, that ends beyond the
\* datagram makes it bad
ReadAttribute(data, msg) ==
  LET len == At16(data, msg.pos + 2)
      end == msg.pos + 4 + len
  IN  IF ~msg.ok \/ msg.pos >= Len(data) THEN msg
      ELSE IF msg.pos + 4 > Len(data) \/ end + Padding(len) > Len(data) THEN Bad
      ELSE [pos |-> end + Padding(len), ok |-> TRUE,
            attributes |-> Append(msg.attributes,
              [type |-> At16(data, msg.pos), at |-> msg.pos,
               value |-> Slice(data, msg.pos + 4, end)])]

\* a turn takes four bytes at least
ReadAttributes(data) ==
  LET read[n \in 0..Len(data)] ==
        IF n = 0 THEN [pos |-> 20, ok |-> TRUE, attributes |-> <<>>]
        ELSE ReadAttribute(data, read[n - 1])
  IN  read[Len(data)]

ParseStun(data) ==
  IF \/ Len(data) < 20
     \/ Slice(data, 4, 8) # Cookie
     \/ 20 + At16(data, 2) # Len(data)
     \/ At16(data, 2) % 4 # 0
  THEN Bad ELSE ReadAttributes(data)

Has(msg, type) == \E i \in DOMAIN msg.attributes : msg.attributes[i].type = type

\* stun_get_attribute: the first one of a type that it has
Attribute(msg, type) ==
  msg.attributes[CHOOSE i \in DOMAIN msg.attributes :
                   /\ msg.attributes[i].type = type
                   /\ \A j \in 1..(i - 1) : msg.attributes[j].type # type]

\* parse_stun_error_code: 0 for none
ParseStunErrorCode(msg) ==
  IF ~Has(msg, ErrorCode) THEN 0
  ELSE LET value == Attribute(msg, ErrorCode).value
       IN  IF Len(value) < 4 THEN 0
           ELSE IF value[3] % 8 \in 3..6 THEN 100 * (value[3] % 8) + value[4] ELSE 0

\* the length field is little-endian and 32 bits wide; a datagram is far
\* shorter than 2^16
ParseKcpDatagram(data) ==
  /\ Len(data) >= 24
  /\ data[23] = 0 /\ data[24] = 0
  /\ Len(data) = 24 + (256 * data[22] + data[21]) + 20

\* the event of a datagram: its type, and what else the client looks at
Event(data) ==
  LET msg  == ParseStun(data)
      stun == At16(data, 0)
  IN  IF ~LooksLikeStun(data)
      THEN [type |-> IF ParseKcpDatagram(data) THEN "KCP" ELSE "NON_STUN"]
      ELSE IF ~msg.ok THEN [type |-> "INVALID"]
      ELSE IF stun = BindingRequest
      THEN [type |-> "BINDING_REQUEST", use_candidate |-> Has(msg, UseCandidate)]
      ELSE IF stun = BindingSuccess THEN [type |-> "BINDING_SUCCESS"]
      ELSE IF stun = BindingError
      THEN [type |-> "STUN_ERROR", error_code |-> ParseStunErrorCode(msg)]
      ELSE [type |-> "OTHER_STUN"]

----------------------------------------------------------------------------
\* the camera: a check that nominates, or not, and an error with its reason
CameraRequest(txid, username, nominates, key) ==
  Signed(BindingRequest, txid,
         StunAttr(Username, username)
           \o (IF nominates THEN StunAttr(UseCandidate, <<>>) ELSE <<>>), key)
CameraError(txid, code, reason, key) ==
  Signed(BindingError, txid,
         StunAttr(ErrorCode, <<0, 0, code \div 100, code % 100>> \o reason), key)

(***************************************************************************)
(* What a STUN peer does: it recomputes MESSAGE-INTEGRITY with the length  *)
(* up to and including it, and FINGERPRINT, the last attribute, over all   *)
(* before it.                                                              *)
(***************************************************************************)
Authentic(data, key) ==
  LET msg  == ParseStun(data)
      mi   == Attribute(msg, MessageIntegrity)
      last == msg.attributes[Len(msg.attributes)]
  IN  /\ msg.ok /\ Has(msg, MessageIntegrity)
      /\ mi.value = Hmac(key, Header(At16(data, 0), mi.at + 4, Slice(data, 8, 20))
                                \o Slice(data, 20, mi.at))
      /\ last.type = Fingerprint /\ last.value = Crc(Slice(data, 0, last.at))
=============================================================================
