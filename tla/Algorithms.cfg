SPECIFICATION Spec
CONSTANTS
  Mtu = 8
  SequenceMod = 16
  TsMod = 16
  Second = 10
  ClockRates = {4}
  FirstSequences = {0, 14}
  BaseTimestamps = {14}
  Nals <- SomeNals
  PcmChunks <- SomePcm
  ChunkTimes = {0, 5}
  MaxChunks = 2
  MaxMissed = 6
  ByteXor <- BytewiseXor
  Sha1 <- Digest
  Crc32 <- Crc16
  UrlSafe = {"front", "id1"}
  StunInputs <- SomeMessages
  ConfigInputs <- SomeConfigs
INVARIANTS TracksAreReadable PeersAgree AcceptedIsServed
CHECK_DEADLOCK FALSE
