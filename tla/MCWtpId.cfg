SPECIFICATION Spec
CONSTANTS
  Bytes <- MCBytes
  Uuids <- MCUuids
  Noise = noise
  Refused = refused
  NoUuid = no_uuid
INVARIANTS TypeOK InUseIsOnFile OwnBytes
PROPERTY KeepsIdentity
