SPECIFICATION Spec
CONSTANTS
  Bytes <- MCBytes
  Uuids <- MCUuids
  Noise = noise
  Refused = refused
  NoUuid = no_uuid
INVARIANT StoresGenerated
