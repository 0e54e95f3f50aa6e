SPECIFICATION Spec
CONSTANTS
  BASE = 2
  MAX_MCS_FRAME_BYTES = 2
  HeartbeatPing = 0
  DataMessageStanza = 1
  Close = 2
  Undecodable <- MCUndecodable
  I32_MAX = 2
  MaxBytes = 5
  NoKeys = NoKeys
  None = None
  HEADER_PREFIX_LEN = 21
  PUBLIC_KEY_LEN = 65
  AUTH_TAG_LEN = 16
  MAX_RETRIES = 2
  MAX_PERSISTENT_IDS = 1
  Messages <- MCMessages
  MaxPadding = 2
  MaxKeys = 2
  MaxCalls = 3
INVARIANTS TypeOK CutsDoNotMatter NothingHeld Readable
CHECK_DEADLOCK FALSE
