\* A buffer with reserved space at its end is put in front of another one, from which
\* bytes are moved.
SPECIFICATION Spec
CONSTANTS
  Buf = {a, b}
  byte1 = byte1
  byte2 = byte2
  Byte = {byte1, byte2}
  Input <- MCInput
  Junk = junk
  Api = {"add", "expand", "prepend_buffer", "remove_buffer"}
  Block = {1, 2, 3, 4, 5, 6, 7, 8, 9}
  MaxData = 2
  MaxLen = 3
  EVBUFFER_CHAIN_SIZE = 2
  MIN_BUFFER_SIZE = 4
  EVBUFFER_CHAIN_MAX_AUTO_SIZE = 4
INVARIANTS
  LastWithData
