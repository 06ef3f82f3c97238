SPECIFICATION Spec
CONSTANTS
  Payloads <- MCPlain
  Noise = {0, 1}
  BufferSize = 8
  MaxNoise = 1
INVARIANT BadFrameIsError
