SPECIFICATION Spec
CONSTANTS
  Payloads <- MCPayloads
  Noise = {0, 125, 126}
  BufferSize = 8
  MaxNoise = 3
INVARIANTS
  TypeOK
  ThirdIntact
