SPECIFICATION LiveSpec
CONSTANTS
  Clients = {a, b}
  Gateway = Gateway
  Nobody = Nobody
  DefaultSlots = 2
  GatewayEvery = 2
  RingSize = 2
  ByteTime = 8
  MaxEntries = 4
  MaxRestarts = 1
PROPERTIES
  KeepsTalking
