SPECIFICATION Spec
CONSTANT RingSize = 2
INVARIANT CountsPackets
