SPECIFICATION Spec
CONSTANT pool_size = 7
INVARIANTS TypeOK UsageMatchesLeases CountIsLeases
PROPERTY ImplementsAddressPool
