CONSTANTS
  Nums <- MCNums
  Concurrency = 2
SPECIFICATION Spec
INVARIANT TypeOK
INVARIANT ReturnContract
PROPERTY NoSlotRewritten
PROPERTY NoLeak
PROPERTY ImplementsAbstract
