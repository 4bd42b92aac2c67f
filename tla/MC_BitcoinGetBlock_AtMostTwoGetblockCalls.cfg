CONSTANTS
  A = A
  B = B
  C = C
  D = D
  E = E
  F = F
  M = M
  NoAddr = NoAddr
  NoPrevOut = NoPrevOut
  NoBlock = NoBlock
  Addr <- MCAddr
  V2Block <- MCV2Block
  PrevTx <- MCPrevTx
  EnrichCap = 2
  MaxRetries = 1
SPECIFICATION Spec
INVARIANT AtMostTwoGetblockCalls
