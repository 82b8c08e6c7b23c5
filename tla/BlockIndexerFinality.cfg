SPECIFICATION Spec
CONSTANTS
  g0 = g0
  a1 = a1
  a2 = a2
  b1 = b1
  b2 = b2
  t1 = t1
  t2 = t2
  v1 = v1
  v2 = v2
  Block <- ForkBlocks
  NoBlock = NoBlock
  Genesis = g0
  height <- MCHeight
  parent <- MCParent
  txs <- MCTxs
  generator <- MCGenerator
  locked <- MCLocked
  Tx = {t1, t2}
  Generator = {v1, v2}
  Worker = {w1, w2}
  MaxAttempts = 2
  MaxFaults = 0
  MaxCrashes = 0
  MaxScheduled = 0
  CacheMax = 2
PROPERTY FinalityUpdateKeepsBlocks
CHECK_DEADLOCK FALSE
