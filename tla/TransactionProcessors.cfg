SPECIFICATION Spec
CONSTANTS
  Null = Null
  a = a
  b = b
  Workers = {1, 2}
  Palettes <- MCPalettes
  Genesis <- MCGenesis
  MaxBlocks = 2
INVARIANTS
  TablesSound
  StakesAddUp
PROPERTIES
  SeparateBlocksIndexed
CHECK_DEADLOCK FALSE
