\* Every input of up to three lines, and every single argument.
SPECIFICATION FairSpec
CONSTANTS
  None = None
  Lines <- MCLines
  Blank <- MCBlank
  Malformed <- MCMalformed
  PCs <- MCPCs
  Kernel <- MCKernel
  Inputs <- MCInputs
  CoverSize = 4
INVARIANTS
  Isolation
  FramingAndOrder
  NothingLeftOpen
PROPERTY Ends
\* the process ends
CHECK_DEADLOCK FALSE
