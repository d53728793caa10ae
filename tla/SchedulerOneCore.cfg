\* One core running Python, the port's default: interrupts are the only
\* concurrency.
SPECIFICATION FairSpec
CONSTANTS
  Cores = {c0}
  Callbacks = {f, g}
  NoItem = NoItem
  Depth = 2
INVARIANTS TypeOK LockDepth NeverPreempts NoLostWakeup IInv
PROPERTIES CriticalRegions ImplementsQueue EventuallyRun EventuallyRaised
