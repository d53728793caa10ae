\* Both cores of the RP2040 run Python threads; there is no GIL on this port.
SPECIFICATION Spec
CONSTANTS
  Cores = {c0, c1}
  Callbacks = {f, g}
  NoItem = NoItem
  Depth = 2
INVARIANT NeverPreempts
CHECK_DEADLOCK FALSE
