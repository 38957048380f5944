\* One call of each kind.
SPECIFICATION FairSpec
CONSTANTS
  Executes = {e1}
  Batches = {b1}
  Drops = {d1}
  Pushes = {p1}
  Statements = 2
  PushedPages = 1
INVARIANTS OneInside
PROPERTIES CallsEnd AllOrNothing
