\* A global history of two bits loses its oldest; two local ones interfere; a wrong
\* branch has another one before or after it.  Three places in the stack, with
\* counts up to two: both limits are met.
CONSTANTS
  Pc = {p, q}
  W = 2
  L = 1
  MaxFlight = 2
  Addr = {a1, a2}
  NoAddr = NoAddr
  RAS_SIZE = 3
  MaxCnt = 2
SPECIFICATION PredictorSpec
CONSTRAINT OneInUse
SYMMETRY Entries
INVARIANTS GlobalInStep LocalInStep
PROPERTY ImplementsStack
