SPECIFICATION TurnSpec
CONSTANTS
  Operators = {o1, o2, o3}
  Calls = {c1, c2}
  Nobody = Nobody
INVARIANT NoOperatorTwice
PROPERTIES OrderOfOthersKept TurnsAreFair NullOnlyWhenAllBusy
SYMMETRY Symmetry
