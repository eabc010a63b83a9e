SPECIFICATION Spec
CONSTANTS
  Displays = {d1, d2, d3}
  Messages = {m1}
  NoMessage = NoMessage
SYMMETRY DisplaySymmetry
INVARIANTS TypeOK PromptStays BarFollows Released
