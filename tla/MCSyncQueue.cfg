SPECIFICATION Spec
CONSTANTS
  Account = {a1}
  Subject = {s1}
  Type = {wish, done}
  Meta = {m1}
  Call = {c1, c2}
  MaxId = 2
  None = None
SYMMETRY Interchangeable
INVARIANTS RowsDoNotContradict DeliveredWhenEmpty
PROPERTIES AttemptedBeforeReturn
