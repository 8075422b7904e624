SPECIFICATION Spec
CONSTANTS
  Account = {a1, a2}
  Subject = {s1}
  Type = {wish}
  Meta = {}
  Call = {c1}
  MaxId = 1
  None = None
PROPERTY SentAsItsOwner
