SPECIFICATION Spec
SYMMETRY Symmetry
CONSTANTS
  Users = {alice, bob}
  Sessions = {s1, s2}
  Amounts = {1}
  Limit = 1
  MaxEntries = 3
  MaxBalance = 1
INVARIANTS AccountTypeOK PagesComplete
PROPERTY Serializable
