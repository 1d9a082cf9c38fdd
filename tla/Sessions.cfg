SPECIFICATION Spec
CONSTANTS
  Sessions = {s1, s2}
  Endpoints = {"place", "cancel", "replace", "batch_cancel", "resolve"}
  SellKeys = {a1}
  NewKeys = {a2}
  BuyKeys = {b1, b2}
  Ids = {o1, o2, o3}
  Lot = 2
  MakerCash = 4
  Elsewhere = 1
  None = None
INVARIANTS SessionTypeOK OneRowPerKey NoLostUpdate MatchSeesCommitted
PROPERTIES NoTradeAfterCancel RequestsEnd
