SPECIFICATION Spec
CONSTANTS
  Sessions = {s1, s2}
  Endpoints = {"place", "batch_cancel"}
  SellKeys = {a1}
  NewKeys = {}
  BuyKeys = {b1, b2}
  Ids = {o1, o2, o3}
  Lot = 2
  MakerCash = 4
  Elsewhere = 1
  None = None
PROPERTY BatchCancelEnds
