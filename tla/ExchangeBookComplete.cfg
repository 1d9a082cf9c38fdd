SPECIFICATION UserSpec
CONSTANTS
  alice = alice
  bob = bob
  amm = amm
  Users = {alice, bob}
  Exempt = {}
  NoNetting = {}
  Platform = platform
  MaxPrice = 2
  Par = 3
  FreezeBps = 20
  FeeBps = 20
  BookTypes = {"NATIVE_BUY", "NATIVE_SELL", "SYNTHETIC_BUY", "SYNTHETIC_SELL"}
  Quantities = {1, 2}
  MaxQuantity = 2
  ShownLevels = 2
  MaxOrders = 2
  Requests <- UnitRequests
  Cash <- MCCash
  Holdings <- PairsHeld
INVARIANT BookComplete
