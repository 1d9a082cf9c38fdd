SPECIFICATION Spec
CONSTANTS
  MaxPrice = 2
  Users = {alice, amm}
  Exempt = {amm}
  BookTypes = {"NATIVE_BUY", "SYNTHETIC_SELL"}
  Quantities = {1, 2}
  MaxOrders = 4
INVARIANTS TypeOK BestIsBest IndexAgrees RestsOnce FillsInPriceOrder StopsOnlyAtOwn
PROPERTIES OnlyOwnerLosesPlace MatchAdvances MatchTerminates
