SPECIFICATION Spec
CONSTANTS
  Articles = {a1}
  Purchases = {p1, p2}
  Orders = {o1}
  Requests = {r1}
  Quantities = {0, 2}
  Costs = {1}
  Dates = {0}
  LineTotals = {5}
  Ingredient <- OneIngredient
  Portion <- ThreeEach
  NoArticle = NoArticle
  NoPurchase = NoPurchase
  NoOrder = NoOrder
  NoCost = NoCost
  NoDate = NoDate
  MaxCalls = 5
CHECK_DEADLOCK FALSE
INVARIANTS JournalJustifies PreparationAloneGoesBelow PurchaseAccounted CostBetweenPrices
  LotsMatchStock
