\* One of the instances of section 5 of README.md; the others change the
\* constants and the property its table names.
SPECIFICATION Spec
CONSTANTS
  Articles = {a1}
  Purchases = {p1, p2}
  Orders = {o1}
  Requests = {r1, r2}
  Quantities = {0, 2}
  Costs = {1, 4}
  Dates = {0}
  LineTotals = {5}
  Ingredient <- OneIngredient
  Portion <- ThreeEach
  NoArticle = NoArticle
  NoPurchase = NoPurchase
  NoOrder = NoOrder
  NoCost = NoCost
  NoDate = NoDate
  MaxCalls = 3
CHECK_DEADLOCK FALSE
INVARIANT JournalJustifies
