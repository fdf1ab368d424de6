CONSTANTS
  Nothing = Nothing
  attieke = attieke
  poulet = poulet
  grillades = grillades
  boissons = boissons
  piment = piment
  sauce = sauce
  awa = awa
  moussa = moussa
  remise = remise
  Houses <- TheHouses
  Position <- ThePosition
  Places <- ThePlaces
  Dishes = {attieke, poulet}
  Categories = {grillades, boissons}
  Options = {piment, sauce}
  Customers = {awa}
  Promotions = {remise}
  Addresses = {1, 2, 3}
  Lines = {1, 2}
  Prices = {1, 2}
  Percents = {1, 150}
  Groups <- TheGroups
  MaxQuantity = 2
  MaxAddresses = 2
  MinReviews = 2
  Orders <- TwoOrders
  RatedIn <- TheRatedIn
  HouseOf <- TheHouseOf
  Opening <- TheOpening
  Desks = {w1}
  Readers = {v1}
  Mixes <- TheMixes
  MaxCalls = 4
SPECIFICATION FairSpec
INVARIANTS
  MenuHoldsTogether
  PricesSound
  CartTellsTheTruth
  CurrentPage
  OneDefault
  NotesFollowReviews
PROPERTIES
  OldReadingsEnd
CHECK_DEADLOCK FALSE
