SPECIFICATION FairSpec
CONSTANTS
  cardA = cardA
  cardB = cardB
  cardC = cardC
  cardD = cardD
  Cards = {cardA, cardB, cardC, cardD}
  NoCard = NoCard
  None = None
  Size = 8
  Card <- SwapCards
  MaxPartitions = 3
  MaxLinks = 3
  MaxName = 4
  Foreign = {1}
  MaxHelpers = 2
  Holders = {2}
  Mortal = {3}
  Allow = {}
INVARIANTS ServedOnce OnlyListed
PROPERTIES AllServed
CHECK_DEADLOCK FALSE
