SPECIFICATION FairSpec
CONSTANTS
  Producer = {p1, p2}
  Consumer = c
  Unlocked = unlocked
  MaxPushes = 2
INVARIANTS HoldsLock PopFindsItem
PROPERTIES IsFifo EveryItemIsTaken
