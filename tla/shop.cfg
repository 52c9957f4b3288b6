SPECIFICATION ShopSpec
CONSTANTS
  a1 = a1
  a2 = a2
  b1 = b1
  sellerA = sellerA
  sellerB = sellerB
  s1 = s1
  Products = {a1, a2, b1}
  SellerOf <- MCSellerOf
  Schedules = {s1, s2}
  Offered <- MCOffered
  MaxAmount = 2
  Before <- MCBefore
  MaxEvents <- MCEvents
  NoTimer = NoTimer
  Viewed = a2
  NoSchedule = NoSchedule
  MaxAdds = 2
INVARIANTS
  ShopTypeOK
  BoughtWasSelected
  AmountsWereStored
  SelectedIsShown
  OrderedWasConfirmed
  ToastIsTrue
PROPERTIES
  SuccessMeansAll
  PurchaseEnds
CHECK_DEADLOCK FALSE
