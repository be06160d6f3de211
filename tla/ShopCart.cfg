SPECIFICATION Spec
CONSTANTS
  Products = {1, 2, 3, 4, 5}
  Price <- PowersOfTwo
  InStock = {1, 2, 4, 5}
  Fit = 2
  NoProduct = NoProduct
CONSTRAINT FewScrolls
INVARIANTS
  TypeOK
  BadgeCountsCart
  CartScreenIsCurrent
  TotalAfterOnePass
  TotalNotTooLow
