SPECIFICATION Spec
CONSTANTS
  old = old
  young = young
  Symbols = {old, young}
  Classes = {operating, holding}
  NoClass = NoClass
  LastDay = 3
  Starts = {1, 2}
  Listing <- MCListing
  MaxRows = 4
INVARIANTS
  TypeOK
  DeadNamesRetained
  NoDelistingForesight
  DelistedNameLeaves
PROPERTY
  NoLookAhead
SYMMETRY Symmetry
