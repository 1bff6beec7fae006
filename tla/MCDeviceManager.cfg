SPECIFICATION Spec
CONSTANTS
  MaxDevices = 3
  MaxDrivers = 3
  Identities = {"controller", "keyboard"}
  Usb = {"keyboard"}
  Kinds = {"other", "xhci", "hid"}
  Hubs = {"xhci"}
  NoDriver = "none"
  Matches <- MCMatches
  Catalog <- MCCatalog
  MaxCategories = 2
  MaxProducts = 2
  MaxJsonDepth = 2
INVARIANT IInv
INVARIANT ProbedOnce
INVARIANT NothingMissed
INVARIANT CatalogAsWritten
PROPERTY BoundStays
PROPERTY Returns
