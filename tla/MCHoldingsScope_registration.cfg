CONSTANTS
  Provider = {"kodex"}
  MaxCrashes = 1
  Order <- Products
  Catalogs <- Listings
  Offers <- Offered
  Body <- Replies
  Workbook <- Listed
  Cutoff = 2
  PortfolioDate = 2
  MaxStreak = 2
  Tolerated = 50
SPECIFICATION ScopeSpec
CHECK_DEADLOCK FALSE
INVARIANTS
  ReadyIsRegistered
