CONSTANTS
  Provider = {"kodex", "tiger", "ishares"}
  MaxCrashes = 1
  Order <- Products
  Catalogs <- Listings
  Offers <- Steady
  Body <- Replies
  Workbook <- Listed
  Cutoff = 2
  PortfolioDate = 2
  MaxStreak = 2
  Tolerated = 5
SPECIFICATION FairCrawlSpec
CHECK_DEADLOCK FALSE
PROPERTIES
  CrawlEndsReady
