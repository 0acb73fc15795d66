CONSTANTS
  a = a
  b = b
  u1 = u1
  u2 = u2
  d = d
  id1 = id1
  id2 = id2
  functional = functional
  NoUrl = NoUrl
  NoKey = NoKey
  Domains <- MCDomains
  NoDomain = NoDomain
  Unclassified = Unclassified
  ReqIDs <- MCReqIDs
  Names <- MCNames
  Urls <- MCUrls
  Categories <- MCCategories
  CategoryOf <- MCCategoryOf
  Traces <- MCTraces
  Listings <- MCListings
  NoListing = NoListing
  Lengths <- MCLengths
  DurationLimit <- MCDurationLimit
  MaxAges <- MCMaxAges
  Times <- MCTimes
  ZeroTime <- MCZeroTime
  StartTime <- MCStartTime
SPECIFICATION Spec
CHECK_DEADLOCK FALSE
INVARIANTS
  FirstSetterListed
  UsesCounted
  CountIsRows
  UnclassifiedLast
  ExpiryOfFirstSetter
