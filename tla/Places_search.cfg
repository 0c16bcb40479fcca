\* One venue with one facility, two writes, a search in flight; four units a day, two a segment.
CONSTANTS
  Day = 4
  Step = 2
  None = None
  Venues = {v1}
  Facilities = {f1}
  FacilitiesOf <- McFacilitiesOf
  Rules <- McRules
  SeedRules <- McSeedRules
  Bookable <- McBookable
  Queries <- McQueries
  Searches = {s1}
  MaxWrites = 2
SPECIFICATION PlacesSpec
INVARIANTS
  InvalidationReaches
  PricesAddUp
PROPERTIES
  StaleEnds
CHECK_DEADLOCK FALSE
