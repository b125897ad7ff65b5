CONSTANTS
  o1 = o1
  o2 = o2
  Objects = {o1, o2}
  List = List
  MaxVisits = 2
  Tours <- MCTours
  MaxFlights = 2
  MaxEvents = 3
SPECIFICATION FairSpec
CHECK_DEADLOCK FALSE
INVARIANTS SubscriptionsCounted StaleIsBeingRefreshed
PROPERTIES PublishedIsShown LoadingEnds
