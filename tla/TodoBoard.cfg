\* One to-do besides the patrol's, four acts of others.
CONSTANTS
  Request = {r1}
  MaxActs = 4
SPECIFICATION Spec
PROPERTIES
  DismissedStays
  ConsolidationKeepsOpen
  BoardFollowsWorld
