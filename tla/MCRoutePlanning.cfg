SPECIFICATION PlanSpec
CONSTANTS
  Items = {"a", "b"}
  Native = {"b"}
  HasDirect = {"b"}
  HasUnwrap = {"a"}
  Targets <- OneTarget
  Worth <- Values
  Limit = 15
  Losses = {0, 2, 4}
  Gas = {0, 1}
  Life = 1
  MaxClock = 2
\* A finished plan is not changed.
CHECK_DEADLOCK FALSE
INVARIANTS
  CheapestIsSelected
  ReadyWithinLimit
PROPERTIES
  ComparedWithLiveQuotes
