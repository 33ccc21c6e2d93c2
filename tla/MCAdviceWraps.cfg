SPECIFICATION Spec
CONSTANTS
  Capacity = 2
  Blank = Blank
  Events <- MCEvents
  Tags = {"measured", "other"}
  AnyTag = AnyTag
  Policy <- MCPolicy
  DrainSizes = {1, 3}
  MaxEvents = 7
  Word = 1048576
  RiskPolicies <- MCRiskPolicies
  Callers <- MCCallers
INVARIANT
  AdvisedRouteExists
