SPECIFICATION AccountSpec
CONSTANTS
  Current = c
  Legacy = {g1}
  Seed = {s1, s2}
  Old = {s1}
  Setting = {"public_listing"}
  Unanswered = Unanswered
  None = None
  MaxLoads = 2
  MaxNukes = 1
INVARIANTS AccountIsStored NukeIsFinal ProbeCarriesAll
PROPERTIES CreateIsWarned GateSettles
CHECK_DEADLOCK FALSE
