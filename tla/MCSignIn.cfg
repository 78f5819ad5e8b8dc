SPECIFICATION Spec
CONSTANTS
  s = s
  t = t
  p = p
  q = q
  SignIns = {s, t}
  Slots = {p, q}
  States = {"one", "other"}
  Flows <- FlowsOf
  Sizes = {1, 2}
  MaxFaults = 2
SYMMETRY Alike
INVARIANTS ConnectedIsSaved TurnedAwayForACause NotesWait
CHECK_DEADLOCK FALSE
