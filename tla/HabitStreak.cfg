SPECIFICATION Spec
CONSTANTS
  None = None
  h1 = h1
  h2 = h2
  hx = hx
  ch = ch
  cg = cg
  cx = cx
  g1 = g1
  e1 = e1
  n1 = n1
  r1 = r1
  r2 = r2
  Requests = {r1, r2}
  Days <- MCDays
  Habits <- MCHabits
  OwnHabits <- MCOwnHabits
  Categories <- MCCategories
  OwnCategories <- MCOwnCategories
  KindOf <- MCKindOf
  Goals <- MCGoals
  Events <- MCEvents
  Notes <- MCNotes
  Bodies <- MCScheduledBodies
  Past <- MCScheduledPast
  Horizon = 4
  MaxRequests = 2
SYMMETRY AgendaSymmetry
INVARIANT MaskedOutDaysIgnored
CHECK_DEADLOCK FALSE
