SPECIFICATION Spec
CONSTANTS
  Applicants = {e1}
  LeaveIds = {s1, s2}
  Moderators = {o1, o2}
  Days = {1, 2}
  Entitlement = 2
  Employees = {1}
  StructureIds = {s1, s2}
  Periods = {1}
  Today = 1
  Rates = {1}
  Grid <- DayOff
  Officers = {o1, o2}
  Desks = {"terminate", "grid", "clock", "create", "update", "deactivate", "generate"}
  Never = Never
  Months = {1, 2}
  ThisMonth = 1
  Expenses = {x1}
  Accountants = {o1, o2}
  MaxVouchers = 1
  Shifts = {s1, s2}
  Docs = {d1}
  Tabs = {o1, o2}
  Takings <- OneSale
  Movements <- PayOut
  Float = 1
  Skews <- ServerSkews
  MaxTime = 7
  Receipts = {s1, s2}
  Asked <- OnePoint
  Gained <- TwoPoints
  Corrections <- Deduction
  MinPoints = 0
  Balance = 1
  Servers = {o1, o2}
  Missing = Missing
  Posts = {s1, s2}
  Authors = {a1, a2}
  Ratings = {1, 2}
  Writers = {o1, o2}
SYMMETRY Identical
CHECK_DEADLOCK FALSE
INVARIANTS
  WalletMatchesLeaves
  WalletsMatchSales
  AggregatesConverge
  CountedOnce
PROPERTIES
  ManagersMarkStands
  PaidIsKept
  ClosedMonthsRefuse
