SPECIFICATION Spec
CONSTANTS
  MaxDays = 2
  MaxShifts = 1
  MaxTabs = 2
  MaxLines = 1
  MaxDiscs = 1
  MaxPays = 2
  MaxRefs = 1
  MaxGrants = 1
  Price = 2
  Clerks = {c1, c2}
SYMMETRY Sessions
CHECK_DEADLOCK FALSE
INVARIANTS
  MoneyTypeOK
  NothingOpenOnClosedDay
  ClosedDayBalances
  ClosedShiftBalances
  NeverOverpaid
  SettledIsPaid
  OneGrantOneAct
  NoWaitCycle
