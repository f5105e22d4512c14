SPECIFICATION Spec
CONSTANTS
  User = {u1}
  Caller = {c1, c2, c3}
  Limits = {0, 2}
  SoftLimit = 1
  DefaultDaily = 0
  DefaultMonthly = 1
  EnforceHard = TRUE
  PeriodDays <- MCPeriods
  MaxDay = 2
  MaxAccepted = 5
  MaxFailures = 1
  MaxEdits = 1
  Tenant = Tenant
  NoQuota = NoQuota
  NoUser = NoUser
SYMMETRY QuotaSymmetry
INVARIANT Conservation Overshoot NoFalseAlarm
