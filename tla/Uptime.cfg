\* Two checkers with phases of their own, a period of two units, and a query
\* that needs one series.
SPECIFICATION Spec
CONSTANTS
  c1 = c1
  c2 = c2
  Checkers <- TwoCheckers
  MinCheckers = 1
  Window = 4
  Lag = 3
  Period = 2
SYMMETRY Symmetric
INVARIANTS
  UptimeTypeOK
  NoFalseAlarm
  NoMissedOutage
