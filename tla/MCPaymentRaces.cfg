SPECIFICATION Spec
CONSTANTS
  Calls = {c1, c2}
  Estimate = 2
  MaxPrice = 3
  PartialPercent = 50
  StripeErrs = TRUE
SYMMETRY Interchangeable
INVARIANTS ChargedOnlyIfStarted RefundsArePaid SettlesCleanly
