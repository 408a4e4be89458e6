SPECIFICATION FairSpec
CONSTANTS
  Tokens = {t1, t2}
  Families = {f1}
  Calls = {c1, c2}
  None = None
PROPERTIES CallsEnd StaleEntryExpires
