SPECIFICATION Spec
CONSTANTS
  AddressIds = {a1, a2}
  AddressCallers = {c1, c2}
  Lines = {l1, l2}
  Cities = {t1, t2}
  NoAddress = NoAddress
  Untouched = Untouched
  NoPin = NoPin
  Moving = {a1}
  l1 = l1
  t1 = t1
  NewPlaces <- MovedInto
  AccountCalls = {c1, c2}
  Links = {l1, l2}
  LOCKOUT_THRESHOLD = 2
  MaxVersion = 2
  MaxWrong = 2
  NoAccount = NoAccount
  FactorCalls = {c1, c2}
  Passkeys = {k1, k2}
  Challenges = {ch1, ch2}
  CodeNumbers = {1}
  MaxIssued = 2
  NoCredential = NoCredential
  Kept = Kept
  SystemRoles = {r1}
  CustomRoles = {r2}
  Permissions = {p1, p2}
  r1 = r1
  p1 = p1
  DefaultGrants <- Seeded
  Checks = {c1}
  RoleCalls = {c1, c2}
  NoEntry = NoEntry
  Reviewed = {b1, b2}
  Ratings = {1, 4}
  ReviewCalls = {c1, c2}
  Moderators = {m1, m2}
  KnownAggregates <- MCAggregates
  NoReview = NoReview
  NoAverage = NoAverage
  Entries = {e1, e2}
  Sealers = {w1, w2}
  LastDay = 2
  NoSeal = NoSeal
  NoDay = NoDay
  Positions = {g1, g2, g3}
  g1 = g1
  g2 = g2
  g3 = g3
  h1 = h1
  h2 = h2
  CellOf <- MCCellOf
  Close <- MCClose
  LocationWorkers = {w1, w2}
  MaxUpdates = 2
  Nowhere = Nowhere
  KeyUsers = {u1, u2}
  Keys = {i1}
  Bodies = {o1}
  KeyedCalls = {c1, c2}
  MaxExecutions = 2
  NoResponse = NoResponse
  GalleryKeys = {k1, k2}
  AvatarKeys = {k3, k4}
  PhotoIds = {1, 2, 3}
  Uploaders = {c1, c2}
  MAX_PHOTOS_PER_VEHICLE = 1
  NoKey = NoKey
  Documents = {d1}
  ExpiryDays = {3, 5}
  THRESHOLD_DAYS = {1, 2, 4}
  Checkers = {w1, w2}
  FinalDay = 3
  NoDate = NoDate
  Changes = {c1, c2}
  Screens = {v1}
  MaxPending = 2
  NoStatus = NoStatus
  Servers = {w1, w2}
  Includes <- MCIncludes
  HubUsers <- MCHubUsers
  HubReaders = {c1}
  HubPatchers = {c1, c2}
  SignIns = {c2}
  FirstHalves <- MCFirstHalves
  LastHalves <- MCLastHalves
  STEP_UP_TTL = 2
  LastMinute = 3
  Never = Never
  NotSent = NotSent
  Pinnable = {p1}
  VehicleIds = {v1, v2}
  Plates = {l1, l2}
  ChoiceCalls = {c1, c2}
  Frequencies = {f1, f2}
  f1 = f1
  MaxPins = 2
  NoVehicle = NoVehicle
  Accounts = {a1, a2}
  Identities = {i1, i2}
  Emails = {e1, e2}
  SocialCalls = {c1, c2}
  NoOne = NoOne
  NoEmail = NoEmail
  About = {b1, b2}
  Slugs = {g1, g2}
  KnownSlugs = {g1}
  Services = {s1}
  Terms <- MCTerms
  OfferCalls = {c1, c2}
  NoProfile = NoProfile
  NoTerms = NoTerms
INVARIANTS
  AddressBookConsistent
  FailuresCounted
  OldAccessRefused
  LinksSingleUse
  FactorConsistent
  CacheHonest
  EveryReviewCounted
  SealCoversDay
  FoundWhereItIs
  RetriesReplay
  PicturesHaveBytes
  RemindedOncePerThreshold
  ToldWhatHappened
  SeedsSettle
  HubHonest
  ChoicesAudited
  IdentityKeepsAccount
  OfferAsTold
CHECK_DEADLOCK FALSE
