\* The registration of a school, the form for a book, the notices.
SPECIFICATION FairSpec
CONSTANTS
  Slugs = {s1, s2, s3}
  Invalid = {s3}
  NoSlug = NoSlug
  MaxChecks = 2
  Procs = {p1, p2, p3}
  Books = {b1, b2}
  PrefixOf <- OwnPrefix
  SchoolOf <- OneSchool
  None = None
  Attempts = 2
  MaxMade = 3
  MaxErrors = 2
  Notices = {n1, n2}
CHECK_DEADLOCK FALSE
INVARIANTS TypeOK NewestHintIsRight OneSchoolPerAnswer OneCompleteBook FirstCopiesSucceed ReadIsStored
PROPERTY SubmissionEnds
