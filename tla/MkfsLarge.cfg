SPECIFICATION MkfsSpec
CONSTANTS
  NoJob = NoJob
  Jobs <- LargeJobs
  Old = {NoJob}
  Sizes = {1064, 1100}
  MaxTorn = 1
INVARIANT FormattedMounts
