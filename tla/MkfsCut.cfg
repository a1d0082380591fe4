SPECIFICATION MkfsSpec
CONSTANTS
  NoJob = NoJob
  Jobs <- SmallJobs
  Old <- SmallOld
  Sizes = {100, 149, 168, 177, 320}
  MaxTorn = 12
INVARIANTS NoHalfVolume FormattedMounts
PROPERTY StaysMountable
