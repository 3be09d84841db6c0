SPECIFICATION FairSpec
CONSTANTS
  Procs = {p1, p2}
  Sites <- MCSites
  MaxUploads = 1
  MaxFaults = 1
INVARIANTS TypeOK NothingSkipped AnnouncedOnce
PROPERTY EventuallyCrawled
