CONSTANTS
  s1 = s1  s2 = s2  s3 = s3  v1 = v1  v2 = v2  r1 = r1  r2 = r2
  Runs = {r1, r2}
  Servers = {s1, s2, s3}
  Configs <- MCConfigs
  PartOf <- MCPartOf
  MaxFaults = 2
  None = None
  Mixed = Mixed
SPECIFICATION Spec
SYMMETRY MCSymmetry
INVARIANT TypeOK
INVARIANT InstalledAsApproved
INVARIANT SuccessIsOneCluster
INVARIANT RerunSucceeds
CHECK_DEADLOCK FALSE
