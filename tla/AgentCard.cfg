SPECIFICATION ACFairSpec
CONSTANTS
  Cards <- MCCards
  AutoName = "auto"
  Modes <- MCModes
  Sources <- MCSources
  Bundles <- MCBundles
  Key <- EC
  TrustDomain = "td"
  Signer = "ci"
  APIServers = {"10.0.0.1"}
  FailOpen = TRUE
  MaxFaults = 1
INVARIANTS
  
  
  PolicyCaughtUp
  TrustEarned
CHECK_DEADLOCK FALSE
PROPERTIES
  CardDeletionCompletes
  TrustConverges
  
