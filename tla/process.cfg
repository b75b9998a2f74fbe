SPECIFICATION FairSpec
CONSTANTS
  SegmentTopic = SegmentTopic
  VehicleTopic = VehicleTopic
  MaxRequests = 2
  MaxFailures = 2
  MaxSignals = 2
  MaxKills = 1
INVARIANT TypeOK
INVARIANT HandlersHaveTheirClients
INVARIANT ReadyMeansConsuming
PROPERTY RequestsCutByForceOnly
PROPERTY SignalsEndTheProcess
PROPERTY ConsumesInTheEnd
