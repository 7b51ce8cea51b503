SPECIFICATION FairSpec
CONSTANTS
  d1 = d1
  d2 = d2
  p1 = p1
  p2 = p2
  Projects <- TwoProjects
  Daemons <- TwoDaemons
  Host <- TwoHosts
  Renamed <- One
  Nobody = Nobody
  MaxOps = 3
  MaxEdits = 1
  MaxFaults = 2
INVARIANT OneFollower FollowedIsCurrent
PROPERTY RegisteredIsFollowed
CHECK_DEADLOCK FALSE
