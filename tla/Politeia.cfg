SPECIFICATION Spec
CONSTANTS
  Token = {1, 2}
  Syncs = {s1, s2}
  PageSize = 1
  MaxEvents = 2
  MaxMoves = 2
  None = None
INVARIANTS SyncingIsAccurate CategoryFollowsVote VoteFinishedToldOnce MuLostOnlyByStop
 
CHECK_DEADLOCK FALSE
