SPECIFICATION FairSpec
CONSTANTS
  main = main
  t2 = t2
  c1 = c1
  c2 = c2
  Owner = main
  Posters <- MCPosters
  LoopThread = loop
  Channels <- MCChannels
  MaxPosts = 3
INVARIANTS RoundIsBounded OwnerHoldsLiveLoop DestroyedAfterThread
PROPERTIES ImplementsTaskQueue EveryTaskRuns EveryChannelServed
           StartTerminates DestroyTerminates
CHECK_DEADLOCK FALSE
