SPECIFICATION DaemonSpec
CONSTANTS
  Publishers = {"p1", "p2"}
  Subs = {"s1"}
  Campaigns = {"c1", "c2"}
  NoCampaign = NoCampaign
  NoEvent = NoEvent
  CampaignOf <- MCTwoCampaigns
  Filter <- MCFirstCampaign
  Wants <- MCEverything
  Depth <- MCDepthOne
  Published = {"metrics", "corpus", "finding"}
  Interval = TRUE
  MaxSeq = 3
INVARIANT NothingVanishes
INVARIANT EventsAreCounted
PROPERTY NoSendOnClosed
PROPERTY Flows
CHECK_DEADLOCK FALSE
