\* Three jobs and two shares: a late reply can meet the next share's wait, and a
\* job can come in every step of an iteration; a message that only speaks of an
\* acceptance can come before either reply.
CONSTANTS
  MaxJobs = 3
  MaxShares = 2
  MaxSaid = 1
SPECIFICATION FairSpec
INVARIANTS OneReplyPerShare MinesLastHeard
PROPERTIES LostLinkEnds DeadlineEnds
