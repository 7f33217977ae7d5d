\* Two launches of one campaign may race, an event queues a message, the server dies once.
CONSTANTS
    Campaigns <- MCCampaigns
    Triggered <- MCTriggered
    Channels <- MCChannels
    ChannelOf <- MCChannelOf
    Requests = {q1, q2}
    Audience = 1
    BatchLimit = 2
    MaxAttempts = 2
    MaxRows = 2
    Credit = 2
    MaxActs = 2
    MaxDeaths = 1

SPECIFICATION FairSpec

INVARIANTS
    TypeOK
    SentOnceAndPaid

PROPERTIES
    ImplementsPrepaid
    QueueDrains

CHECK_DEADLOCK FALSE
