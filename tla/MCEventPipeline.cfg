SPECIFICATION FairSpec
CONSTANTS
    e1 = e1
    p = p
    q = q
    v = v
    w = w
    Events = {e1}
    Unsendable = {}
    Publishers = {p, q}
    Limit = 1
    PublisherFaults = {"bus"}
    MaxPublisherFaults = 1
    Malformed = {}
    Unversioned = {}
    Foreign = {}
    Workers = {v, w}
    MaxAttempts = 2
    Prefetch = 1
    ConsumerFaults = {"ack", "slow"}
    MaxConsumerFaults = 1
    MaxMessages = 2
PROPERTIES
    EffectSpec
    EventuallyHandled
CHECK_DEADLOCK FALSE
