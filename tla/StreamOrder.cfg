\* One HTTP response: the order of its payloads.
SPECIFICATION MCSpec
CONSTANTS
    s1 = s1
    s2 = s2
    s3 = s3
    r1 = r1
    Subjects = {"stream"}
    Allowance = 2
    Initial = 4
    Budget = 6
    Limit = 6
    Uploads = {s1, s2, s3}
    TcpUploads = {s1}
    Unasked = 2
    MaxCredit = 8
    Quota = 4
    SessionBudget = 4
    QueueFrames = 1
    MinFrame = 2
    FrameSizes <- MCFrameSizes
    Loads <- MCLoads
    Streams = {r1}
    None = None
    MaxStreams = 1
    Slots = 3
    StreamBytes = 4
    SessionBytes = 4
    GlobalBytes = 5
    Elsewhere = 2
    Sizes = {1, 2}
    Scenarios <- OneResponse
INVARIANT DeliveredInOrder
CHECK_DEADLOCK FALSE
