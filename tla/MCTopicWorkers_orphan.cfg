CONSTANTS
    t = t
    p1 = p1
    p2 = p2
    p3 = p3
    s1 = s1
    s2 = s2
    NoWorker = NoWorker
    Topics = {t}
    Posts = {p1, p2}
    Stops = {s1, s2}
    PostTopic <- MCPostTopic
    StopTopic <- MCStopTopic
SPECIFICATION Spec
INVARIANT OpenFilesHaveOwners
CHECK_DEADLOCK FALSE
