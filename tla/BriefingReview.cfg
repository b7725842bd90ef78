\* Two topics, one publication at a time: what the page says of its review gate.
CONSTANTS
    Topics = {k1, k2}
    NoTopic = none
    ReportLimit = 2
    PublishSlots = {p1}
    NoPost = none

SPECIFICATION BriefingSpec

INVARIANT
    NothingUnreviewedIsPublished
