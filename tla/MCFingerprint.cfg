SPECIFICATION FingerprintSpec
CONSTANTS
    TopicEntities <- MCTopics
    ActionEntities <- MCActions
    MaxTopics = 4
    MaxActions = 2
INVARIANTS OrderDoesNotMatter
PROPERTIES MoreIsNotLess
CHECK_DEADLOCK FALSE
