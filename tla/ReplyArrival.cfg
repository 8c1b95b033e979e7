CONSTANT Replies <- MCAllReplies
SPECIFICATION Spec
INVARIANTS EntireReplyIsComplete EarlyOnlyInArrays
\* A reply ends.
CHECK_DEADLOCK FALSE
