SPECIFICATION Spec
CONSTANTS
  Replies <- AllReplies
INVARIANT BothKinds
