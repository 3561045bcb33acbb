SPECIFICATION FairSpec
CONSTANTS
  User = {"root", "alice"}
  Root = "root"
  MaxAuthtries = 2
  MaxMsgs = 2
  MaxAttempts = 3
INVARIANTS SuccessEarned NothingLeftOpen
PROPERTIES DeniedForGood ConversationEnds
