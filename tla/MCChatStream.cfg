SPECIFICATION Spec
CONSTANTS
  s1 = s1
  s2 = s2
  c1 = c1
  u1 = u1
  u2 = u2
  Nobody = nobody
  Streams <- TwoStreams
  Conversations <- OneConversation
  ConversationOf <- Shared
  Users <- TwoUsers
  UserOf <- OwnUser
INVARIANTS
  TypeOK
  CancelWins
  FinalAnswerIsStored
  ViewIsPrefix
  MessagesOfOwner
PROPERTIES
  StreamEnds
CHECK_DEADLOCK FALSE
