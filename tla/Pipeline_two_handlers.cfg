\* Two handlers, four lines, channels of one or two slots: every stage blocks
\* on a full and on an empty channel.
SPECIFICATION Spec
CONSTANTS
  H = 2
  Lines = 4
  BufferSize = 2
  ChannelSize = 1
  NoEvent = NoEvent
INVARIANTS
  TypeOK
  NeverTerminates
  OrderKept
  NothingLost
  CompleteOnReturn
PROPERTY
  EventuallyReturns
CHECK_DEADLOCK FALSE
