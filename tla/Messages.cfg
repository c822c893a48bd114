SPECIFICATION Spec
CONSTANTS
  MSG_NUM_MAX = 3
  BufNum = 2
  Mailboxes <- MCMailboxes
  Reporters = {capture, interrupt}
  SAMPLE_INFO_ARRAY_MAX = 2
  MaxSamples = 3
  MaxPictures = 3
  Cameras = {1}
  CameraBox <- MCCameraBox
  AnswerRing = 2
  MaxCommands = 3
  Judges = {capture, interrupt}
  Resetters = {pc, ui}
  SAMPLE_ARRAY_MAX = 2
  SocketRoom = 1
  MaxResults = 3
  MaxResets = 2
  MaxRejects = 2
  MAX_COUNT_ARRAY = 3
  MaxTriggers = 5
  MaxZeroed = 1
  Groups = {1, 2, 3}
  Buffers = {1}
  NoBuffer = 0
  MaxPairs = 3
  MaxForgotten = 1
  Work <- MCWork
  Rejects <- MCRejects
  Results <- MCResults
  ResetsOf <- MCResets
INVARIANTS TypeOK PoolsAccounted ClaimsExact UploadsIntact AnswersInOrder
 OneRejectConnection ResetAccounted ResultIntact LateOncePerJudge NumberIsTrigger
 GroupsAccounted
CHECK_DEADLOCK FALSE
PROPERTIES AbilityReturns ResetReturns
