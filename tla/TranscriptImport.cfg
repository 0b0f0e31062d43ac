CONSTANTS
  Absent = Absent
  Session = Session
  Root = Root
  RepoA = RepoA
  RepoB = RepoB
  c1 = c1
  c2 = c2
  HomeDir = Root
  DefaultDir = DefaultDir
  CustomDir = CustomDir
  Calls = {c1, c2}
  ProjectOf <- MCProjectOf
  GenericProjects <- MCGenericProjects
  TurnDirs <- MCTurnDirs
  CallSpec <- MCCallSpec
  CallOrders <- MCCallOrders
  Endings <- MCEndings
  LastTexts <- MCLastTexts
  Texts <- MCTexts
  Reply <- MCReply
  CallCap = 1
  MessageCap = 2
  GuardSample = 2
  StateSample = 3
  ContextTail = 4
  MaxLines = 6
  MaxStream = 4
  MaxLost = 1
SPECIFICATION ImportSpec
INVARIANTS
  AnswersStayPrivate
  ResultsNameTheirCall
  LiveAsFromStart
  UserLinesTold
  CheckpointIsRunning
CHECK_DEADLOCK FALSE
