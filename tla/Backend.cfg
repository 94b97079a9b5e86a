SPECIFICATION Spec
CONSTANTS
  u1 = u1
  u2 = u2
  c1 = c1
  p1 = p1
  p2 = p2
  short = short
  long = long
  NoUser = NoUser
  NoJob = NoJob
  NoPassword = NoPassword
  Reqs = {1, 2}
  Users = {u1, u2}
  Chats = {c1}
  Passwords = {p1, p2}
  Texts = {short, long}
  Chars <- TextChars
  Registered <- OneRegistered
  TokenChars = 4
  MaxToken = 1
  MaxBreak = 1
  Window = 2
  BaseURL <- BaseV1
  CtxSize = 48
  Reserve = 512
  SystemChars = 74
  MaxFault = 1
INVARIANTS
  PromptEndsWithQuestion
  PromptFits
  OneAttemptsAnswer
  UntitledOnlyAfterTrouble
  CreatedIsMine
PROPERTIES
  KeepsPromise
  EveryStepAdvances
CHECK_DEADLOCK FALSE
