SPECIFICATION BotSpec
CONSTANTS
  Bots = {b1, b2, b3}
  NoBot = NoBot
  Starts = 2
  Rounds = 3
  Patience = 0
INVARIANT
  NeverTwoPollers
CHECK_DEADLOCK FALSE
