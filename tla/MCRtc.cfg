SPECIFICATION RtcFairSpec
CONSTANTS
  Program = {p, q, r}
  Tty = {0, 1}
  BootTty = 0
  Requests <- MCRequests
  Contents = 2
  p = p
  q = q
  r = r
PROPERTIES
  TickBetweenReads
  SomeReaderReturns
  ScreenRepainted
