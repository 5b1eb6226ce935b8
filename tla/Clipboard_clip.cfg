SPECIFICATION Spec
CONSTANTS
  blank = blank
  word = word
  line = line
  pic = pic
  twin = twin
  Contents = {blank, word, line, pic, twin}
  Images = {pic, twin}
  Concealed = {}
  Empty = blank
  MacCopies = {line, pic}
  PhoneCopies = {twin}
  Typed = {blank, twin}
  Trim <- MCTrim
  Key <- MCKey
  Tickers = {t1, t2}
  Users = {u1}
  Timer = timer
  Reader = reader
  Http = http
  None = None
  Modes = {"both", "android_to_mac", "mac_to_android"}
  MaxTime = 2
  MaxAt = 2
  MaxEvents = 3
SYMMETRY TickerSymmetry
CHECK_DEADLOCK FALSE
INVARIANTS Converge BoardsMatch NoBounce
PROPERTIES StampsRise
