SPECIFICATION FairSpec
CONSTANTS
  Caps = {{"rfx"}}
  UseAcks = {TRUE}
  Unacked = {1}
  Rects = {1}
  Outcomes = {"ok", "fail"}
  Window = 1
  MaxFrame = 2
  MayStop = TRUE
PROPERTIES EveryFrameAcked
