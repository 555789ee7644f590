SPECIFICATION FairSpec
CONSTANTS
  Caps = {{}, {"jpg", "rfx"}, {"rfx"}, {"h264"}}
  UseAcks = {TRUE, FALSE}
  Unacked = {0, 2}
  Rects = {0, 1, 2}
  Outcomes = {"ok", "empty", "fail"}
  Window = 2
  MaxFrame = 3
  MayStop = TRUE
INVARIANTS TypeOK NoFreedFrameEncoded NoLostWakeup AckedPixelsAreDone FramesInOrder UnackedBounded
PROPERTY AckedUnlessUnseen
