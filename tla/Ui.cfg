SPECIFICATION FairSpec
CONSTANTS
  Texts <- MCTexts
  NoText = ""
  ErrName = "ESP_FAIL"
  Depth = 3
  Asked <- MCAsked
INVARIANTS
  TypeOK
  OneInLvgl
  WidgetsFit
PROPERTIES
  FeedImplemented
  SendReturns
