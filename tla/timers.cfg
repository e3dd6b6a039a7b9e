SPECIFICATION FairSpec
CONSTANTS
  Limits <- McLimits
  DefaultLimits <- McDefaultLimits
  Options <- McOptions
  DefaultKeepAlive = 3
  DefaultTimeout = 1
  Width = 3
  MaxLate = 1
  MaxPings = 2
  
PROPERTIES AnsweredIsKept LostIsFoundAgain
