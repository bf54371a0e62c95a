CONSTANTS
  Slots = {"refresh", "press"}
  MaxRelease = 2
SPECIFICATION CSpec
INVARIANT CTypeOK
INVARIANT EntitiesHaveData
INVARIANT ChangesNotOlder
INVARIANT CheckIsShown
PROPERTY NeverShownOlder
PROPERTY CheckIsFollowed
