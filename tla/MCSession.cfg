SPECIFICATION SessionSpec
CONSTANTS
  RawConfigs <- MCRawConfigs
  MaxPort = 65535
  CameraName <- MCCameraName
  ProfileName <- MCProfileName
  OwnPorts = {1935, 8888, 8889}
  ClientLogins <- MCFewLogins
  Messages <- MCMessages
INVARIANT SessionTypeOK
INVARIANT GetsWhatItChose
INVARIANT LoginDecides
INVARIANT AnsweredAsMeant
PROPERTY SessionSucceeds
