SPECIFICATION LaunchSpec
CONSTANTS
  RawConfigs <- MCSomeConfigs
  MaxPort = 65535
  CameraName <- MCCameraName
  ProfileName <- MCProfileName
  OwnPorts <- MCOwnPorts
PROPERTY ValidConfigStarts
