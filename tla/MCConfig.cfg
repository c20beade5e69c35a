SPECIFICATION LaunchSpec
CONSTANTS
  RawConfigs <- MCRawConfigs
  MaxPort = 65535
  CameraName <- MCCameraName
  ProfileName <- MCProfileName
  OwnPorts <- MCOwnPorts
INVARIANT LaunchTypeOK
INVARIANT AcceptsExactly
INVARIANT SamplesAccepted
INVARIANT OnlyMediaMTXCollides
