\* any two functions missing, or the whole dll; up to two devices
SPECIFICATION BulkSpec
CONSTANTS
  NoLibrary = NoLibrary
  Libraries <- MCLibraries
  DeviceLists <- MCDeviceLists
  MY_VID = 1
  MY_PID = 1
  BUF_SIZE = 2
INVARIANTS GivenBack SuccessIsTrue
CHECK_DEADLOCK FALSE
