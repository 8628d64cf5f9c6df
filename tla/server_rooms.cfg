SPECIFICATION FairSpec
CONSTANTS
  Fds = {a, b}
  NoFd = NoFd
  MaxClient = 2
  MaxConnects = 1
  MaxCopies = 2
  MaxInputs = 0
  MaxRooms = 1
INVARIANTS RoomFound
PROPERTIES StaysCovered RoomCloses
CHECK_DEADLOCK FALSE
