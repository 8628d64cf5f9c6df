SPECIFICATION Spec
CONSTANTS
  Fds = {a, b, c}
  NoFd = NoFd
  MaxClient = 2
  MaxConnects = 1
  MaxCopies = 1
  MaxInputs = 1
  MaxRooms = 1
SYMMETRY Symmetry
INVARIANTS RoomProtocol AcceptedBound ReadyFdWaits NoWaiterForgotten
CHECK_DEADLOCK FALSE
