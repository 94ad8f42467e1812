\* One handle of each kind in turn, all operations.
CONSTANTS
  h1 = h1
  Handles = {h1}
  Kinds = {"timer", "idle", "prepare", "check", "poll", "signal", "fs_event",
           "fs_poll", "tcp", "pipe", "tty", "udp", "process"}
  MaxReqs = 2
  MaxDefers = 2
  MaxDepth = 2
SPECIFICATION FairSpec
INVARIANTS UvMemoryIsAlive PushselfFinds LockDiscipline ClosedIsQuiet
  DataOutlivesCloseCb StartLockFollowsWatcher
PROPERTIES CloseCompletes ForgottenIsClosed
CHECK_DEADLOCK FALSE
