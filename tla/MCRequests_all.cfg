\* d0 is the program's own descriptor.  Addresses of files, requests and
\* buffers, and descriptors, are reused for ever.
\* Three references: the callback, data and context of a write, or two requests
\* and a reader.
CONSTANTS
  f1 = f1
  r1 = r1
  r2 = r2
  b1 = b1
  b2 = b2
  d0 = d0
  d1 = d1
  None = None
  Files = {f1}
  Reqs = {r1, r2}
  Bufs = {b1, b2}
  Fds = {d0, d1}
  Given = {d0}
  tcp = tcp
  udp = udp
  q1 = q1
  q2 = q2
  Streams = {tcp}
  Udps = {udp}
  Addrs = {q1, q2}
  NoHandle = NoHandle
  MaxSlots = 3
  MaxDefers = 1
SPECIFICATION RequestsSpec
INVARIANTS MemoryOutlivesRequest DescriptorsAreOwned
           OwnReferences OnlyRestartsLeak BuffersAreBack
PROPERTIES NocloseIsKept ForgottenFileIsClosed RequestsComplete
CHECK_DEADLOCK FALSE
