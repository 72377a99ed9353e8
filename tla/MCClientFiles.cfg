SPECIFICATION MCSpec
CONSTANTS
  t1 = t1
  t2 = t2
  t3 = t3
  m1 = m1
  m2 = m2
  None = None
  Threads = {t1, t2, t3}
  Streaming = {t2, t3}
  Metas = {m1, m2}
  Fds = {3, 4}
  Addrs = {a1}
  MaxOpens = 3
  MaxReads = 1
  Word = 16
  Long = 32
  BlkSizes = {1, 2, 3}
  MaxSize = 6
  Counts = {0, 1, 2, 3, 5, 8}
  Offsets = {0, 1, 2, 5, 8, 31}
  MaxDelta = 2
  Nums = {3}
  Processes = {p1, p2}
  Names = {n1, n2}
  Slots = 2
  MaxKills = 2
  Nobody = Nobody
  UrlUsers = {u1, u2}
  Handles = {h1, h2}
  UrlSize = 5
  UrlBlock = 2
  NoUser = NoUser
  NoHandle = NoHandle
SYMMETRY Symmetry
INVARIANTS
  FindsItsFile
  NothingLeft
  ReadsExact
  SharedMemoryKept
  DownloadsSound
CHECK_DEADLOCK FALSE
