\* Start, serve and Stop on a Unix socket and a TCP listener with the
\* sweeper on, two clients sending requests of 8 bytes or more.
CONSTANTS
    a = a
    b = b
    Listeners <- TwoListeners
    AutoSweep = TRUE
    Enabled = {"redis", "memcache", "http", "postgres"}
    Conns = {a, b}
    Requests <- LongRequests
    CanFail = TRUE
    Auth = FALSE
SPECIFICATION Spec
INVARIANTS
    TypeOK
    QuietOnReturn
PROPERTIES
    ShutdownCompletes
    
CHECK_DEADLOCK FALSE
