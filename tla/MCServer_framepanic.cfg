\* One client on the TCP port sends a first request that declares a
\* negative length (a RESP bulk of length -5, a memcache set of -1 bytes,
\* an HTTP PUT with a chunked body) or a Postgres message length below 4;
\* every handler enabled, the sweeper off as main runs it.
CONSTANTS
    a = a
    b = b
    Listeners <- OneListener
    AutoSweep = FALSE
    Enabled = {"redis", "http", "memcache", "postgres"}
    Conns = {a}
    Requests <- BadLengths
    CanFail = FALSE
    Auth = FALSE
SPECIFICATION Spec
INVARIANTS
    NoPanic
CHECK_DEADLOCK FALSE
