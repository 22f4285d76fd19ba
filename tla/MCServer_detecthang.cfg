\* One client on the TCP port sends memcache's stats\r\n (7 bytes), or an
\* HTTP GET without the configured token, and waits for the answer, with
\* memcache and HTTP enabled, an auth token set and the sweeper off.
CONSTANTS
    a = a
    b = b
    Listeners <- OneListener
    AutoSweep = FALSE
    Enabled = {"memcache", "http"}
    Conns = {a}
    Requests <- Unanswered
    CanFail = FALSE
    Auth = TRUE
SPECIFICATION Spec
PROPERTIES
    EveryRequestAnswered
CHECK_DEADLOCK FALSE
