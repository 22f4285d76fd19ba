------------------------------ MODULE MCServer ------------------------------
(***************************************************************************)
(* Model-checking instance of Server: first requests of each protocol,    *)
(* written byte by byte ("CR" "LF" for \r\n, "NUL" "BS" "ETX" for 0x00,    *)
(* 0x08, 0x03).                                                            *)
(***************************************************************************)
EXTENDS Server, TLC

CONSTANTS a, b

\* redis-cli's PING: *1\r\n$4\r\nPING\r\n
RespPing == <<"*","1","CR","LF","$","4","CR","LF","P","I","N","G","CR","LF">>

\* get foo\r\n
McGetFoo == <<"g","e","t"," ","f","o","o","CR","LF">>

\* GET /x HTTP/1.1\r\n\r\n, with no Authorization header (curl without -H).
Http401Get == <<"G","E","T"," ","/","x"," ","H","T","T","P","/","1",".","1","CR","LF","CR","LF">>

\* A Postgres startup packet of length 8: 00 00 00 08 00 03 00 00.
PgStartup == <<"NUL","NUL","NUL","BS","NUL","ETX","NUL","NUL">>

\* A Postgres startup packet whose length field, 4, is shorter than the
\* 8 bytes it was read with: 00 00 00 04 00 03 00 00.
PgShortStartup == <<"NUL","NUL","NUL","EOT","NUL","ETX","NUL","NUL">>

\* A startup packet of length 8, then a message 'Q' whose length field, 3,
\* is shorter than the 4 bytes it counts itself.
PgStartupShortMsg ==
    <<"NUL","NUL","NUL","BS","NUL","ETX","NUL","NUL",
      "Q","NUL","NUL","NUL","ETX">>

\* The memcache stats command: stats\r\n, 7 bytes.
McStats == <<"s","t","a","t","s","CR","LF">>

\* An inline Redis PING: PING\r\n, 6 bytes.
InlinePing == <<"P","I","N","G","CR","LF">>

\* *1\r\n$-5\r\n: an array of one bulk string of length -5.
RespNegBulk == <<"*","1","CR","LF","$","-","5","CR","LF">>

\* set k 0 0 -1\r\n: a data block of -1 bytes.
McSetNeg == <<"s","e","t"," ","k"," ","0"," ","0"," ","-","1","CR","LF">>

\* set k 0 0 1\r\nx\r\n
McSetOne == <<"s","e","t"," ","k"," ","0"," ","0"," ","1","CR","LF","x","CR","LF">>

\* PUT /k HTTP/1.1\r\nTransfer-Encoding: chunked\r\n\r\n (curl -T - sends this)
HttpChunkedPut ==
    <<"P","U","T"," ","/","k"," ","H","T","T","P","/","1",".","1","CR","LF",
      Chunked,"CR","LF","CR","LF">>

\* Start opens a Unix socket, then the TCP port.
TwoListeners == <<"unix", "tcp">>

\* The TCP port alone.
OneListener == <<"tcp">>

\* Only the short stats command.
ShortStats == {McStats}

\* A request to each handler whose answer is never sent while the client waits.
Unanswered == {McStats, Http401Get}

\* Requests of at least 8 bytes: a RESP PING, and a Postgres startup
\* packet with a length field below 8.
LongRequests == {RespPing, PgShortStartup}

\* Requests that declare a negative length, or a Postgres length that
\* wraps below zero in uint32.
BadLengths == {RespNegBulk, McSetNeg, HttpChunkedPut, PgStartupShortMsg}
=============================================================================
