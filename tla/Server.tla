------------------------------- MODULE Server -------------------------------
(***************************************************************************)
(* The server's lifecycle, src/internal/server/server.go, with the         *)
(* protocol detector of src/internal/protocol/detector.go.                 *)
(*                                                                         *)
(* Start opens the configured listeners in order, starts the sweeper and   *)
(* the signal goroutine, then runs one accept loop (serve) per listener    *)
(* and waits on the WaitGroup.  SIGINT runs Stop in the signal goroutine:  *)
(* cancel, close every listener, wait on the same WaitGroup.  Every        *)
(* accepted connection gets a goroutine that peeks 8 bytes, classifies     *)
(* them and runs a handler until its client closes.  When Start returns,   *)
(* main returns and the process exits.                                     *)
(*                                                                         *)
(* The WaitGroup is modelled as sync.WaitGroup implements it: one state    *)
(* word of counter v and waiter count w, and the two panics it raises      *)
(* when an Add races a Wait.  A panic ends the process.                    *)
(*                                                                         *)
(* A byte of a request is a one-character string, or a name for a control *)
(* byte ("CR", "LF", "NUL", "ETX", ...).                                   *)
(***************************************************************************)
EXTENDS Integers, Sequences, SequencesExt, FiniteSets

CONSTANTS
    Listeners,   \* the listeners setupListeners opens, in its order
    AutoSweep,   \* config.AutoSweep
    Enabled,     \* protocols whose handler New creates (config flags)
    Conns,       \* client connections
    Requests,    \* first bytes a client may send before it awaits a reply
    CanFail,     \* whether opening a listener may fail (bad address, cert)
    Auth         \* whether the HTTP handler has an auth token (config.Auth)

Protocols == {"redis", "http", "memcache", "postgres"}

ASSUME /\ Enabled \subseteq Protocols
       /\ CanFail \in BOOLEAN /\ AutoSweep \in BOOLEAN /\ Auth \in BOOLEAN

VARIABLES
    start,      \* Start's goroutine (main's)
    spawned,    \* serve loops Start has spawned so far
    stop,       \* the signal goroutine running Stop
    closed,     \* listeners Stop has closed so far
    cancelled,  \* s.ctx is cancelled
    serve,      \* serve[i]: the accept loop of listener i
    sweeper,    \* the sweeper goroutine
    wgV,        \* WaitGroup counter
    wgW,        \* WaitGroup waiters
    crashed,    \* a panic ended the process
    cst,        \* cst[c]: where connection c is
    req,        \* req[c]: the bytes client c sent
    eof,        \* eof[c]: client c closed its end
    via,        \* via[c]: the listener c connected to
    proto       \* proto[c]: what Detect classified c as

vars == <<start, spawned, stop, closed, cancelled, serve, sweeper, wgV, wgW,
          crashed, cst, req, eof, via, proto>>

LIdx == 1..Len(Listeners)

\* A listener accepts while Start opened it and Stop has not closed it.
Open(i) == start \notin {"init", "failed"} /\ i > closed

-----------------------------------------------------------------------------
(* detector.go: Detect classifies the peeked bytes.                        *)

HttpPrefixes ==
    { <<"G","E","T"," ">>, <<"P","O","S","T"," ">>, <<"P","U","T"," ">>,
      <<"D","E","L","E","T","E"," ">>, <<"H","E","A","D"," ">>,
      <<"O","P","T","I","O","N","S"," ">>, <<"P","A","T","C","H"," ">> }

MemcachePrefixes ==
    { <<"g","e","t"," ">>, <<"s","e","t"," ">>, <<"a","d","d"," ">>,
      <<"r","e","p","l","a","c","e"," ">>, <<"d","e","l","e","t","e"," ">>,
      <<"i","n","c","r"," ">>, <<"d","e","c","r"," ">>, <<"s","t","a","t","s">>,
      <<"f","l","u","s","h">>, <<"v","e","r","s","i","o","n">> }

HasPrefixIn(peek, P) == \E p \in P : IsPrefix(p, peek)

\* Detect on peek, the (at most 8) bytes Peek(8) returned.
Detect(peek) ==
    CASE Len(peek) = 0                                  -> "redis"
      [] peek[1] \in {"*", "$", "+", "-", ":"}          -> "redis"
      [] HasPrefixIn(peek, HttpPrefixes)                -> "http"
      [] HasPrefixIn(peek, MemcachePrefixes)            -> "memcache"
      [] Len(peek) >= 8 /\ SubSeq(peek, 5, 8) = <<"NUL", "ETX", "NUL", "NUL">>
                                                        -> "postgres"
      [] OTHER                                          -> "redis"

PeekReady(c) == Len(req[c]) >= 8 \/ eof[c]

PeekOf(s) == SubSeq(s, 1, IF Len(s) < 8 THEN Len(s) ELSE 8)
Peek(c) == PeekOf(req[c])

-----------------------------------------------------------------------------
(* The handler's first read of what the client sent: readCommand and      *)
(* readArray (redis.go), Handle's ReadString and the storage commands'    *)
(* field parsing (memcache.go), http.ReadRequest and handleSet (part_004), *)
(* handleStartup (part_005).  Each decoder says what the handler does with *)
(* the bytes: "reply" (a command read and answered), "close" (an error    *)
(* ends the handler), "more" (a read blocks for bytes not sent), "panic"  *)
(* (make with a negative length, or a negative slice bound: a runtime      *)
(* panic no goroutine recovers), "huge" (make of a wrapped uint32 length). *)
(* An HTTP header line that net/http reads whole is one element.           *)

Space == {" ", "TAB", "CR", "LF"}
DigitVal == "0" :> 0 @@ "1" :> 1 @@ "2" :> 2 @@ "3" :> 3 @@ "4" :> 4 @@
            "5" :> 5 @@ "6" :> 6 @@ "7" :> 7 @@ "8" :> 8 @@ "9" :> 9
\* The control bytes a Postgres length or version is made of.
Octet == "NUL" :> 0 @@ "ETX" :> 3 @@ "EOT" :> 4 @@ "BS" :> 8
Chunked == "Transfer-Encoding: chunked"
\* The header line that carries the configured token.
Bearer == "Authorization: Bearer token"

\* The end of ReadString('\n'): the index of the first LF, 0 if none.
LineEnd(s) == SelectInSeq(s, LAMBDA b : b = "LF")

RECURSIVE TrimSpace(_)
TrimSpace(s) ==
    IF s # <<>> /\ Head(s) \in Space THEN TrimSpace(Tail(s))
    ELSE IF s # <<>> /\ Last(s) \in Space THEN TrimSpace(Front(s))
    ELSE s

RECURSIVE Fields(_)
Fields(s) ==
    LET t == TrimSpace(s)
        j == SelectInSeq(t, LAMBDA b : b \in Space)
    IN IF t = <<>> THEN <<>>
       ELSE IF j = 0 THEN <<t>>
       ELSE <<SubSeq(t, 1, j - 1)>> \o Fields(SubSeq(t, j + 1, Len(t)))

\* The lines ReadString returns one by one, each trimmed.
RECURSIVE Lines(_)
Lines(s) ==
    IF LineEnd(s) = 0 THEN <<>>
    ELSE <<TrimSpace(SubSeq(s, 1, LineEnd(s)))>> \o Lines(SubSeq(s, LineEnd(s) + 1, Len(s)))

\* strconv.ParseUint / Atoi succeed: digits, with a sign for Atoi.
IsUint(s) == s # <<>> /\ \A i \in DOMAIN s : s[i] \in DOMAIN DigitVal
IsInt(s) == IsUint(IF s # <<>> /\ Head(s) \in {"+", "-"} THEN Tail(s) ELSE s)
Atoi(s) ==
    LET d == IF Head(s) \in {"+", "-"} THEN Tail(s) ELSE s
        n == FoldLeft(LAMBDA acc, b : 10 * acc + DigitVal[b], 0, d)
    IN IF Head(s) = "-" THEN -n ELSE n

\* binary.BigEndian.Uint32.
BigEndian(s) == FoldLeft(LAMBDA acc, b : 256 * acc + Octet[b], 0, s)

\* readArray's loop: n bulk strings still to read from s.  make([]byte,
\* size+2) panics on a negative length, buf[:size] on a negative bound.
RECURSIVE ReadArray(_, _)
ReadArray(s, n) ==
    LET i    == LineEnd(s)
        line == TrimSpace(SubSeq(s, 1, i))
        size == Atoi(Tail(line))
        data == SubSeq(s, i + 1, Len(s))
    IN IF n = 0 THEN "reply"
       ELSE IF i = 0 THEN "more"
       ELSE IF line = <<>> \/ Head(line) # "$" \/ ~IsInt(Tail(line)) THEN "close"
       ELSE IF size + 2 < 0 THEN "panic"
       ELSE IF Len(data) < size + 2 THEN "more"
       ELSE IF size < 0 THEN "panic"
       ELSE ReadArray(SubSeq(data, size + 3, Len(data)), n - 1)

\* Handle's loop over readCommand: an empty line or an empty array is
\* skipped; a '*' line is an array of Atoi(count) bulk strings, and
\* make([]string, 0, count) panics on a negative count; anything else is
\* an inline command.
RECURSIVE ReadCommand(_)
ReadCommand(s) ==
    LET i    == LineEnd(s)
        line == TrimSpace(SubSeq(s, 1, i))
        rest == SubSeq(s, i + 1, Len(s))
    IN IF i = 0 THEN "more"
       ELSE IF line = <<>> THEN ReadCommand(rest)
       ELSE IF Head(line) # "*" THEN "reply"
       ELSE IF ~IsInt(Tail(line)) THEN "close"
       ELSE IF Atoi(Tail(line)) < 0 THEN "panic"
       ELSE IF Atoi(Tail(line)) = 0 THEN ReadCommand(rest)
       ELSE ReadArray(rest, Atoi(Tail(line)))

\* The memcache commands that read a data block, with the fields each
\* parses before make([]byte, bytes): set/add/replace (handleStore),
\* cas (handleCAS), append/prepend (handleAppend).
McReadsData(p) ==
    \/ /\ p[1] \in {<<"s","e","t">>, <<"a","d","d">>, <<"r","e","p","l","a","c","e">>}
       /\ Len(p) >= 5 /\ IsUint(p[3]) /\ IsInt(p[4]) /\ IsInt(p[5])
    \/ /\ p[1] = <<"c","a","s">>
       /\ Len(p) >= 6 /\ IsUint(p[3]) /\ IsInt(p[4]) /\ IsInt(p[5]) /\ IsUint(p[6])
    \/ /\ p[1] \in {<<"a","p","p","e","n","d">>, <<"p","r","e","p","e","n","d">>}
       /\ Len(p) >= 5 /\ IsInt(p[5])

RECURSIVE McReadLine(_)
McReadLine(s) ==
    LET i     == LineEnd(s)
        parts == Fields(SubSeq(s, 1, i))
        data  == SubSeq(s, i + 1, Len(s))
    IN IF i = 0 THEN "more"
       ELSE IF parts = <<>> THEN McReadLine(data)
       ELSE IF ~McReadsData(parts) THEN "reply"
       ELSE IF Atoi(parts[5]) < 0 THEN "panic"
       ELSE IF Len(data) < Atoi(parts[5]) THEN "more"
       ELSE "reply"

\* The bytes after the header's empty line (there is one).
RECURSIVE AfterHeader(_)
AfterHeader(s) ==
    LET rest == SubSeq(s, LineEnd(s) + 1, Len(s)) IN
    IF TrimSpace(SubSeq(s, 1, LineEnd(s))) = <<>> THEN rest ELSE AfterHeader(rest)

\* handleSet of a request line (method, path, version): a chunked body has
\* ContentLength -1, and make([]byte, req.ContentLength) for a PUT or POST
\* to a key panics on it.
HandleSetPanics(rl, chunked) ==
    /\ rl[1] \in {<<"P","U","T">>, <<"P","O","S","T">>}
    /\ rl[2] # <<"/">>
    /\ chunked

\* Handle's loop over http.ReadRequest, which reads up to the empty line.
\* With an auth token set, a request without "Authorization: Bearer
\* <token>" gets its 401 written to the buffer and the loop goes on to read
\* the next request: the Flush after the switch is skipped.
RECURSIVE ReadRequest(_)
ReadRequest(s) ==
    LET ls    == Lines(s)
        blank == SelectInSeq(ls, LAMBDA l : l = <<>>)
        has(h) == \E j \in 2..blank - 1 : ls[j] = <<h>>
    IN IF blank = 0 THEN "more"
       ELSE IF blank = 1 \/ Len(Fields(ls[1])) # 3 THEN "close"
       ELSE IF Auth /\ ~has(Bearer) THEN ReadRequest(AfterHeader(s))
       ELSE IF HandleSetPanics(Fields(ls[1]), has(Chunked)) THEN "panic"
       ELSE "reply"

\* A length no client sends: 1 GiB.
HugeAlloc == 2^30

\* a - b in uint32.  Below zero it wraps to 2^32 - (b - a), past TLC's
\* integers; for b <= 8 that is at least 2^32 - 8, stood for by HugeAlloc.
Uint32Sub(a, b) == IF a >= b THEN a - b ELSE HugeAlloc

\* handleStartup: ReadFull of 8 bytes, the version check, then
\* make([]byte, length-8) in uint32 arithmetic: a length below 8 wraps.
HandleStartup(s) ==
    LET plen == Uint32Sub(BigEndian(SubSeq(s, 1, 4)), 8) IN
    IF Len(s) < 8 THEN "more"
    ELSE IF BigEndian(SubSeq(s, 5, 8)) # 196608 THEN "close"
    ELSE IF plen >= HugeAlloc THEN "huge"
    ELSE IF Len(s) - 8 < plen THEN "more"
    ELSE "reply"

\* readMessage: a 5-byte header (type, length), then make([]byte,
\* length-4) in uint32 arithmetic: a length field below 4 wraps.
ReadMessage(s) ==
    LET dlen == Uint32Sub(BigEndian(SubSeq(s, 2, 5)), 4) IN
    IF Len(s) < 5 THEN "more"
    ELSE IF dlen >= HugeAlloc THEN "huge"
    ELSE IF Len(s) - 5 < dlen THEN "more"
    ELSE "reply"

\* The Postgres handler: the startup packet is answered (AuthenticationOk
\* or the password request) before the loop's first readMessage, which
\* runs before the authentication check; after that answer only a huge
\* make changes what the client sees.
PgHandle(s) ==
    LET f    == HandleStartup(s)
        rest == SubSeq(s, BigEndian(SubSeq(s, 1, 4)) + 1, Len(s))
    IN IF f # "reply" THEN f
       ELSE IF ReadMessage(rest) = "huge" THEN "huge"
       ELSE "reply"

FirstRead(p, s) ==
    CASE p = "redis"    -> ReadCommand(s)
      [] p = "memcache" -> McReadLine(s)
      [] p = "http"     -> ReadRequest(s)
      [] p = "postgres" -> PgHandle(s)

\* What the handler Detect picks does with each request a client may send
\* (a constant, computed once).
Decoded == [r \in Requests |-> FirstRead(Detect(PeekOf(r)), r)]

-----------------------------------------------------------------------------
(* sync.WaitGroup over its state word: counter v (wgV), waiters w (wgW).  *)

\* Add(delta) panics when the counter goes negative, or when an Add(+1)
\* brings it up from zero while Wait callers are still registered.
WgAddPanics(delta) ==
    \/ wgV + delta < 0
    \/ wgW # 0 /\ delta > 0 /\ wgV + delta = delta

\* Add that brings the counter to zero with waiters must then Store(0) and
\* release them: the calling goroutine has that step still to take.
WgMustRelease(delta) == wgV + delta = 0 /\ wgW # 0

WgAdd(delta) == wgV' = wgV + delta

\* Wait: returns at once on a zero counter, else registers and blocks.
\* pcDone is where the caller goes on a zero counter.
WgWait(pc, pcDone) ==
    IF wgV = 0
    THEN /\ pc' = pcDone /\ UNCHANGED wgW
    ELSE /\ pc' = "blocked" /\ wgW' = wgW + 1

\* A woken Wait panics unless the state word is still zero.
WgWakePanics == wgV # 0 \/ wgW # 0

\* The process is alive: no panic, and Start has not returned.
Running == ~crashed /\ start \notin {"returned", "failed"}

Exited == ~Running

\* A goroutine panics: the whole process ends.
Panic ==
    /\ crashed' = TRUE
    /\ UNCHANGED <<start, spawned, stop, closed, cancelled, serve, sweeper, wgV, wgW,
                   cst, req, eof, via, proto>>

ConnVars == <<cst, req, eof, via, proto>>

-----------------------------------------------------------------------------
Init ==
    /\ start = "init"
    /\ spawned = 0
    /\ stop = "idle"
    /\ closed = 0
    /\ cancelled = FALSE
    /\ serve = [i \in LIdx |-> "none"]
    /\ sweeper = "none"
    /\ wgV = 0
    /\ wgW = 0
    /\ crashed = FALSE
    /\ cst = [c \in Conns |-> "none"]
    /\ req = [c \in Conns |-> <<>>]
    /\ eof = [c \in Conns |-> FALSE]
    /\ via = [c \in Conns |-> 0]
    /\ proto = [c \in Conns |-> "none"]

(* Start: setupListeners fails when no listener is configured or opening  *)
(* one fails; Start returns the error and main exits with status 1.        *)
StartSetupFails ==
    /\ start = "init"
    /\ Listeners = <<>> \/ CanFail
    /\ start' = "failed"
    /\ UNCHANGED <<spawned, stop, closed, cancelled, serve, sweeper, wgV, wgW, crashed>>
    /\ UNCHANGED ConnVars

\* Mutation: startSweeper without its wg.Add(1).
StartSetupNoAdd ==
    /\ start = "init"
    /\ Listeners # <<>>
    /\ start' = "spawn"
    /\ sweeper' = IF AutoSweep THEN "run" ELSE sweeper
    /\ UNCHANGED <<spawned, stop, closed, cancelled, serve, wgV, wgW, crashed>>
    /\ UNCHANGED ConnVars

(* Start: every listener open; startSweeper's wg.Add(1) and goroutine when *)
(* AutoSweep; signal.Notify and the signal goroutine.                      *)
StartSetup ==
    /\ start = "init"
    /\ Listeners # <<>>
    /\ start' = "spawn"
    /\ IF AutoSweep
       THEN wgV' = wgV + 1 /\ sweeper' = "run"
       ELSE UNCHANGED <<wgV, sweeper>>
    /\ UNCHANGED <<spawned, stop, closed, cancelled, serve, wgW, crashed>>
    /\ UNCHANGED ConnVars

(* Start's loop: wg.Add(1); go s.serve(listener), listener by listener.    *)
StartSpawn ==
    /\ Running /\ start = "spawn"
    /\ spawned < Len(Listeners)
    /\ IF WgAddPanics(1)
       THEN Panic
       ELSE /\ WgAdd(1)
            /\ spawned' = spawned + 1
            /\ serve' = [serve EXCEPT ![spawned + 1] = "accept"]
            /\ UNCHANGED <<start, stop, closed, cancelled, sweeper, wgW, crashed>>
            /\ UNCHANGED ConnVars

(* Start's s.wg.Wait(); a return from Start ends main and the process.     *)
StartWait ==
    /\ Running /\ start = "spawn"
    /\ spawned = Len(Listeners)
    /\ WgWait(start, "returned")
    /\ UNCHANGED <<spawned, stop, closed, cancelled, serve, sweeper, wgV, crashed>>
    /\ UNCHANGED ConnVars

StartWake ==
    /\ Running /\ start = "woken"
    /\ IF WgWakePanics
       THEN Panic
       ELSE /\ start' = "returned"
            /\ UNCHANGED <<spawned, stop, closed, cancelled, serve, sweeper, wgV, wgW, crashed>>
            /\ UNCHANGED ConnVars

(* The goroutine whose Add brought the counter to zero: Store(0) and a     *)
(* Semrelease for every registered waiter.  g is that goroutine's pc.      *)
WgRelease ==
    /\ Running
    /\ \/ \E i \in LIdx : serve[i] = "release" /\ serve' = [serve EXCEPT ![i] = "done"]
                                            /\ UNCHANGED sweeper
       \/ sweeper = "release" /\ sweeper' = "done" /\ UNCHANGED serve
    /\ wgW' = 0
    /\ start' = IF start = "blocked" THEN "woken" ELSE start
    /\ stop' = IF stop = "blocked" THEN "woken" ELSE stop
    /\ UNCHANGED <<spawned, closed, cancelled, wgV, crashed>>
    /\ UNCHANGED ConnVars

\* defer s.wg.Done() of a returning goroutine: Add(-1), after which it is
\* done, or still has to release the waiters.
DonePc == IF WgMustRelease(-1) THEN "release" ELSE "done"

-----------------------------------------------------------------------------
(* serve: Accept hands a queued connection to a new handleConnection      *)
(* goroutine; an Accept error on a closed listener returns once ctx is     *)
(* cancelled.  (Stop cancels before it closes, so the error branch's       *)
(* continue is never taken for a closed listener.)                         *)
ServeAccept(i, c) ==
    /\ Running /\ serve[i] = "accept" /\ Open(i)
    /\ cst[c] = "queued" /\ via[c] = i
    /\ cst' = [cst EXCEPT ![c] = "detect"]
    /\ UNCHANGED <<start, spawned, stop, closed, cancelled, serve, sweeper, wgV, wgW, crashed>>
    /\ UNCHANGED <<req, eof, via, proto>>

ServeReturn(i) ==
    /\ Running /\ serve[i] = "accept" /\ ~Open(i)
    /\ cancelled
    /\ IF WgAddPanics(-1)
       THEN Panic
       ELSE /\ WgAdd(-1)
            /\ serve' = [serve EXCEPT ![i] = DonePc]
            /\ UNCHANGED <<start, spawned, stop, closed, cancelled, sweeper, wgW, crashed>>
            /\ UNCHANGED ConnVars

(* startSweeper's goroutine returns on <-s.ctx.Done().  Its ticker branch  *)
(* calls Sweep and SweepEvicted, cache steps of the Cache modules.         *)
SweeperReturn ==
    /\ Running /\ sweeper = "run"
    /\ cancelled
    /\ IF WgAddPanics(-1)
       THEN Panic
       ELSE /\ WgAdd(-1)
            /\ sweeper' = DonePc
            /\ UNCHANGED <<start, spawned, stop, closed, cancelled, serve, wgW, crashed>>
            /\ UNCHANGED ConnVars

-----------------------------------------------------------------------------
(* Stop, run by the signal goroutine once SIGINT or SIGTERM arrives.       *)

\* <-sigCh: signal.Notify was installed by Start after setupListeners.
Signal ==
    /\ Running /\ start # "init" /\ stop = "idle"
    /\ stop' = "cancel"
    /\ UNCHANGED <<start, spawned, closed, cancelled, serve, sweeper, wgV, wgW, crashed>>
    /\ UNCHANGED ConnVars

\* Mutation: Stop closes the listeners without s.cancel().
StopCancelSkipped ==
    /\ Running /\ stop = "cancel"
    /\ stop' = "close"
    /\ UNCHANGED <<start, spawned, closed, cancelled, serve, sweeper, wgV, wgW, crashed>>
    /\ UNCHANGED ConnVars

StopCancel ==
    /\ Running /\ stop = "cancel"
    /\ cancelled' = TRUE
    /\ stop' = "close"
    /\ UNCHANGED <<start, spawned, closed, serve, sweeper, wgV, wgW, crashed>>
    /\ UNCHANGED ConnVars

\* Mutation: the loop runs one listener past the end.
StopCloseOffByOne ==
    /\ Running /\ stop = "close"
    /\ closed <= Len(Listeners)
    /\ closed' = closed + 1
    /\ cst' = [c \in Conns |-> IF cst[c] = "queued" /\ via[c] = closed + 1
                               THEN "reset" ELSE cst[c]]
    /\ UNCHANGED <<start, spawned, stop, cancelled, serve, sweeper, wgV, wgW, crashed>>
    /\ UNCHANGED <<req, eof, via, proto>>

\* listener.Close() of the next listener: connections in its backlog are
\* reset.
StopClose ==
    /\ Running /\ stop = "close"
    /\ closed < Len(Listeners)
    /\ closed' = closed + 1
    /\ cst' = [c \in Conns |-> IF cst[c] = "queued" /\ via[c] = closed + 1
                               THEN "reset" ELSE cst[c]]
    /\ UNCHANGED <<start, spawned, stop, cancelled, serve, sweeper, wgV, wgW, crashed>>
    /\ UNCHANGED <<req, eof, via, proto>>

StopWait ==
    /\ Running /\ stop = "close"
    /\ closed = Len(Listeners)
    /\ WgWait(stop, "done")
    /\ UNCHANGED <<start, spawned, closed, cancelled, serve, sweeper, wgV, crashed>>
    /\ UNCHANGED ConnVars

StopWake ==
    /\ Running /\ stop = "woken"
    /\ IF WgWakePanics
       THEN Panic
       ELSE /\ stop' = "done"
            /\ UNCHANGED <<start, spawned, closed, cancelled, serve, sweeper, wgV, wgW, crashed>>
            /\ UNCHANGED ConnVars

-----------------------------------------------------------------------------
(* Clients and the per-connection goroutine.                               *)

\* A client connects to an open listener and sends its first request; the
\* connection waits in the listener's backlog for Accept.
Connect(c, i, r) ==
    /\ Running /\ Open(i)
    /\ cst[c] = "none"
    /\ cst' = [cst EXCEPT ![c] = "queued"]
    /\ req' = [req EXCEPT ![c] = r]
    /\ via' = [via EXCEPT ![c] = i]
    /\ UNCHANGED <<start, spawned, stop, closed, cancelled, serve, sweeper, wgV, wgW, crashed>>
    /\ UNCHANGED <<eof, proto>>

\* The client gives up and closes its end.
ClientClose(c) ==
    /\ Running
    /\ cst[c] \in {"queued", "detect", "handling", "served", "reading"} /\ ~eof[c]
    /\ eof' = [eof EXCEPT ![c] = TRUE]
    /\ UNCHANGED <<start, spawned, stop, closed, cancelled, serve, sweeper, wgV, wgW, crashed>>
    /\ UNCHANGED <<cst, req, via, proto>>

(* handleConnection: Detect returns once Peek(8) does; the handler of the  *)
(* detected protocol runs if New created it, otherwise the connection is   *)
(* closed (TypeUnknown falls back to the Redis handler).                   *)
HandleConnection(c) ==
    /\ Running /\ cst[c] = "detect"
    /\ PeekReady(c)
    /\ LET p == Detect(Peek(c)) IN
       /\ proto' = [proto EXCEPT ![c] = p]
       /\ cst' = [cst EXCEPT ![c] = IF p \in Enabled THEN "handling" ELSE "closed"]
    /\ UNCHANGED <<start, spawned, stop, closed, cancelled, serve, sweeper, wgV, wgW, crashed>>
    /\ UNCHANGED <<req, eof, via>>

(* The handler's first read.  A panic, or the runtime's fatal out of      *)
(* memory on a huge make, ends the process.  A huge make that succeeds     *)
(* leaves the handler in ReadFull for bytes never sent ("reading"); a read *)
(* of bytes not sent ("more") fails once the client has closed.            *)
HandlerRead(c) ==
    /\ Running /\ cst[c] = "handling"
    /\ LET f == Decoded[req[c]] IN
       \/ f \in {"panic", "huge"} /\ Panic
       \/ /\ \/ f \in {"reply", "close"}
             \/ f = "more" /\ eof[c]
             \/ f = "huge"
          /\ cst' = [cst EXCEPT ![c] = CASE f = "reply" -> "served"
                                         [] f = "huge"  -> "reading"
                                         [] OTHER       -> "closed"]
          /\ UNCHANGED <<start, spawned, stop, closed, cancelled, serve, sweeper, wgV, wgW, crashed>>
          /\ UNCHANGED <<req, eof, via, proto>>

\* A handler blocked in a read (its loop's next request, or ReadFull after a
\* huge make) returns on the client's EOF; defer conn.Close().
HandlerReturn(c) ==
    /\ Running /\ cst[c] \in {"served", "reading"} /\ eof[c]
    /\ cst' = [cst EXCEPT ![c] = "closed"]
    /\ UNCHANGED <<start, spawned, stop, closed, cancelled, serve, sweeper, wgV, wgW, crashed>>
    /\ UNCHANGED <<req, eof, via, proto>>

-----------------------------------------------------------------------------
\* The steps the Go scheduler owes progress to: every runnable goroutine.
Server ==
    \/ StartSetupFails \/ StartSetup \/ StartSpawn \/ StartWait \/ StartWake
    \/ WgRelease \/ SweeperReturn
    \/ \E i \in LIdx : ServeReturn(i) \/ \E c \in Conns : ServeAccept(i, c)
    \/ StopCancel \/ StopClose \/ StopWait \/ StopWake
    \/ \E c \in Conns : HandleConnection(c) \/ HandlerRead(c) \/ HandlerReturn(c)

\* What the environment does: clients and the operator's signal.
Env ==
    \/ Signal
    \/ \E c \in Conns :
          \/ ClientClose(c)
          \/ \E i \in LIdx, r \in Requests : Connect(c, i, r)

Next == Server \/ Env

Fairness ==
    /\ WF_vars(StartSetupFails \/ StartSetup)
    /\ WF_vars(StartSpawn) /\ WF_vars(StartWait) /\ WF_vars(StartWake)
    /\ WF_vars(WgRelease) /\ WF_vars(SweeperReturn)
    /\ \A i \in LIdx : WF_vars(ServeReturn(i)) /\ WF_vars(\E c \in Conns : ServeAccept(i, c))
    /\ WF_vars(StopCancel) /\ WF_vars(StopClose) /\ WF_vars(StopWait) /\ WF_vars(StopWake)
    /\ \A c \in Conns : WF_vars(HandleConnection(c)) /\ WF_vars(HandlerRead(c))
                         /\ WF_vars(HandlerReturn(c))

Spec == Init /\ [][Next]_vars /\ Fairness

-----------------------------------------------------------------------------
(* Type invariant. *)
TypeOK ==
    /\ start \in {"init", "failed", "spawn", "blocked", "woken", "returned"}
    /\ spawned \in 0..Len(Listeners)
    /\ stop \in {"idle", "cancel", "close", "blocked", "woken", "done"}
    /\ closed \in 0..Len(Listeners)
    /\ cancelled \in BOOLEAN
    /\ serve \in [LIdx -> {"none", "accept", "release", "done"}]
    /\ sweeper \in {"none", "run", "release", "done"}
    /\ wgV \in Nat /\ wgW \in 0..2
    /\ crashed \in BOOLEAN
    /\ cst \in [Conns -> {"none", "queued", "detect", "handling", "reading", "served",
                               "closed", "reset"}]
    /\ req \in [Conns -> Requests \cup {<<>>}]
    /\ eof \in [Conns -> BOOLEAN]
    /\ via \in [Conns -> 0..Len(Listeners)]
    /\ proto \in [Conns -> Protocols \cup {"none"}]

(* Start returns only when every goroutine it waits for has returned:     *)
(* the accept loops and the sweeper.  Start's return ends main, so a       *)
(* goroutine still running would be cut off (a sweep in the middle of a    *)
(* shard).  It takes the WaitGroup's Add in Start and Done in each         *)
(* goroutine to balance across the interleaving with Stop.                 *)
QuietOnReturn ==
    start = "returned" =>
        /\ \A i \in LIdx : serve[i] \in {"release", "done"}
        /\ sweeper \in {"none", "release", "done"}

(* Every request is answered while its client waits (spec 7: an auth    *)
(* failure gets an error response and the connection stays open): the     *)
(* connection is dispatched (Detect's Peek(8) returns), and its handler   *)
(* writes and flushes a reply or closes it.  A handler's read of bytes    *)
(* the client has not sent ends only on the client's EOF.                 *)
EveryRequestAnswered ==
    \A c \in Conns : cst[c] \in {"queued", "detect", "handling", "reading"}
                        ~> (cst[c] \in {"served", "closed", "reset"} \/ Exited)

ShutdownCompletes == stop # "idle" ~> Exited

(* No goroutine panics, so the process ends only by Start's return.  A    *)
(* panic in any goroutine ends the process and every client's connection: *)
(* a handler's make() on a length a client sent, or Start's wg.Add racing *)
(* Stop's wg.Wait.                                                          *)
NoPanic == ~crashed
====
