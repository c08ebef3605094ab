----------------------------- MODULE EventStream -----------------------------
(***************************************************************************)
(* The live event log of the web interface: the ring buffer and its        *)
(* listeners (src/src/cgateWebBridge.js), the streams of the browsers      *)
(* (src/src/web/sseHandler.js), and the web server they hang on while it   *)
(* starts and closes (src/src/webServer.js).                               *)
(*                                                                         *)
(* Entries are numbered.  A browser's socket refuses writes some time      *)
(* before its 'close' is heard.                                            *)
(***************************************************************************)
EXTENDS Naturals, Sequences, FiniteSets

CONSTANTS
  Browsers,
  LogSize,      \* eventLogMaxEntries
  MaxStreams,   \* web_max_sse_connections
  MaxEntries    \* bound: entries logged

ASSUME StreamAssumption == LogSize \in Nat \ {0} /\ MaxStreams \in Nat \ {0} /\ MaxEntries \in Nat

VARIABLES
  ring,       \* slots: _eventLogBuffer; head: _eventLogHead; count: _eventLogCount
  logged,     \* entries so far
  listeners,  \* _eventLogListeners: whose listener is subscribed
  socket,     \* per browser: none, open, dead (refuses writes); late: dead, its 'close' is over
  shown,      \* history, per browser with a stream: from: the first entry due; got: entries written
  streams,    \* _connections
  server      \* phase of the web server; closing: close() waits

streamVars == <<ring, logged, listeners, socket, shown, streams, server>>

NoStream == [from |-> 0, got |-> <<>>]

StreamInit ==
  /\ ring = [slots |-> [i \in 0..(LogSize - 1) |-> 0], head |-> 0, count |-> 0]
  /\ logged = 0 /\ listeners = {} /\ streams = {}
  /\ socket = [b \in Browsers |-> "none"] /\ shown = [b \in Browsers |-> NoStream]
  /\ server = [phase |-> "off", closing |-> FALSE]

-----------------------------------------------------------------------------
(* The ring *)

\* Mutation: the head stays on the slot that was overwritten.
HeadStays(e) ==
  IF ring.count < LogSize
    THEN [ring EXCEPT !.slots[(ring.head + ring.count) % LogSize] = e, !.count = @ + 1]
  ELSE [ring EXCEPT !.slots[ring.head] = e]

\* _onEventLog: a full ring overwrites its oldest entry.
Stored(e) ==
  IF ring.count < LogSize
    THEN [ring EXCEPT !.slots[(ring.head + ring.count) % LogSize] = e, !.count = @ + 1]
  ELSE [ring EXCEPT !.slots[ring.head] = e, !.head = (@ + 1) % LogSize]

\* getRecent.
Recent(r) == [i \in 1..r.count |-> r.slots[(r.head + i - 1) % LogSize]]

\* A write to a socket that refuses it cleans the stream up.
EntryLogged ==
  LET gone == {b \in listeners : socket[b] # "open"}
  IN  /\ logged < MaxEntries /\ logged' = logged + 1
      /\ ring' = Stored(logged')
      /\ shown' = [b \in Browsers |-> IF b \in listeners \ gone THEN [shown[b] EXCEPT !.got = Append(@, logged')]
                                      ELSE IF b \in gone THEN NoStream ELSE shown[b]]
      /\ listeners' = listeners \ gone /\ streams' = streams \ gone
      /\ UNCHANGED <<socket, server>>

-----------------------------------------------------------------------------
(* Streams *)

CleanUp(b) ==
  /\ streams' = streams \ {b} /\ listeners' = listeners \ {b}
  /\ shown' = [shown EXCEPT ![b] = NoStream]

\* A request arrives; its browser may be gone when it is handled.
Requested(b) ==
  /\ server.phase = "listening" /\ socket[b] = "none"
  /\ socket' = [socket EXCEPT ![b] = "open"]
  /\ UNCHANGED <<ring, logged, listeners, shown, streams, server>>

Opened(b) ==
  /\ streams' = streams \cup {b} /\ listeners' = listeners \cup {b}
  /\ shown' = [shown EXCEPT ![b] = [from |-> logged - ring.count + 1, got |-> IF socket[b] = "open" THEN Recent(ring) ELSE <<>>]]

\* handle: refused at the cap; a replay that cannot be written ends it.
StreamHandled(b) ==
  /\ socket[b] # "none" /\ b \notin streams /\ server.phase = "listening"
  /\ IF Cardinality(streams) >= MaxStreams \/ (socket[b] # "open" /\ ring.count > 0)
       THEN /\ socket' = [socket EXCEPT ![b] = "none"]
            /\ UNCHANGED <<listeners, shown, streams>>
       ELSE Opened(b) /\ UNCHANGED socket
  /\ UNCHANGED <<ring, logged, server>>

\* The socket refuses writes from now on; of a request not handled yet the 'close' may
\* be over before anybody listens for it.
BrowserLeaves(b) ==
  /\ socket[b] = "open"
  /\ socket' \in {[socket EXCEPT ![b] = s] : s \in IF b \in streams THEN {"dead"} ELSE {"dead", "late"}}
  /\ UNCHANGED <<ring, logged, listeners, shown, streams, server>>

\* 'close' or 'error' of the request or its response.
CloseHeard(b) ==
  /\ socket[b] = "dead" /\ b \in streams
  /\ CleanUp(b) /\ socket' = [socket EXCEPT ![b] = "none"]
  /\ UNCHANGED <<ring, logged, server>>

\* The keep-alive finds a socket that refuses it.
KeepaliveFails(b) ==
  /\ b \in streams /\ socket[b] # "open"
  /\ CleanUp(b) /\ socket' = [socket EXCEPT ![b] = "none"]
  /\ UNCHANGED <<ring, logged, server>>

\* What is left of a browser whose stream was cleaned up.
SocketGone(b) ==
  /\ socket[b] \in {"dead", "late"} /\ b \notin streams
  /\ socket' = [socket EXCEPT ![b] = "none"]
  /\ UNCHANGED <<ring, logged, listeners, shown, streams, server>>

-----------------------------------------------------------------------------
(* The web server *)

ServerStarts ==
  /\ server = [phase |-> "off", closing |-> FALSE] /\ server' = [server EXCEPT !.phase = "binding"]
  /\ UNCHANGED <<ring, logged, listeners, socket, shown, streams>>

ServerBinds ==
  /\ server.phase = "binding" /\ \E p \in {"listening", "failed"} : server' = [server EXCEPT !.phase = p]
  /\ UNCHANGED <<ring, logged, listeners, socket, shown, streams>>

CloseRequested ==
  /\ server.phase # "off" /\ ~server.closing /\ server' = [server EXCEPT !.closing = TRUE]
  /\ UNCHANGED <<ring, logged, listeners, socket, shown, streams>>

\* Once start() is through: closeAll, closeAllConnections, close.
ServerCloses ==
  /\ server.closing /\ server.phase \in {"listening", "failed"}
  /\ server' = [server EXCEPT !.phase = "closed"]
  /\ streams' = {} /\ listeners' = listeners \ streams
  /\ shown' = [b \in Browsers |-> NoStream] /\ socket' = [b \in Browsers |-> "none"]
  /\ UNCHANGED <<ring, logged>>

StreamNext ==
  \/ EntryLogged \/ ServerStarts \/ ServerBinds \/ CloseRequested \/ ServerCloses
  \/ \E b \in Browsers :
       \/ Requested(b) \/ StreamHandled(b) \/ BrowserLeaves(b) \/ CloseHeard(b) \/ KeepaliveFails(b) \/ SocketGone(b)

StreamSpec == StreamInit /\ [][StreamNext]_streamVars

-----------------------------------------------------------------------------
(* Properties *)

Run(from, to) == [i \in 1..(to - from + 1) |-> from + i - 1]

\* The ring holds the newest entries in order, through every wrap; a stream whose
\* browser is there has what was in it when it began and every later entry, once and
\* in order; each listener belongs to a stream and each stream has one, so that none
\* outlives its browser's clean-up or the server; and there are no more than allowed
\* (cgateWebBridge.js:399-432, sseHandler.js:28-123, webServer.js:247-276).
StreamsFaithful ==
  /\ Recent(ring) = Run(logged - ring.count + 1, logged)
  /\ ring.count = IF logged < LogSize THEN logged ELSE LogSize
  /\ \A b \in streams : socket[b] = "open" => shown[b].got = Run(shown[b].from, logged)
  /\ listeners = streams /\ Cardinality(streams) <= MaxStreams
  /\ server.phase = "closed" => listeners = {}
=============================================================================
