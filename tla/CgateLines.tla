------------------------------ MODULE CgateLines ------------------------------
(***************************************************************************)
(* From the bytes of a C-Gate socket to the component they are for: lines  *)
(* out of chunks (src/src/lineProcessor.js), one processor per slot of the *)
(* command pool and one for the event port (src/src/cgateWebBridge.js),    *)
(* and the routing of answers (src/src/commandResponseProcessor.js) and of *)
(* event lines (src/src/cgateWebBridge.js).                                *)
(*                                                                         *)
(* A line is a sequence of tokens that begins with its kind; Mark is the   *)
(* delimiter.  Kinds of the command port: tree (343, 347, 344), level and  *)
(* interface (300), lifecycle (742), sync (762), error (4xx, 5xx); of the  *)
(* event port: level, sync, application (native, of a handler), comment.   *)
(* A line that is "bad" makes its handler throw.                           *)
(***************************************************************************)
EXTENDS Integers, Sequences, FiniteSets

CONSTANTS
  CommandPorts, \* slots of the command pool
  EventPort,
  LineSet,      \* lines C-Gate sends, without their delimiter
  Mark,
  MaxBuffer,    \* cgateLineBufferMaxBytes
  MaxFragments, \* commandResponseMaxPendingTreeMessages
  MaxLines      \* bound: lines sent, connections replaced

Ports == CommandPorts \cup {EventPort}

ASSUME LinesAssumption ==
  /\ EventPort \notin CommandPorts
  /\ MaxBuffer \in Nat \ {0} /\ MaxFragments \in Nat \ {0} /\ MaxLines \in Nat
  /\ \A l \in LineSet : l # <<>> /\ l \in Seq({l[i] : i \in DOMAIN l} \ {Mark})

VARIABLES
  stream,   \* per port: tokens sent and not received yet
  got,      \* per port: history of the tokens received; a Mark where a processor was closed
  buffer,   \* per port: _buffer
  cut,      \* per port: tokens were dropped at the limit
  handled,  \* per port: history of the lines
  tree,     \* ready: there is an HaDiscovery; pending: _pendingTreeMessages;
            \* given: what it was given; heard: history of the fragments kept
  calls,    \* history: per component, how often it was called
  lines

lineVars == <<stream, got, buffer, cut, handled, tree, calls, lines>>

Components == {"publish", "state", "discovery", "security", "resync", "interface", "error", "handler"}

LinesInit ==
  /\ stream = [p \in Ports |-> <<>>] /\ got = [p \in Ports |-> <<>>]
  /\ buffer = [p \in Ports |-> <<>>] /\ cut = [p \in Ports |-> FALSE]
  /\ handled = [p \in Ports |-> <<>>]
  /\ tree = [ready |-> FALSE, pending |-> <<>>, given |-> <<>>, heard |-> <<>>]
  /\ calls = [c \in Components |-> 0] /\ lines = 0

-----------------------------------------------------------------------------
(* Routing *)

WhenReady(c) == IF tree.ready THEN c ELSE <<>>

\* _handleNetworkSyncComplete of the bridge.
SyncComplete == WhenReady(<<"discovery">>) \o <<"security", "resync">>

\* processLine, _processCommandResponse: the components called for an answer.  An answer
\* 762 goes to discovery, and to the bridge, which tells discovery again.
CommandCalls(kind) ==
  CASE kind = "level"     -> <<"publish">> \o WhenReady(<<"discovery">>) \o <<"state">>
    [] kind = "interface" -> <<"interface">>
    [] kind = "lifecycle" -> WhenReady(<<"discovery">>)
    [] kind = "sync"      -> WhenReady(<<"discovery">>) \o SyncComplete
    [] kind = "error"     -> <<"error">>
    [] OTHER              -> <<>>

\* _processEventLine: the handlers of the applications first, then comments, syncs, and
\* events of groups.
EventCalls(kind) ==
  CASE kind = "application" -> <<"handler">>
    [] kind = "sync"        -> SyncComplete
    [] kind = "level"       -> <<"publish", "state">> \o WhenReady(<<"discovery">>)
    [] OTHER                -> <<>>

LineCalls(p, kind) == IF p = EventPort THEN EventCalls(kind) ELSE CommandCalls(kind)

\* A tree fragment, with discovery or until it is there.
TreeLine(t, l) ==
  IF t.ready THEN [t EXCEPT !.heard = Append(@, l), !.given = Append(@, l)]
  ELSE IF Len(t.pending) < MaxFragments
    THEN [t EXCEPT !.heard = Append(@, l), !.pending = Append(@, l)]
  ELSE t

\* The lines ls of port p, one after the other.
TreeLines(p, ls) ==
  LET after[n \in 0..Len(ls)] ==
        IF n = 0 THEN tree
        ELSE IF p # EventPort /\ Head(ls[n]) = "tree" THEN TreeLine(after[n - 1], ls[n])
        ELSE after[n - 1]
  IN  after[Len(ls)]

\* A call of c: which line makes it, and which of the line's calls it is.
CallsTo(c, p, ls) ==
  UNION {{<<i, j>> : j \in {n \in DOMAIN LineCalls(p, Head(ls[i])) : LineCalls(p, Head(ls[i]))[n] = c}} :
         i \in DOMAIN ls}

\* The callback for the lines ls of port p: what a handler throws is caught.
HandleLines(p, ls) ==
  /\ handled' = [handled EXCEPT ![p] = @ \o ls]
  /\ calls' = [c \in Components |-> calls[c] + Cardinality(CallsTo(c, p, ls))]
  /\ tree' = TreeLines(p, ls)

-----------------------------------------------------------------------------
(* Lines *)

\* The last MaxBuffer tokens.
Limited(b) == IF Len(b) > MaxBuffer THEN SubSeq(b, Len(b) - MaxBuffer + 1, Len(b)) ELSE b

\* A delimiter ends the line before it, and one that is empty is skipped.
Ended(s) == [lines |-> IF s.rest = <<>> THEN s.lines ELSE Append(s.lines, s.rest), rest |-> <<>>]

\* The lines in b, and the rest after them.
Split(b) ==
  LET upTo[n \in 0..Len(b)] ==
        IF n = 0 THEN [lines |-> <<>>, rest |-> <<>>]
        ELSE IF b[n] = Mark THEN Ended(upTo[n - 1])
        ELSE [lines |-> upTo[n - 1].lines, rest |-> Append(upTo[n - 1].rest, b[n])]
  IN  upTo[Len(b)]

LinesIn(b) == Split(b).lines

\* Mutation: what follows the last delimiter of a chunk is dropped.
NoRemainder(b) == IF LinesIn(b) = <<>> THEN Split(b).rest ELSE <<>>

Remainder(b) == Split(b).rest

\* processData, with a chunk of the n next tokens.
ReceiveChunk(p, n) ==
  LET chunk == SubSeq(stream[p], 1, n)
      b     == Limited(buffer[p] \o chunk)
  IN  /\ n <= Len(stream[p])
      /\ stream' = [stream EXCEPT ![p] = SubSeq(@, n + 1, Len(@))]
      /\ got'    = [got EXCEPT ![p] = @ \o chunk]
      /\ cut'    = [cut EXCEPT ![p] = @ \/ b # buffer[p] \o chunk]
      /\ buffer' = [buffer EXCEPT ![p] = Remainder(b)]
      /\ HandleLines(p, LinesIn(b))
      /\ UNCHANGED lines

\* C-Gate sends a line.
LineSent(p, l) ==
  /\ lines < MaxLines /\ lines' = lines + 1
  /\ stream' = [stream EXCEPT ![p] = @ \o Append(l, Mark)]
  /\ UNCHANGED <<got, buffer, cut, handled, tree, calls>>

\* A connection of the pool is replaced: its processor is closed, which handles the rest
\* as a line, and the next data gets a processor of its own.
CommandReplaced(p) ==
  /\ lines < MaxLines /\ lines' = lines + 1
  /\ HandleLines(p, IF buffer[p] = <<>> THEN <<>> ELSE <<buffer[p]>>)
  /\ got' = [got EXCEPT ![p] = IF buffer[p] = <<>> THEN @ ELSE Append(@, Mark)]
  /\ buffer' = [buffer EXCEPT ![p] = <<>>]
  /\ stream' = [stream EXCEPT ![p] = <<>>]
  /\ UNCHANGED cut

\* The event connection is replaced: its processor, and what it holds, stays.
EventReplaced ==
  /\ lines < MaxLines /\ lines' = lines + 1
  /\ stream' = [stream EXCEPT ![EventPort] = <<>>]
  /\ UNCHANGED <<got, buffer, cut, handled, tree, calls>>

\* set haDiscovery: replays the fragments.
DiscoveryReady ==
  /\ ~tree.ready
  /\ tree' = [tree EXCEPT !.ready = TRUE, !.given = tree.pending, !.pending = <<>>]
  /\ UNCHANGED <<stream, got, buffer, cut, handled, calls, lines>>

LinesNext ==
  \/ \E p \in Ports, l \in LineSet : LineSent(p, l)
  \/ \E p \in Ports : \E n \in 1..Len(stream[p]) : ReceiveChunk(p, n)
  \/ \E p \in CommandPorts : CommandReplaced(p)
  \/ EventReplaced
  \/ DiscoveryReady

LinesSpec == LinesInit /\ [][LinesNext]_lineVars

-----------------------------------------------------------------------------
(* Properties *)

HandledOf(kind) == UNION {{<<p, i>> : i \in {j \in DOMAIN handled[p] : Head(handled[p][j]) = kind}} : p \in Ports}

\* The tokens that make the lines ls.
Wire(ls) ==
  LET upTo[n \in 0..Len(ls)] == IF n = 0 THEN <<>> ELSE upTo[n - 1] \o Append(ls[n], Mark)
  IN  upTo[Len(ls)]

NoMark(b) == \A i \in DOMAIN b : b[i] # Mark

\* Whatever the chunks, and with connections replaced between them: the lines handled are
\* whole, and they and the rest in the buffer are exactly what was received on that port
\* (unless the limit cut it), in order; discovery gets, or will be replayed, exactly the
\* tree fragments, in order; and a synchronisation seen on either port makes one zone
\* refresh and one resync (lineProcessor.js processData, cgateWebBridge.js
\* _handleCommandData and _handleNetworkSyncComplete, commandResponseProcessor.js
\* _bufferTreeMessage).
LinesExact ==
  /\ \A p \in Ports :
       /\ \A i \in DOMAIN handled[p] : handled[p][i] # <<>> /\ NoMark(handled[p][i])
       /\ NoMark(buffer[p])
       /\ ~cut[p] => got[p] = Wire(handled[p]) \o buffer[p]
  /\ tree.given \o tree.pending = tree.heard
  /\ tree.ready => tree.pending = <<>>
  /\ calls["security"] = Cardinality(HandledOf("sync")) /\ calls["resync"] = calls["security"]
=============================================================================
