-------------------------- MODULE TerminalScreen --------------------------
(***************************************************************************)
(* What a terminal panel of the console shows: the shell's output is kept  *)
(* as scrollback (sessionRuntime.ts) and broadcast to the attached sockets *)
(* in order; the panel (Terminal.tsx) attaches, is replayed the scrollback *)
(* and appends what follows, holds both back until xterm is loaded, and    *)
(* connects again 900 ms after its socket closes, to the same session or a *)
(* new one.  Output is counted in units numbered over all sessions; a      *)
(* chunk is an interval of them.  Keyboard input, sizes and the agent's    *)
(* state, sent on the same socket, are left out.                           *)
(***************************************************************************)
EXTENDS Naturals, SequencesExt

CONSTANTS
  ScrollbackMax,   \* scrollbackMaxBytes, in units
  ChunkSizes,      \* bound: the lengths of chunks, in units
  MaxUnits,        \* bound: units of output
  MaxDrops,        \* bound: connections lost or refused, panels closed
  MaxShells        \* bound: sessions of the terminal

ASSUME ScreenAssumption ==
  /\ ScrollbackMax \in Nat \ {0} /\ ChunkSizes \subseteq Nat \ {0}
  /\ {MaxUnits, MaxDrops, MaxShells} \subseteq Nat

VARIABLES
  shell,        \* the session: its scrollback and whether the panel's socket is its client
  printed,      \* units printed so far
  shells, drops,
  link,         \* the panel's socket: "off", "connecting", "open", "waiting" (for the timer)
  wire,         \* messages sent on it and not yet received
  xterm,        \* activeTerminal: "absent" (no panel), "loading", "ready"
  painted,       \* what xterm was given since its last reset
  held          \* pendingHistoryData, empty if null, and pendingOutputChunks

screenVars == <<shell, printed, shells, drops, link, wire, xterm, painted, held>>

\* A unit of 0 is a line of the server's own.
OwnLine == <<0>>
NoShell == [runs |-> FALSE, first |-> 0, scrollback |-> << >>, client |-> FALSE]
NothingHeld == [history |-> << >>, chunks |-> << >>]
Text(type, units) == [type |-> type, units |-> units]
Closed == Text("close", << >>)

ScreenInit ==
  /\ shell = NoShell /\ printed = 0 /\ shells = 0 /\ drops = 0
  /\ link = "off" /\ wire = << >> /\ xterm = "absent"
  /\ painted = << >> /\ held = NothingHeld

-----------------------------------------------------------------------------
UnitsOf(chunks) == Len(FlattenSeq(chunks))
LastUnits(chunk, n) == SubSeq(chunk, Len(chunk) + 1 - n, Len(chunk))

\* appendScrollback: a chunk that is too long loses its head and all before it;
\* then whole chunks go, the oldest first, until the rest fits.
WithChunk(chunks, chunk) ==
  LET all == IF Len(chunk) > ScrollbackMax THEN <<LastUnits(chunk, ScrollbackMax)>>
             ELSE Append(chunks, chunk)
  IN CHOOSE rest \in Suffixes(all) :
       /\ UnitsOf(rest) <= ScrollbackMax
       /\ \A more \in Suffixes(all) : UnitsOf(more) <= ScrollbackMax => Len(more) <= Len(rest)

\* The shell prints a chunk: kept, and sent to its clients.
ShellPrints(n) ==
  LET chunk == [k \in 1..n |-> printed + k]
  IN /\ shell.runs /\ printed + n <= MaxUnits /\ printed' = printed + n
     /\ shell' = [shell EXCEPT !.scrollback = WithChunk(@, chunk)]
     /\ wire' = IF shell.client THEN Append(wire, Text("output", chunk)) ELSE wire
     /\ UNCHANGED <<shells, drops, link, xterm, painted, held>>

\* The shell exits, and says so, or the session is stopped or closed while it
\* idles: its clients' sockets are closed.
ShellEnds(lines) ==
  /\ shell.runs /\ shell' = NoShell
  /\ wire' = IF shell.client THEN wire \o lines \o <<Closed>> ELSE wire
  /\ UNCHANGED <<printed, shells, drops, link, xterm, painted, held>>

-----------------------------------------------------------------------------
Drop == drops < MaxDrops /\ drops' = drops + 1

\* The panel is mounted, and xterm is loaded meanwhile.
OpenPanel ==
  /\ xterm = "absent" /\ xterm' = "loading" /\ link' = "connecting"
  /\ UNCHANGED <<shell, printed, shells, drops, wire, painted, held>>

\* sendHistory, if there is any.
History(chunks) == IF chunks = << >> THEN << >> ELSE <<Text("history", FlattenSeq(chunks))>>

\* handleUpgrade: of a session that runs, or of one that ensureSession starts.
\* Between the attach and the history nothing is printed.
Attach ==
  /\ link = "connecting" /\ link' = "open"
  /\ \/ shell.runs /\ shell' = [shell EXCEPT !.client = TRUE] /\ UNCHANGED shells
     \/ /\ ~shell.runs /\ shells < MaxShells /\ shells' = shells + 1
        /\ shell' = [runs |-> TRUE, first |-> printed + 1, scrollback |-> << >>, client |-> TRUE]
  /\ wire' = History(shell.scrollback)
  /\ UNCHANGED <<printed, drops, xterm, painted, held>>
\* No session can be started, for which the server has a line, or the terminal is unknown.
AttachFails(lines) ==
  /\ Drop /\ link = "connecting" /\ ~shell.runs /\ link' = "open"
  /\ wire' = lines \o <<Closed>>
  /\ UNCHANGED <<shell, printed, shells, xterm, painted, held>>

-----------------------------------------------------------------------------
\* Slip: the chunks held back are kept when a history comes.
HoldHistory_KeepsChunks(units) == [history |-> units, chunks |-> held.chunks]
\* Of what came before xterm is loaded the last history counts, and what followed it.
HoldHistory(units) == [history |-> units, chunks |-> << >>]

TakeMessage(message) ==
  /\ wire # << >> /\ message = Head(wire) /\ wire' = Tail(wire)
  /\ UNCHANGED <<shell, printed, shells, drops, xterm>>

\* replayTerminalHistory resets xterm first.
ReceiveHistory(message) ==
  /\ TakeMessage(message) /\ message.type = "history"
  /\ IF xterm = "ready" THEN painted' = message.units /\ UNCHANGED held
     ELSE held' = HoldHistory(message.units) /\ UNCHANGED painted
  /\ UNCHANGED link
ReceiveOutput(message) ==
  /\ TakeMessage(message) /\ message.type = "output"
  /\ IF xterm = "ready" THEN painted' = painted \o message.units /\ UNCHANGED held
     ELSE held' = [held EXCEPT !.chunks = Append(@, message.units)] /\ UNCHANGED painted
  /\ UNCHANGED link
\* The close event sets the timer for the next connect.
ReceiveClose(message) ==
  /\ TakeMessage(message) /\ message.type = "close"
  /\ link' = "waiting" /\ UNCHANGED <<painted, held>>

Reconnect ==
  /\ link = "waiting" /\ link' = "connecting"
  /\ UNCHANGED <<shell, printed, shells, drops, wire, xterm, painted, held>>

\* The import is done: what was held back is written, the history first.
XtermLoads ==
  /\ xterm = "loading" /\ xterm' = "ready"
  /\ painted' = held.history \o FlattenSeq(held.chunks)
  /\ held' = NothingHeld
  /\ UNCHANGED <<shell, printed, shells, drops, link, wire>>

-----------------------------------------------------------------------------
\* What was on its way is lost, with the session if the server dies.  When the
\* server notices only its idle timer depends on.
ConnectionLost(serverDies) ==
  /\ Drop /\ link \in {"connecting", "open"} /\ link' = "waiting" /\ wire' = << >>
  /\ shell' = IF serverDies THEN NoShell ELSE [shell EXCEPT !.client = FALSE]
  /\ UNCHANGED <<printed, shells, xterm, painted, held>>

\* The panel is unmounted: its events are ignored from then on.
ClosePanel ==
  /\ Drop /\ xterm # "absent" /\ xterm' = "absent" /\ link' = "off" /\ wire' = << >>
  /\ painted' = << >> /\ held' = NothingHeld
  /\ shell' = [shell EXCEPT !.client = FALSE]
  /\ UNCHANGED <<printed, shells>>

ServerLines == {<<Text("output", OwnLine)>>, << >>}
ScreenNext ==
  \/ \E n \in ChunkSizes : ShellPrints(n)
  \/ \E lines \in ServerLines : ShellEnds(lines) \/ AttachFails(lines)
  \/ OpenPanel \/ Attach \/ Reconnect \/ XtermLoads \/ ClosePanel
  \/ \E message \in ToSet(wire) :
       ReceiveHistory(message) \/ ReceiveOutput(message) \/ ReceiveClose(message)
  \/ \E serverDies \in BOOLEAN : ConnectionLost(serverDies)
ScreenSpec == ScreenInit /\ [][ScreenNext]_screenVars

-----------------------------------------------------------------------------
PanelCaughtUp == xterm = "ready" /\ link = "open" /\ wire = << >> /\ shell.client
FromThisShell == {unit \in ToSet(painted) : unit # 0 /\ unit >= shell.first}

\* A panel that has received all it was sent shows every unit of output once and
\* in the order it was printed, over any number of lost connections, sessions
\* and however late xterm loads; and of the session it is attached to no gap:
\* all up to the last unit printed, from what is kept as scrollback or earlier.
ScreenShowsTheSession ==
  PanelCaughtUp =>
    /\ \A i, j \in DOMAIN painted :
         i < j /\ painted[i] # 0 /\ painted[j] # 0 => painted[i] < painted[j]
    /\ \E from \in 1..(printed + 1) :
         FromThisShell = from..printed /\ from + UnitsOf(shell.scrollback) <= printed + 1
=============================================================================
