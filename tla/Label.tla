-------------------------------- MODULE Label --------------------------------
(***************************************************************************)
(* miyori-label (components/label): the trust bar.  One loop takes lines   *)
(* of the compositor's event stream and Wayland events, keeps a map of     *)
(* windows, asks the daemon for its spaces and draws one text on the bar   *)
(* of every output.                                                        *)
(*                                                                         *)
(* The compositor, the windows' processes and the daemon are environment.  *)
(* A window id is free again when the stream and the map have forgotten    *)
(* it, and so is a layer surface.                                          *)
(***************************************************************************)
EXTENDS Naturals, Sequences, FiniteSets

CONSTANTS
  Spaces, NoSpace,    \* space ids; NoSpace: the host, no claim in a title
  Windows, NoWindow,  \* windows of the desktop; NoWindow: no focus
  Unknown,            \* the focus before any line has told it
  Absent,             \* no entry in the window map
  Owner,              \* [Windows -> Spaces \cup {NoSpace}]: whose process it is
  Pidless,            \* the windows niri reports without a pid
  Untitled,           \* the windows of spaces whose application sets no title
  ListStates,         \* the states the daemon's list may give a space
  Outputs, NoBar,     \* monitors
  Layers,             \* layer surfaces, numbered
  Blank,              \* a surface nothing was drawn on
  MaxStream,          \* bound: lines on their way
  Faults              \* of {"draw", "refused"}

ASSUME LabelAssumption ==
  /\ NoSpace \notin Spaces
  /\ {NoWindow, Unknown} \cap Windows = {} /\ NoWindow # Unknown
  /\ Absent \notin Spaces \cup {NoSpace}
  /\ Owner \in [Windows -> Spaces \cup {NoSpace}]
  /\ ListStates \subseteq {"running", "unresponsive", "stopped", "missing"}
  /\ Layers \subseteq Nat /\ MaxStream \in Nat \ {0}
  /\ Faults \subseteq {"draw", "refused"}

VARIABLES
  open,     \* the windows on the desktop
  focus,    \* the compositor's keyboard focus
  title,    \* [Windows -> id claimed by the title]
  stream,   \* lines read from niri msg, in the channel
  source,   \* niri msg: "starting", "open", "ended"
  wire,     \* Wayland events for layer surfaces on their way
  map,      \* WindowMap
  lastContent,
  bars,     \* OutputBars: [Outputs -> bar or NoBar]
  session   \* the loop of run_bar: "running", "fatal", "done"

desktop == <<open, focus, title>>
channel == <<stream, source>>
drawn == <<lastContent, bars>>
vars == <<desktop, channel, wire, map, drawn, session>>

-----------------------------------------------------------------------------
(* The window map: niri.rs. *)

Claims == Spaces \cup {NoSpace}

EmptyMap == [windows |-> [w \in Windows |-> Absent], focus |-> Unknown]

\* Fault model: is_focused of a window that opens or changes is not looked at.
ApplyIgnoresFlag(m, e) ==
  CASE e.ev = "snapshot" -> [windows |-> e.windows, focus |-> e.focus]
    [] e.ev = "changed"  -> [m EXCEPT !.windows[e.window] = e.title]
    [] e.ev = "closed"   -> [windows |-> [m.windows EXCEPT ![e.window] = Absent],
                             focus |-> IF m.focus = e.window THEN NoWindow ELSE m.focus]
    [] e.ev = "focus"    -> [m EXCEPT !.focus = e.window]
    [] e.ev = "other"    -> m

\* WindowMap::apply, one event.
Apply(m, e) ==
  CASE e.ev = "snapshot" -> [windows |-> e.windows, focus |-> e.focus]
    [] e.ev = "changed"  -> [windows |-> [m.windows EXCEPT ![e.window] = e.title],
                             focus |-> IF e.focused THEN e.window ELSE m.focus]
    [] e.ev = "closed"   -> [windows |-> [m.windows EXCEPT ![e.window] = Absent],
                             focus |-> IF m.focus = e.window THEN NoWindow ELSE m.focus]
    [] e.ev = "focus"    -> [m EXCEPT !.focus = e.window]
    [] e.ev = "other"    -> m

\* WindowMap::focus: a focused window without an entry is no focus.
FocusOf(m) ==
  IF m.focus \in Windows /\ m.windows[m.focus] = Absent THEN NoWindow ELSE m.focus

-----------------------------------------------------------------------------
(* What the bar says: space.rs, strip.rs, bar.rs. *)

Strip(kind, id) == [kind |-> kind, id |-> id]
HostStrip == Strip("host", NoSpace)

\* What the daemon may answer to list at any time.
Answers == [Spaces -> ListStates]

\* The windows whose process can be looked up: niri gave a pid, and the process
\* has not ended before its window.
Lookups == SUBSET (Windows \ Pidless)

Resolve(s, list) ==
  CASE list[s] \in {"running", "unresponsive"} -> Strip("space", s)
    [] list[s] = "stopped" -> Strip("orphan", s)
    [] list[s] = "missing" -> Strip("unknown", s)

\* The cgroup decides; the title is asked only when the cgroup is unreadable.
StripFor(m, list, readable) ==
  LET w == FocusOf(m) IN
  CASE w = Unknown  -> Strip("focus-unknown", NoSpace)
    [] w = NoWindow -> HostStrip
    [] w \in readable ->
         IF Owner[w] \in Spaces THEN Resolve(Owner[w], list) ELSE HostStrip
    [] w \in Windows \ readable ->
         IF m.windows[w] \in Spaces THEN Strip("unverified", m.windows[w]) ELSE HostStrip

\* compute_content: what it may come to for a window map.
ComputeContent(m) ==
  {Strip("error", NoSpace)} \cup
  {StripFor(m, list, readable) : list \in Answers, readable \in Lookups}

Contents ==
  [kind : {"host", "space", "orphan", "unknown", "unverified", "focus-unknown", "error"},
   id : Claims]

ASSUME BlankAssumption == Blank \notin Contents

-----------------------------------------------------------------------------
(* Drawing: main.rs, outputs.rs. *)

BarRecords == [layer : Layers, firstConfigure : BOOLEAN, shown : Contents \cup {Blank}]
HasBar(o) == bars[o] # NoBar
BarOf(l) == {o \in Outputs : HasBar(o) /\ bars[o].layer = l}

\* The outputs whose Bar::draw gets its buffer and commits.
DrawOutcomes == IF "draw" \in Faults THEN SUBSET Outputs ELSE {Outputs}

RedrawAll(c) ==
  \E drawing \in DrawOutcomes :
    bars' = [o \in Outputs |->
               IF HasBar(o) /\ o \in drawing /\ ~bars[o].firstConfigure
               THEN [bars[o] EXCEPT !.shown = c] ELSE bars[o]]

MaybeRedraw(m) ==
  \E c \in ComputeContent(m) :
    IF c = lastContent THEN UNCHANGED drawn
    ELSE lastContent' = c /\ RedrawAll(c)

\* The process ends: its surfaces and what it knew go with it.
Exit(outcome) ==
  /\ session' = outcome
  /\ bars' = [o \in Outputs |-> NoBar] /\ lastContent' = Blank
  /\ map' = EmptyMap /\ stream' = <<>> /\ source' = "ended" /\ wire' = {}
  /\ UNCHANGED <<desktop>>

HandleNiriLine ==
  /\ session = "running" /\ stream # <<>>
  /\ stream' = Tail(stream)
  /\ IF Head(stream).ev = "refused"
     THEN UNCHANGED <<map, drawn>>
     ELSE map' = Apply(map, Head(stream)) /\ MaybeRedraw(map')
  /\ UNCHANGED <<desktop, source, wire, session>>

\* Fault model: the end of the stream is only logged.
StreamClosedIgnored ==
  /\ session = "running" /\ source = "ended" /\ stream = <<>>
  /\ UNCHANGED vars

\* The sender is dropped when niri msg ends; queued lines come first.
StreamClosed ==
  /\ session = "running" /\ source = "ended" /\ stream = <<>>
  /\ Exit("fatal")

FreeLayers ==
  {l \in Layers : BarOf(l) = {} /\ \A e \in wire : e.layer # l}

\* new_output: the initial commit is answered by a configure.
NewOutput(o) ==
  /\ session = "running" /\ ~HasBar(o) /\ FreeLayers # {}
  /\ LET l == CHOOSE l \in FreeLayers : \A k \in FreeLayers : l <= k IN
       /\ bars' = [bars EXCEPT ![o] =
                     [layer |-> l, firstConfigure |-> TRUE, shown |-> Blank]]
       /\ wire' = wire \cup {[ev |-> "configure", layer |-> l]}
  /\ UNCHANGED <<desktop, channel, map, lastContent, session>>

OutputDestroyed(o) ==
  /\ session = "running" /\ HasBar(o)
  /\ bars' = [bars EXCEPT ![o] = NoBar]
  /\ UNCHANGED <<desktop, channel, wire, map, lastContent, session>>

\* The compositor closes a surface; its events come in order, so a configure
\* on its way is taken first.
Closed(l) ==
  /\ session = "running"
  /\ [ev |-> "closed", layer |-> l] \in wire
  /\ [ev |-> "configure", layer |-> l] \notin wire
  /\ \/ /\ \A o \in Outputs : HasBar(o) => o \in BarOf(l)
        /\ Exit("fatal")
     \/ /\ \E o \in Outputs : HasBar(o) /\ o \notin BarOf(l)
        /\ wire' = wire \ {[ev |-> "closed", layer |-> l]}
        /\ bars' = [o \in Outputs |-> IF o \in BarOf(l) THEN NoBar ELSE bars[o]]
        /\ UNCHANGED <<desktop, channel, map, lastContent, session>>

\* Fault model: the new bar computes content of its own.
ConfigureFresh(l) ==
  /\ session = "running"
  /\ [ev |-> "configure", layer |-> l] \in wire
  /\ wire' = wire \ {[ev |-> "configure", layer |-> l]}
  /\ lastContent' \in IF lastContent = Blank THEN ComputeContent(map) ELSE {lastContent}
  /\ \E c \in ComputeContent(map) :
       bars' = [o \in Outputs |->
                  IF o \in BarOf(l) /\ bars[o].firstConfigure
                  THEN [bars[o] EXCEPT !.firstConfigure = FALSE, !.shown = c]
                  ELSE bars[o]]
  /\ UNCHANGED <<desktop, channel, map, session>>

\* Fault model: a bar that comes when there is content waits for other content.
ConfigureWaits(l) ==
  /\ session = "running"
  /\ [ev |-> "configure", layer |-> l] \in wire
  /\ wire' = wire \ {[ev |-> "configure", layer |-> l]}
  /\ lastContent' \in IF lastContent = Blank THEN ComputeContent(map) ELSE {lastContent}
  /\ bars' = [o \in Outputs |->
                IF o \in BarOf(l) /\ lastContent = Blank
                THEN [bars[o] EXCEPT !.firstConfigure = FALSE, !.shown = lastContent']
                ELSE bars[o]]
  /\ UNCHANGED <<desktop, channel, map, session>>

\* configure: the content is computed if there is none yet, also for a surface
\* whose output is gone; a bar is drawn at its first configure only.
Configure(l) ==
  /\ session = "running"
  /\ [ev |-> "configure", layer |-> l] \in wire
  /\ wire' = wire \ {[ev |-> "configure", layer |-> l]}
  /\ lastContent' \in IF lastContent = Blank THEN ComputeContent(map) ELSE {lastContent}
  /\ \E drawing \in DrawOutcomes :
       bars' = [o \in Outputs |->
                  IF o \in BarOf(l) /\ bars[o].firstConfigure
                  THEN [bars[o] EXCEPT !.firstConfigure = FALSE,
                          !.shown = IF o \in drawing THEN lastContent' ELSE @]
                  ELSE bars[o]]
  /\ UNCHANGED <<desktop, channel, map, session>>

\* --seconds: the timer of a bounded session.
TimerFires ==
  /\ session = "running"
  /\ Exit("done")

-----------------------------------------------------------------------------
(* The environment. *)

\* Lines of one change.  A line
\* about a window that parse_event refuses (say a pid that is no u32) is lost.
Emit(lines) ==
  /\ Len(stream) + Len(lines) <= MaxStream
  /\ \/ stream' = stream \o lines
     \/ /\ "refused" \in Faults
        /\ stream' = stream \o [i \in 1..Len(lines) |-> [ev |-> "refused"]]
  /\ UNCHANGED source

Changed(w, claim, focused) ==
  [ev |-> "changed", window |-> w, title |-> claim, focused |-> focused]
FocusLine(w) == [ev |-> "focus", window |-> w]
ClosedLine(w) == [ev |-> "closed", window |-> w]

Forgotten(w) ==
  /\ map.windows[w] = Absent /\ map.focus # w
  /\ \A i \in 1..Len(stream) :
       /\ stream[i].ev \in {"changed", "closed", "focus"} => stream[i].window # w
       /\ stream[i].ev = "snapshot" => stream[i].windows[w] = Absent

\* A proxy puts its prefix before every title it passes on; a window of the host
\* may call itself anything.
TitlesOf(w) ==
  IF Owner[w] = NoSpace THEN Claims
  ELSE IF w \in Untitled THEN {NoSpace} ELSE {Owner[w]}

OpenWindow(w) ==
  /\ w \notin open /\ Forgotten(w)
  /\ open' = open \cup {w}
  /\ \E claim \in TitlesOf(w), focused \in BOOLEAN :
       /\ title' = [title EXCEPT ![w] = claim]
       /\ focus' = IF focused THEN w ELSE focus
       /\ Emit(<<Changed(w, claim, focused)>>)

RetitleWindow(w) ==
  /\ w \in open
  /\ \E claim \in TitlesOf(w) \ {title[w]} :
       /\ title' = [title EXCEPT ![w] = claim]
       /\ Emit(<<Changed(w, claim, focus = w)>>)
  /\ UNCHANGED <<open, focus>>

MoveFocus ==
  \E w \in (open \cup {NoWindow}) \ {focus} :
    /\ focus' = w
    /\ Emit(<<FocusLine(w)>>)
    /\ UNCHANGED <<open, title>>

\* The focus goes elsewhere with the window, in either order of the lines; that
\* nothing is focused any more needs no line of its own.
CloseWindow(w) ==
  /\ w \in open
  /\ open' = open \ {w}
  /\ title' = [title EXCEPT ![w] = NoSpace]
  /\ \/ /\ focus # w
        /\ Emit(<<ClosedLine(w)>>) /\ UNCHANGED focus
     \/ /\ focus = w /\ focus' = NoWindow
        /\ Emit(<<ClosedLine(w)>>)
     \/ /\ focus = w
        /\ \E v \in open \ {w} :
             /\ focus' = v
             /\ \/ Emit(<<ClosedLine(w), FocusLine(v)>>)
                \/ Emit(<<FocusLine(v), ClosedLine(w)>>)

\* The desktop changes, and the stream tells of it.  What happens before the
\* subscription is in Init, and nothing reads what happens after its end.
Desktop ==
  /\ session = "running" /\ source = "open"
  /\ \/ \E w \in Windows : OpenWindow(w) \/ RetitleWindow(w) \/ CloseWindow(w)
     \/ MoveFocus
  /\ UNCHANGED <<wire, map, drawn, session>>

\* Subscription: the first line is a snapshot of the windows.
StreamOpens ==
  /\ session = "running" /\ source = "starting"
  /\ source' = "open"
  /\ stream' = <<[ev |-> "snapshot", focus |-> focus,
                  windows |-> [w \in Windows |-> IF w \in open THEN title[w] ELSE Absent]]>>
  /\ UNCHANGED <<desktop, wire, map, drawn, session>>

StreamEnds ==
  /\ session = "running" /\ source # "ended"
  /\ source' = "ended"
  /\ UNCHANGED <<desktop, stream, wire, map, drawn, session>>

\* Lines about workspaces, layouts and the like, and lines that are no event.
OtherLine ==
  /\ session = "running" /\ source = "open" /\ stream = <<>>
  /\ \E ev \in {"other", "refused"} : stream' = Append(stream, [ev |-> ev])
  /\ UNCHANGED <<desktop, source, wire, map, drawn, session>>

\* The compositor closes a surface.  (A later configure only brings a new size,
\* which is data the model leaves out.)
SurfaceEnds ==
  /\ session = "running"
  /\ \E o \in Outputs :
       /\ HasBar(o)
       /\ [ev |-> "closed", layer |-> bars[o].layer] \notin wire
       /\ wire' = wire \cup {[ev |-> "closed", layer |-> bars[o].layer]}
  /\ UNCHANGED <<desktop, channel, map, drawn, session>>

-----------------------------------------------------------------------------
Init ==
  /\ open \in SUBSET Windows /\ focus \in open \cup {NoWindow}
  /\ title \in [Windows -> Claims]
  /\ \A w \in Windows : title[w] \in IF w \in open THEN TitlesOf(w) ELSE {NoSpace}
  /\ stream = <<>> /\ source = "starting" /\ wire = {}
  /\ map = EmptyMap
  /\ lastContent = Blank /\ bars = [o \in Outputs |-> NoBar]
  /\ session = "running"

Environment ==
  \/ Desktop \/ StreamOpens \/ StreamEnds \/ OtherLine \/ SurfaceEnds

Next ==
  \/ HandleNiriLine \/ StreamClosed \/ TimerFires
  \/ \E o \in Outputs : NewOutput(o) \/ OutputDestroyed(o)
  \/ \E l \in Layers : Configure(l) \/ Closed(l)
  \/ Environment

Spec == Init /\ [][Next]_vars

\* calloop dispatches every source that is ready, at least every 50 ms.
FairSpec ==
  /\ Spec
  /\ WF_vars(HandleNiriLine) /\ WF_vars(StreamClosed)
  /\ \A l \in Layers : WF_vars(Configure(l))

-----------------------------------------------------------------------------
\* Type invariant: lines on their way stay within the bound, contents and bars
\* have the shapes of strip.rs and main.rs.
TypeOK ==
  /\ open \subseteq Windows
  /\ focus \in Windows \cup {NoWindow} /\ title \in [Windows -> Claims]
  /\ Len(stream) <= MaxStream /\ source \in {"starting", "open", "ended"}
  /\ wire \subseteq [ev : {"configure", "closed"}, layer : Layers]
  /\ map \in [windows : [Windows -> Claims \cup {Absent}],
              focus : Windows \cup {NoWindow, Unknown}]
  /\ lastContent \in Contents \cup {Blank}
  /\ bars \in [Outputs -> BarRecords \cup {NoBar}]
  /\ session \in {"running", "fatal", "done"}

\* Every line has been taken, and niri msg still runs.
Settled == session = "running" /\ source = "open" /\ stream = <<>>

\* What may be said while w has the focus.
TrueOf(c, w) ==
  CASE c.kind = "host" -> \/ w = NoWindow
                          \/ w \in Windows /\ Owner[w] = NoSpace
                          \/ w \in Untitled
    [] c.kind \in {"space", "orphan", "unknown"} -> w \in Windows /\ Owner[w] = c.id
    [] c.kind = "unverified" -> w \in Windows /\ title[w] = c.id
    [] c.kind = "focus-unknown" -> FALSE
    [] c.kind = "error" -> TRUE

\* Once every line has been taken, the text fits the window that has the focus:
\* a window of a space is never called the host's or another space's, whatever
\* its title, unless the cgroup cannot be read and the title claims nothing
\* (niri.rs apply, strip.rs strip_for).
SettledStripIsTrue == Settled => lastContent # Blank /\ TrueOf(lastContent, focus)

\* Every configured bar shows the text computed last, also one whose output came
\* after it or whose first configure crossed a redraw (main.rs configure,
\* redraw_all).
BarsAgree ==
  \A o \in Outputs : HasBar(o) =>
    IF bars[o].firstConfigure THEN bars[o].shown = Blank ELSE bars[o].shown = lastContent

\* When niri msg ends the process does too: it leaves no frozen bar behind
\* (main.rs, Event::Closed in run_bar).
StreamEndIsFatal == (source = "ended") ~> (session # "running")

\* When the desktop comes to rest, the bar of every output that stays ends up
\* telling the truth about the focus (main.rs handle_niri_line, configure).
StripConverges ==
  \A o \in Outputs :
    /\ <>[][FALSE]_desktop
    /\ <>[](session = "running" /\ source = "open" /\ HasBar(o))
    => <>[](HasBar(o) /\ ~bars[o].firstConfigure /\ TrueOf(bars[o].shown, focus))
=============================================================================
