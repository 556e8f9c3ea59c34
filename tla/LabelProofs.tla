----------------------------- MODULE LabelProofs -----------------------------
(***************************************************************************)
(* Theorems about Label, for any number of windows, spaces, outputs and    *)
(* lines on their way.                                                     *)
(***************************************************************************)
EXTENDS Label, WellFoundedInduction, TLAPS

(* Lines of the event stream and the maps they are applied to.             *)

Maps == [windows : [Windows -> Claims \cup {Absent}],
         focus : Windows \cup {NoWindow, Unknown}]

Snapshots == [ev : {"snapshot"}, focus : Windows \cup {NoWindow},
              windows : [Windows -> Claims \cup {Absent}]]
Changes == [ev : {"changed"}, window : Windows, title : Claims, focused : BOOLEAN]
Closes == [ev : {"closed"}, window : Windows]
Focuses == [ev : {"focus"}, window : Windows \cup {NoWindow}]
Others == [ev : {"other", "refused"}]
Lines == Snapshots \cup Changes \cup Closes \cup Focuses \cup Others

LEMMA ApplyCases ==
  ASSUME NEW m, NEW e
  PROVE  /\ e.ev = "snapshot" => Apply(m, e) = [windows |-> e.windows, focus |-> e.focus]
         /\ e.ev = "changed" =>
              Apply(m, e) = [windows |-> [m.windows EXCEPT ![e.window] = e.title],
                             focus |-> IF e.focused THEN e.window ELSE m.focus]
         /\ e.ev = "closed" =>
              Apply(m, e) = [windows |-> [m.windows EXCEPT ![e.window] = Absent],
                             focus |-> IF m.focus = e.window THEN NoWindow ELSE m.focus]
         /\ e.ev = "focus" => Apply(m, e) = [m EXCEPT !.focus = e.window]
         /\ e.ev = "other" => Apply(m, e) = m
  <1>1. CASE e.ev = "snapshot"
    <2>1. /\ ~(e.ev = "changed") /\ ~(e.ev = "closed") /\ ~(e.ev = "focus")
          /\ ~(e.ev = "other")
      BY <1>1
    <2> QED BY <1>1, <2>1, Zenon DEF Apply
  <1>2. CASE e.ev = "changed"
    <2>1. /\ ~(e.ev = "snapshot") /\ ~(e.ev = "closed") /\ ~(e.ev = "focus")
          /\ ~(e.ev = "other")
      BY <1>2
    <2> QED BY <1>2, <2>1, Zenon DEF Apply
  <1>3. CASE e.ev = "closed"
    <2>1. /\ ~(e.ev = "snapshot") /\ ~(e.ev = "changed") /\ ~(e.ev = "focus")
          /\ ~(e.ev = "other")
      BY <1>3
    <2> QED BY <1>3, <2>1, Zenon DEF Apply
  <1>4. CASE e.ev = "focus"
    <2>1. /\ ~(e.ev = "snapshot") /\ ~(e.ev = "changed") /\ ~(e.ev = "closed")
          /\ ~(e.ev = "other")
      BY <1>4
    <2> QED BY <1>4, <2>1, Zenon DEF Apply
  <1>5. CASE e.ev = "other"
    <2>1. /\ ~(e.ev = "snapshot") /\ ~(e.ev = "changed") /\ ~(e.ev = "closed")
          /\ ~(e.ev = "focus")
      BY <1>5
    <2> QED BY <1>5, <2>1, Zenon DEF Apply
  <1> QED BY <1>1, <1>2, <1>3, <1>4, <1>5, Zenon

LEMMA ApplyType ==
  ASSUME NEW m \in Maps, NEW e \in Lines, e.ev # "refused"
  PROVE  Apply(m, e) \in Maps
  <1>1. CASE e \in Snapshots
    BY <1>1, ApplyCases DEF Snapshots, Maps
  <1>2. CASE e \in Changes
    BY <1>2, ApplyCases DEF Changes, Maps
  <1>3. CASE e \in Closes
    BY <1>3, ApplyCases DEF Closes, Maps
  <1>4. CASE e \in Focuses
    <2>1. e.ev = "focus" /\ e.window \in Windows \cup {NoWindow}
      BY <1>4 DEF Focuses
    <2> QED BY <2>1, ApplyCases DEF Maps
  <1>5. CASE e \in Others
    BY <1>5, ApplyCases DEF Others
  <1> QED BY <1>1, <1>2, <1>3, <1>4, <1>5 DEF Lines

(* What the strip says of a map, by who has the focus.                     *)

LEMMA ResolveCases ==
  ASSUME NEW s \in Spaces, NEW list \in Answers
  PROVE  \E kind \in {"space", "orphan", "unknown"} : Resolve(s, list) = Strip(kind, s)
  <1>1. list[s] \in {"running", "unresponsive", "stopped", "missing"}
    BY LabelAssumption DEF Answers
  <1>2. CASE list[s] \in {"running", "unresponsive"}
    <2>1. ~(list[s] = "stopped") /\ ~(list[s] = "missing")
      BY <1>2
    <2>2. Resolve(s, list) = Strip("space", s)
      BY <1>2, <2>1, Zenon DEF Resolve
    <2> QED BY <2>2
  <1>3. CASE list[s] = "stopped"
    <2>1. ~(list[s] \in {"running", "unresponsive"}) /\ ~(list[s] = "missing")
      BY <1>3
    <2>2. Resolve(s, list) = Strip("orphan", s)
      BY <1>3, <2>1, Zenon DEF Resolve
    <2> QED BY <2>2
  <1>4. CASE list[s] = "missing"
    <2>1. ~(list[s] \in {"running", "unresponsive"}) /\ ~(list[s] = "stopped")
      BY <1>4
    <2>2. Resolve(s, list) = Strip("unknown", s)
      BY <1>4, <2>1, Zenon DEF Resolve
    <2> QED BY <2>2
  <1> QED BY <1>1, <1>2, <1>3, <1>4

LEMMA StripCases ==
  ASSUME NEW m, NEW list \in Answers, NEW readable \in Lookups
  PROVE  LET w == FocusOf(m)
             strip == StripFor(m, list, readable)
         IN /\ w = Unknown => strip = Strip("focus-unknown", NoSpace)
            /\ w = NoWindow => strip = HostStrip
            /\ w \in readable /\ Owner[w] \in Spaces =>
                 \E kind \in {"space", "orphan", "unknown"} : strip = Strip(kind, Owner[w])
            /\ w \in readable /\ Owner[w] \notin Spaces => strip = HostStrip
            /\ w \in Windows \ readable /\ m.windows[w] \in Spaces =>
                 strip = Strip("unverified", m.windows[w])
            /\ w \in Windows \ readable /\ m.windows[w] \notin Spaces => strip = HostStrip
  <1> DEFINE w == FocusOf(m)
             strip == StripFor(m, list, readable)
  <1>1. strip = CASE w = Unknown  -> Strip("focus-unknown", NoSpace)
                  [] w = NoWindow -> HostStrip
                  [] w \in readable ->
                       IF Owner[w] \in Spaces THEN Resolve(Owner[w], list) ELSE HostStrip
                  [] w \in Windows \ readable ->
                       IF m.windows[w] \in Spaces THEN Strip("unverified", m.windows[w])
                       ELSE HostStrip
    BY Zenon DEF StripFor
  <1>2. readable \subseteq Windows
    BY DEF Lookups
  <1> HIDE DEF w, strip
  <1>3. CASE w = Unknown
    <2>1. ~(w = NoWindow) /\ ~(w \in readable) /\ ~(w \in Windows \ readable)
      BY <1>2, <1>3, LabelAssumption
    <2>2. strip = Strip("focus-unknown", NoSpace)
      BY <1>1, <1>3, <2>1, Zenon
    <2> QED BY <2>1, <2>2 DEF w, strip
  <1>4. CASE w = NoWindow
    <2>1. ~(w = Unknown) /\ ~(w \in readable) /\ ~(w \in Windows \ readable)
      BY <1>2, <1>4, LabelAssumption
    <2>2. strip = HostStrip
      BY <1>1, <1>4, <2>1, Zenon
    <2> QED BY <2>1, <2>2 DEF w, strip
  <1>5. CASE w \in readable
    <2>1. ~(w = Unknown) /\ ~(w = NoWindow) /\ ~(w \in Windows \ readable)
      BY <1>2, <1>5, LabelAssumption
    <2>2. strip = IF Owner[w] \in Spaces THEN Resolve(Owner[w], list) ELSE HostStrip
      BY <1>1, <1>5, <2>1, Zenon
    <2> QED BY <1>5, <2>1, <2>2, ResolveCases DEF w, strip
  <1>6. CASE w \in Windows \ readable
    <2>1. ~(w = Unknown) /\ ~(w = NoWindow) /\ ~(w \in readable)
      BY <1>2, <1>6, LabelAssumption
    <2>2. strip = IF m.windows[w] \in Spaces THEN Strip("unverified", m.windows[w])
                  ELSE HostStrip
      BY <1>1, <1>6, <2>1, Zenon
    <2> QED BY <1>6, <2>1, <2>2 DEF w, strip
  <1>7. CASE w # Unknown /\ w # NoWindow /\ w \notin readable /\ w \notin Windows \ readable
    BY <1>7 DEF w
  <1> QED BY <1>3, <1>4, <1>5, <1>6, <1>7

LEMMA ContentType ==
  ASSUME NEW m \in Maps, NEW c \in ComputeContent(m)
  PROVE  c \in Contents
  <1>1. CASE c = Strip("error", NoSpace)
    BY <1>1 DEF Strip, Contents, Claims
  <1>2. ASSUME NEW list \in Answers, NEW readable \in Lookups, c = StripFor(m, list, readable)
        PROVE  c \in Contents
    <2>1. FocusOf(m) \in Windows \cup {NoWindow, Unknown}
      BY DEF FocusOf, Maps
    <2>2. \E kind \in {"host", "space", "orphan", "unknown", "unverified", "focus-unknown"},
             id \in Claims : c = Strip(kind, id)
      BY <1>2, <2>1, StripCases DEF HostStrip, Claims
    <2> QED BY <2>2 DEF Strip, Contents
  <1> QED BY <1>1, <1>2 DEF ComputeContent

-----------------------------------------------------------------------------
(* Types.                                                                  *)

Typed == TypeOK /\ stream \in Seq(Lines)

LEMMA InitTyped == Init => Typed
  BY LabelAssumption DEF Init, Typed, TypeOK, EmptyMap, Claims

\* The lowest free layer is free.
LEMMA LowestLayer ==
  ASSUME NEW S \in SUBSET Nat, S # {}
  PROVE  (CHOOSE l \in S : \A k \in S : l <= k) \in S
  <1> DEFINE R == {ss \in Nat \X Nat : ss[1] < ss[2]}
  <1>1. IsWellFoundedOn(R, Nat)
    BY NatLessThanWellFounded DEF OpToRel
  <1> HIDE DEF R
  <1>2. PICK x \in S : \A y \in S : ~(<<y, x>> \in R)
    BY <1>1, WFMin
  <1>3. ASSUME NEW y \in S PROVE x <= y
    <2>1. y < x => <<y, x>> \in R
      BY DEF R
    <2> QED BY <1>2, <2>1
  <1> QED BY <1>3

\* A bar that is drawn on stays one.
LEMMA DrawnBar ==
  ASSUME NEW b \in BarRecords, NEW c \in Contents \cup {Blank}
  PROVE  /\ [b EXCEPT !.shown = c] \in BarRecords
         /\ [b EXCEPT !.shown = c].shown = c
         /\ [b EXCEPT !.shown = c].firstConfigure = b.firstConfigure
  BY DEF BarRecords

LEMMA RedrawType ==
  ASSUME bars \in [Outputs -> BarRecords \cup {NoBar}], NEW c \in Contents, RedrawAll(c)
  PROVE  bars' \in [Outputs -> BarRecords \cup {NoBar}]
  <1>1. PICK drawing \in DrawOutcomes :
          bars' = [o \in Outputs |->
                     IF HasBar(o) /\ o \in drawing /\ ~bars[o].firstConfigure
                     THEN [bars[o] EXCEPT !.shown = c] ELSE bars[o]]
    BY DEF RedrawAll
  <1>2. \A o \in Outputs : HasBar(o) => [bars[o] EXCEPT !.shown = c] \in BarRecords
    BY DrawnBar DEF HasBar
  <1> QED BY <1>1, <1>2

LEMMA ExitTyped ==
  ASSUME Typed, NEW outcome \in {"fatal", "done"}, Exit(outcome)
  PROVE  Typed'
  <1>1. EmptyMap \in Maps
    BY DEF EmptyMap, Maps
  <1> QED BY <1>1, LabelAssumption DEF Exit, Typed, TypeOK, desktop, Maps

LEMMA LineTyped ==
  ASSUME Typed, HandleNiriLine
  PROVE  Typed'
  <1>1. /\ stream \in Seq(Lines) /\ stream # <<>> /\ map \in Maps /\ Len(stream) <= MaxStream
        /\ bars \in [Outputs -> BarRecords \cup {NoBar}]
    BY DEF Typed, TypeOK, Maps, HandleNiriLine
  <1>2. /\ Head(stream) \in Lines /\ stream' = Tail(stream)
        /\ stream' \in Seq(Lines) /\ Len(stream') <= MaxStream
    BY <1>1, LabelAssumption DEF HandleNiriLine
  <1>3. /\ UNCHANGED <<desktop, source, wire, session>>
    BY DEF HandleNiriLine
  <1>4. CASE Head(stream).ev = "refused"
    BY <1>2, <1>3, <1>4 DEF HandleNiriLine, Typed, TypeOK, drawn, desktop
  <1>5. CASE Head(stream).ev # "refused"
    <2>1. map' = Apply(map, Head(stream)) /\ MaybeRedraw(map')
      BY <1>5 DEF HandleNiriLine
    <2>2. map' \in Maps
      BY <1>1, <1>2, <1>5, <2>1, ApplyType
    <2>3. PICK c \in ComputeContent(map') :
            IF c = lastContent THEN UNCHANGED drawn
            ELSE lastContent' = c /\ RedrawAll(c)
      BY <2>1 DEF MaybeRedraw
    <2>4. c \in Contents
      BY <2>2, ContentType
    <2>5. /\ lastContent' \in Contents \cup {Blank}
          /\ bars' \in [Outputs -> BarRecords \cup {NoBar}]
      BY <1>1, <2>3, <2>4, RedrawType DEF drawn, Typed, TypeOK
    <2> QED BY <1>2, <1>3, <2>2, <2>5 DEF Typed, TypeOK, Maps, desktop
  <1> QED BY <1>4, <1>5

LEMMA BarTyped ==
  ASSUME Typed,
         \/ \E o \in Outputs : NewOutput(o) \/ OutputDestroyed(o)
         \/ \E l \in Layers : Configure(l) \/ (Closed(l) /\ session' = session)
         \/ SurfaceEnds
  PROVE  Typed'
  <1>1. /\ bars \in [Outputs -> BarRecords \cup {NoBar}] /\ map \in Maps
        /\ wire \subseteq [ev : {"configure", "closed"}, layer : Layers]
        /\ lastContent \in Contents \cup {Blank}
    BY DEF Typed, TypeOK, Maps
  <1>2. ASSUME /\ bars' \in [Outputs -> BarRecords \cup {NoBar}]
               /\ wire' \subseteq [ev : {"configure", "closed"}, layer : Layers]
               /\ lastContent' \in Contents \cup {Blank}
               /\ UNCHANGED <<desktop, channel, map, session>>
        PROVE  Typed'
    BY <1>2 DEF Typed, TypeOK, desktop, channel
  <1>3. ASSUME NEW o \in Outputs, NewOutput(o) PROVE Typed'
    <2> DEFINE l == CHOOSE l \in FreeLayers : \A k \in FreeLayers : l <= k
    <2>1. FreeLayers \in SUBSET Nat /\ FreeLayers # {}
      BY <1>3, LabelAssumption DEF NewOutput, FreeLayers
    <2>2. l \in Layers
      BY <2>1, LowestLayer DEF FreeLayers
    <2>3. /\ bars' = [bars EXCEPT ![o] =
                        [layer |-> l, firstConfigure |-> TRUE, shown |-> Blank]]
          /\ wire' = wire \cup {[ev |-> "configure", layer |-> l]}
          /\ UNCHANGED <<desktop, channel, map, lastContent, session>>
      BY <1>3 DEF NewOutput
    <2> HIDE DEF l
    <2>4. [layer |-> l, firstConfigure |-> TRUE, shown |-> Blank] \in BarRecords
      BY <2>2 DEF BarRecords
    <2> QED BY <1>1, <1>2, <2>2, <2>3, <2>4
  <1>4. ASSUME NEW o \in Outputs, OutputDestroyed(o) PROVE Typed'
    BY <1>1, <1>2, <1>4 DEF OutputDestroyed
  <1>5. ASSUME NEW l \in Layers, Configure(l) PROVE Typed'
    <2>1. lastContent' \in Contents \cup {Blank}
      BY <1>1, <1>5, ContentType DEF Configure
    <2>2. PICK drawing \in DrawOutcomes :
            bars' = [o \in Outputs |->
                       IF o \in BarOf(l) /\ bars[o].firstConfigure
                       THEN [bars[o] EXCEPT !.firstConfigure = FALSE,
                               !.shown = IF o \in drawing THEN lastContent' ELSE @]
                       ELSE bars[o]]
      BY <1>5 DEF Configure
    <2>3. ASSUME NEW o \in BarOf(l)
          PROVE  [bars[o] EXCEPT !.firstConfigure = FALSE,
                    !.shown = IF o \in drawing THEN lastContent' ELSE @] \in BarRecords
      <3>1. bars[o] \in BarRecords
        BY <1>1, <2>3 DEF BarOf, HasBar
      <3> QED BY <2>1, <3>1 DEF BarRecords
    <2>4. bars' \in [Outputs -> BarRecords \cup {NoBar}]
      BY <1>1, <2>2, <2>3 DEF BarOf
    <2>5. wire' \subseteq wire /\ UNCHANGED <<desktop, channel, map, session>>
      BY <1>5 DEF Configure
    <2> QED BY <1>1, <1>2, <2>1, <2>4, <2>5
  <1>6. ASSUME NEW l \in Layers, Closed(l), session' = session PROVE Typed'
    <2>1. session = "running"
      BY <1>6 DEF Closed
    <2>2. ~Exit("fatal")
      BY <1>6, <2>1 DEF Exit
    <2> QED BY <1>1, <1>2, <1>6, <2>2 DEF Closed
  <1>7. CASE SurfaceEnds
    <2>1. PICK o \in Outputs :
            /\ HasBar(o) /\ wire' = wire \cup {[ev |-> "closed", layer |-> bars[o].layer]}
      BY <1>7 DEF SurfaceEnds
    <2>2. bars[o].layer \in Layers
      BY <1>1, <2>1 DEF HasBar, BarRecords
    <2>3. lastContent' = lastContent /\ bars' = bars /\ UNCHANGED <<desktop, channel, map, session>>
      BY <1>7 DEF SurfaceEnds, drawn
    <2> QED BY <1>1, <1>2, <2>1, <2>2, <2>3
  <1> QED BY <1>3, <1>4, <1>5, <1>6, <1>7


\* What one change of the desktop puts on the stream.
LEMMA EmitTyped ==
  ASSUME stream \in Seq(Lines), NEW lines \in Seq(Lines), Emit(lines)
  PROVE  stream' \in Seq(Lines) /\ Len(stream') <= MaxStream /\ source' = source
  <1>1. stream \o lines \in Seq(Lines) /\ Len(stream \o lines) = Len(stream) + Len(lines)
    OBVIOUS
  <1> DEFINE none == [i \in 1..Len(lines) |-> [ev |-> "refused"]]
  <1>2. [ev |-> "refused"] \in Lines
    BY DEF Lines, Others
  <1>3. none \in Seq(Lines) /\ Len(none) = Len(lines)
    BY <1>2
  <1>4. stream \o none \in Seq(Lines) /\ Len(stream \o none) = Len(stream) + Len(lines)
    BY <1>3
  <1>5. stream' = stream \o lines \/ stream' = stream \o none
    BY DEF Emit
  <1> HIDE DEF none
  <1> QED BY <1>1, <1>4, <1>5 DEF Emit

LEMMA LineTypes ==
  ASSUME NEW w \in Windows
  PROVE  /\ \A claim \in Claims, f \in BOOLEAN : Changed(w, claim, f) \in Lines
         /\ ClosedLine(w) \in Lines /\ FocusLine(w) \in Lines
  BY DEF Changed, ClosedLine, FocusLine, Lines, Changes, Closes, Focuses

LEMMA DesktopTyped ==
  ASSUME Typed, Desktop
  PROVE  Typed'
  <1>1. stream \in Seq(Lines) /\ open \subseteq Windows
        /\ focus \in Windows \cup {NoWindow} /\ title \in [Windows -> Claims]
    BY DEF Typed, TypeOK
  <1>2. ASSUME NEW lines \in Seq(Lines), Emit(lines), open' \subseteq Windows,
               focus' \in Windows \cup {NoWindow}, title' \in [Windows -> Claims]
        PROVE  Typed'
    <2>1. stream' \in Seq(Lines) /\ Len(stream') <= MaxStream /\ source' = source
      BY <1>1, <1>2, EmitTyped
    <2>2. UNCHANGED <<wire, map, lastContent, bars, session>>
      BY DEF Desktop, drawn
    <2> QED BY <1>2, <2>1, <2>2 DEF Typed, TypeOK
  <1>3. \A w \in Windows : TitlesOf(w) \subseteq Claims
    BY LabelAssumption DEF TitlesOf, Claims
  <1>4. ASSUME NEW w \in Windows, OpenWindow(w) PROVE Typed'
    <2>1. PICK claim \in TitlesOf(w), f \in BOOLEAN :
            /\ title' = [title EXCEPT ![w] = claim]
            /\ focus' = IF f THEN w ELSE focus
            /\ Emit(<<Changed(w, claim, f)>>)
      BY <1>4 DEF OpenWindow
    <2>2. Changed(w, claim, f) \in Lines
      BY <1>3, LineTypes
    <2>3. <<Changed(w, claim, f)>> \in Seq(Lines)
      BY <2>2
    <2> QED BY <1>1, <1>2, <1>3, <1>4, <2>1, <2>3 DEF OpenWindow
  <1>5. ASSUME NEW w \in Windows, RetitleWindow(w) PROVE Typed'
    <2> DEFINE f == focus = w
    <2>1. PICK claim \in TitlesOf(w) :
            /\ title' = [title EXCEPT ![w] = claim]
            /\ Emit(<<Changed(w, claim, f)>>)
      BY <1>5 DEF RetitleWindow
    <2>2. f \in BOOLEAN
      OBVIOUS
    <2> HIDE DEF f
    <2>3. <<Changed(w, claim, f)>> \in Seq(Lines)
      BY <1>3, <2>2, LineTypes
    <2> QED BY <1>1, <1>2, <1>3, <1>5, <2>1, <2>3 DEF RetitleWindow
  <1>6. ASSUME NEW w \in Windows, CloseWindow(w) PROVE Typed'
    <2>1. /\ <<ClosedLine(w)>> \in Seq(Lines)
          /\ \A v \in open : /\ <<ClosedLine(w), FocusLine(v)>> \in Seq(Lines)
                             /\ <<FocusLine(v), ClosedLine(w)>> \in Seq(Lines)
      BY <1>1, LineTypes
    <2>2. open' \subseteq Windows /\ title' \in [Windows -> Claims]
      BY <1>1, <1>6 DEF CloseWindow, Claims
    <2>3. focus' \in Windows \cup {NoWindow}
      BY <1>1, <1>6 DEF CloseWindow
    <2> QED BY <1>2, <1>6, <2>1, <2>2, <2>3 DEF CloseWindow
  <1>7. CASE MoveFocus
    <2>1. PICK w \in open \cup {NoWindow} :
            focus' = w /\ Emit(<<FocusLine(w)>>) /\ UNCHANGED <<open, title>>
      BY <1>7 DEF MoveFocus
    <2>2. FocusLine(w) \in Lines
      BY <1>1 DEF FocusLine, Lines, Focuses
    <2>3. <<FocusLine(w)>> \in Seq(Lines)
      BY <2>2
    <2> QED BY <1>1, <1>2, <2>1, <2>3
  <1> QED BY <1>4, <1>5, <1>6, <1>7 DEF Desktop

LEMMA StreamTyped ==
  ASSUME Typed, StreamOpens \/ StreamEnds \/ OtherLine
  PROVE  Typed'
  <1>1. ASSUME stream' \in Seq(Lines), Len(stream') <= MaxStream,
               source' \in {"starting", "open", "ended"},
               UNCHANGED <<desktop, wire, map, drawn, session>>
        PROVE  Typed'
    BY <1>1 DEF Typed, TypeOK, desktop, drawn
  <1>2. CASE StreamOpens
    <2> DEFINE e == [ev |-> "snapshot", focus |-> focus,
                     windows |-> [w \in Windows |-> IF w \in open THEN title[w] ELSE Absent]]
    <2>1. e \in Lines
      BY DEF Typed, TypeOK, Lines, Snapshots
    <2>2. stream' = <<e>> /\ source' = "open" /\ UNCHANGED <<desktop, wire, map, drawn, session>>
      BY <1>2 DEF StreamOpens
    <2> HIDE DEF e
    <2>3. stream' \in Seq(Lines) /\ Len(stream') = 1
      BY <2>1, <2>2
    <2> QED BY <1>1, <2>2, <2>3, LabelAssumption
  <1>3. CASE StreamEnds
    BY <1>1, <1>3 DEF StreamEnds, Typed, TypeOK
  <1>4. CASE OtherLine
    <2>1. PICK ev \in {"other", "refused"} : stream' = Append(stream, [ev |-> ev])
      BY <1>4 DEF OtherLine
    <2> DEFINE e == [ev |-> ev]
    <2>2. e \in Lines /\ stream' = Append(stream, e)
      BY <2>1 DEF Lines, Others
    <2> HIDE DEF e
    <2>3. stream = <<>> /\ source' = source /\ UNCHANGED <<desktop, wire, map, drawn, session>>
      BY <1>4 DEF OtherLine
    <2>4. stream' \in Seq(Lines) /\ Len(stream') = 1
      BY <2>2, <2>3
    <2> QED BY <1>1, <2>3, <2>4, LabelAssumption DEF Typed, TypeOK
  <1> QED BY <1>2, <1>3, <1>4


LEMMA NextTyped == Typed /\ [Next]_vars => Typed'
  <1> SUFFICES ASSUME Typed, [Next]_vars PROVE Typed'
    OBVIOUS
  <1>1. CASE UNCHANGED vars
    BY <1>1 DEF vars, desktop, channel, drawn, Typed, TypeOK
  <1>2. CASE HandleNiriLine
    BY <1>2, LineTyped
  <1>3. CASE StreamClosed \/ TimerFires
    BY <1>3, ExitTyped DEF StreamClosed, TimerFires
  <1>4. CASE \E o \in Outputs : NewOutput(o) \/ OutputDestroyed(o)
    BY <1>4, BarTyped
  <1>5. ASSUME NEW l \in Layers, Configure(l) \/ Closed(l) PROVE Typed'
    <2>1. CASE Exit("fatal")
      BY <2>1, ExitTyped
    <2>2. CASE ~Exit("fatal")
      <3>1. Closed(l) => session' = session
        BY <2>2 DEF Closed
      <3> QED BY <1>5, <3>1, BarTyped
    <2> QED BY <2>1, <2>2
  <1>6. CASE Environment
    BY <1>6, DesktopTyped, StreamTyped, BarTyped DEF Environment
  <1> QED BY <1>1, <1>2, <1>3, <1>4, <1>5, <1>6 DEF Next

LEMMA TypedAlways == Spec => []Typed
  BY InitTyped, NextTyped, PTL DEF Spec

\* The type invariant of the label bar and its surroundings: in particular no
\* sequence of lines leaves a map or a text of another shape.
THEOREM LabelTypeCorrect == Spec => []TypeOK
  BY TypedAlways, PTL DEF Typed

-----------------------------------------------------------------------------
(* The bars.  BarsAgree is not inductive as it stands: a bar configured while  *)
(* there is no text would keep showing nothing when another brings the first.  *)

NoTextNoBar == lastContent = Blank => \A o \in Outputs : HasBar(o) => bars[o].firstConfigure

BarInvariant == BarsAgree /\ NoTextNoBar

\* A redraw reaches every configured bar.
LEMMA RedrawAgrees ==
  ASSUME "draw" \notin Faults, BarInvariant, bars \in [Outputs -> BarRecords \cup {NoBar}],
         NEW c \in Contents, RedrawAll(c), lastContent' = c
  PROVE  BarInvariant'
  <1>1. bars' = [o \in Outputs |->
                   IF HasBar(o) /\ ~bars[o].firstConfigure
                   THEN [bars[o] EXCEPT !.shown = c] ELSE bars[o]]
    BY DEF RedrawAll, DrawOutcomes
  <1>2. c # Blank
    BY BlankAssumption
  <1>3. ASSUME NEW o \in Outputs, bars'[o] # NoBar
        PROVE  IF bars'[o].firstConfigure THEN bars'[o].shown = Blank
               ELSE bars'[o].shown = lastContent'
    <2>1. CASE HasBar(o) /\ ~bars[o].firstConfigure
      <3>1. bars[o] \in BarRecords /\ bars'[o] = [bars[o] EXCEPT !.shown = c]
        BY <1>1, <2>1 DEF HasBar
      <3>2. bars'[o].shown = c /\ bars'[o].firstConfigure = bars[o].firstConfigure
        BY <3>1, DrawnBar
      <3> QED BY <2>1, <3>2
    <2>2. CASE ~(HasBar(o) /\ ~bars[o].firstConfigure)
      <3>1. bars'[o] = bars[o] /\ HasBar(o) /\ bars[o].firstConfigure
        BY <1>1, <1>3, <2>2 DEF HasBar
      <3> QED BY <3>1 DEF BarInvariant, BarsAgree
    <2> QED BY <2>1, <2>2
  <1> QED BY <1>2, <1>3 DEF BarInvariant, BarsAgree, NoTextNoBar, HasBar

\* So does a first configure, and what it draws is the text of the others.
LEMMA ConfigureAgrees ==
  ASSUME "draw" \notin Faults, Typed, BarInvariant, NEW l \in Layers, Configure(l)
  PROVE  BarInvariant'
  <1>1. bars \in [Outputs -> BarRecords \cup {NoBar}] /\ map \in Maps
    BY DEF Typed, TypeOK, Maps
  <1>2. bars' = [o \in Outputs |->
                   IF o \in BarOf(l) /\ bars[o].firstConfigure
                   THEN [bars[o] EXCEPT !.firstConfigure = FALSE, !.shown = lastContent']
                   ELSE bars[o]]
    <2>1. PICK drawing \in {Outputs} :
            bars' = [o \in Outputs |->
                       IF o \in BarOf(l) /\ bars[o].firstConfigure
                       THEN [bars[o] EXCEPT !.firstConfigure = FALSE,
                               !.shown = IF o \in drawing THEN lastContent' ELSE @]
                       ELSE bars[o]]
      BY DEF Configure, DrawOutcomes
    <2> QED BY <2>1
  <1>3. /\ lastContent # Blank => lastContent' = lastContent
        /\ lastContent' # Blank
    BY <1>1, ContentType, BlankAssumption DEF Configure
  <1>4. ASSUME NEW o \in Outputs, bars'[o] # NoBar
        PROVE  IF bars'[o].firstConfigure THEN bars'[o].shown = Blank
               ELSE bars'[o].shown = lastContent'
    <2>1. CASE o \in BarOf(l) /\ bars[o].firstConfigure
      <3>1. /\ bars[o] \in BarRecords
            /\ bars'[o] = [bars[o] EXCEPT !.firstConfigure = FALSE, !.shown = lastContent']
        BY <1>1, <1>2, <2>1 DEF BarOf, HasBar
      <3> QED BY <3>1 DEF BarRecords
    <2>2. CASE ~(o \in BarOf(l) /\ bars[o].firstConfigure)
      <3>1. bars'[o] = bars[o] /\ HasBar(o)
        BY <1>2, <1>4, <2>2 DEF HasBar
      <3>2. ~bars[o].firstConfigure => lastContent # Blank
        BY <3>1 DEF BarInvariant, NoTextNoBar
      <3> QED BY <1>3, <3>1, <3>2 DEF BarInvariant, BarsAgree
    <2> QED BY <2>1, <2>2
  <1> QED BY <1>3, <1>4 DEF BarInvariant, BarsAgree, NoTextNoBar, HasBar

LEMMA NextBars ==
  ASSUME "draw" \notin Faults, Typed, BarInvariant, [Next]_vars
  PROVE  BarInvariant'
  <1>1. bars \in [Outputs -> BarRecords \cup {NoBar}] /\ map \in Maps /\ map' \in Maps
    <2>1. Typed'
      BY NextTyped
    <2> QED BY <2>1 DEF Typed, TypeOK, Maps
  <1>2. CASE UNCHANGED drawn
    BY <1>2 DEF drawn, BarInvariant, BarsAgree, NoTextNoBar, HasBar
  <1>3. ASSUME NEW outcome, Exit(outcome) PROVE BarInvariant'
    BY <1>3 DEF Exit, BarInvariant, BarsAgree, NoTextNoBar, HasBar
  <1>4. CASE HandleNiriLine
    <2>1. CASE Head(stream).ev = "refused"
      BY <1>2, <1>4, <2>1 DEF HandleNiriLine
    <2>2. CASE Head(stream).ev # "refused"
      <3>1. MaybeRedraw(map')
        BY <1>4, <2>2 DEF HandleNiriLine
      <3>2. PICK c \in ComputeContent(map') :
              IF c = lastContent THEN UNCHANGED drawn
              ELSE lastContent' = c /\ RedrawAll(c)
        BY <3>1 DEF MaybeRedraw
      <3>3. c \in Contents
        BY <1>1, ContentType
      <3> QED BY <1>1, <1>2, <3>2, <3>3, RedrawAgrees
    <2> QED BY <2>1, <2>2
  <1>5. ASSUME NEW o \in Outputs, NewOutput(o) PROVE BarInvariant'
    <2> DEFINE l == CHOOSE l \in FreeLayers : \A k \in FreeLayers : l <= k
    <2>1. /\ bars' = [bars EXCEPT ![o] =
                        [layer |-> l, firstConfigure |-> TRUE, shown |-> Blank]]
          /\ lastContent' = lastContent
      BY <1>5 DEF NewOutput
    <2> HIDE DEF l
    <2>2. bars'[o].firstConfigure = TRUE /\ bars'[o].shown = Blank
      BY <1>1, <2>1
    <2>3. \A p \in Outputs \ {o} : bars'[p] = bars[p]
      BY <1>1, <2>1
    <2> QED BY <2>1, <2>2, <2>3 DEF BarInvariant, BarsAgree, NoTextNoBar, HasBar
  <1>6. ASSUME NEW gone \in SUBSET Outputs,
               bars' = [o \in Outputs |-> IF o \in gone THEN NoBar ELSE bars[o]],
               lastContent' = lastContent
        PROVE  BarInvariant'
    BY <1>6 DEF BarInvariant, BarsAgree, NoTextNoBar, HasBar
  <1>7. ASSUME NEW o \in Outputs, OutputDestroyed(o) PROVE BarInvariant'
    <2>1. bars' = [p \in Outputs |-> IF p \in {o} THEN NoBar ELSE bars[p]]
      BY <1>1, <1>7 DEF OutputDestroyed
    <2> QED BY <1>6, <1>7, <2>1 DEF OutputDestroyed
  <1>8. ASSUME NEW l \in Layers, Closed(l) PROVE BarInvariant'
    <2>1. BarOf(l) \in SUBSET Outputs
      BY DEF BarOf
    <2> QED BY <1>3, <1>6, <1>8, <2>1 DEF Closed
  <1>9. ASSUME NEW l \in Layers, Configure(l) PROVE BarInvariant'
    BY <1>9, ConfigureAgrees
  <1>10. CASE Environment
    BY <1>2, <1>10 DEF Environment, Desktop, StreamOpens, StreamEnds, OtherLine, SurfaceEnds
  <1>11. CASE StreamClosed \/ TimerFires
    BY <1>3, <1>11 DEF StreamClosed, TimerFires
  <1>12. CASE UNCHANGED vars
    BY <1>2, <1>12 DEF vars
  <1> QED BY <1>4, <1>5, <1>7, <1>8, <1>9, <1>10, <1>11, <1>12 DEF Next

\* Where drawing does not fail, the bars of all outputs say the same, the text
\* computed last, however outputs, configures and redraws cross (main.rs
\* configure, redraw_all).
THEOREM BarsAgreeTheorem ==
  ASSUME "draw" \notin Faults
  PROVE  Spec => []BarsAgree
  <1>1. Init => BarInvariant
    BY DEF Init, BarInvariant, BarsAgree, NoTextNoBar, HasBar
  <1>2. Typed /\ BarInvariant /\ [Next]_vars => BarInvariant'
    BY NextBars
  <1>3. BarInvariant => BarsAgree
    BY DEF BarInvariant
  <1> QED BY <1>1, <1>2, <1>3, TypedAlways, PTL DEF Spec


-----------------------------------------------------------------------------
(* The text.  What makes it true once the lines have been taken is that the    *)
(* lines on their way, applied in order to the map, lead to the desktop.       *)

\* What one line makes of the map.
After(m, e) == IF e.ev = "refused" THEN m ELSE Apply(m, e)

\* The map a subscriber would draw of the desktop.
Desk == [windows |-> [w \in Windows |-> IF w \in open THEN title[w] ELSE Absent],
         focus |-> focus]

\* s leads from the map m to the map d.
Leads(m, s, d) ==
  \E ms : /\ ms[1] = m /\ ms[Len(s) + 1] = d
          /\ \A k \in 1..Len(s) : ms[k + 1] = After(ms[k], s[k])

LEMMA LeadsNowhere == ASSUME NEW m, NEW d PROVE Leads(m, <<>>, d) <=> m = d
  <1>1. ASSUME m = d PROVE Leads(m, <<>>, d)
    <2> DEFINE ms == [k \in {1} |-> m]
    <2>1. ms[1] = m /\ ms[Len(<<>>) + 1] = d
      BY <1>1
    <2>2. \A k \in 1..Len(<<>>) : ms[k + 1] = After(ms[k], <<>>[k])
      OBVIOUS
    <2> HIDE DEF ms
    <2> QED BY <2>1, <2>2 DEF Leads
  <1>2. ASSUME Leads(m, <<>>, d) PROVE m = d
    BY <1>2 DEF Leads
  <1> QED BY <1>1, <1>2

LEMMA LeadsOn ==
  ASSUME NEW m, NEW s \in Seq(Lines), NEW d, Leads(m, s, d), NEW e \in Lines
  PROVE  Leads(m, Append(s, e), After(d, e))
  <1>1. PICK ms : /\ ms[1] = m /\ ms[Len(s) + 1] = d
                  /\ \A k \in 1..Len(s) : ms[k + 1] = After(ms[k], s[k])
    BY DEF Leads
  <1> DEFINE n == Len(s)
             ns == [k \in 1..(n + 2) |-> IF k = n + 2 THEN After(d, e) ELSE ms[k]]
             t == Append(s, e)
  <1>2. n \in Nat /\ Len(t) = n + 1 /\ t[n + 1] = e /\ \A k \in 1..n : t[k] = s[k]
    OBVIOUS
  <1>3. /\ ns[1] = m /\ ns[n + 2] = After(d, e) /\ ns[n + 1] = d
        /\ \A k \in 1..(n + 1) : ns[k] = ms[k]
    BY <1>1, <1>2
  <1> HIDE DEF n, ns, t
  <1>4. ASSUME NEW k \in 1..(n + 1) PROVE ns[k + 1] = After(ns[k], t[k])
    <2>1. CASE k = n + 1
      <3>1. k + 1 = n + 2
        BY <1>2, <2>1
      <3> QED BY <1>2, <1>3, <2>1, <3>1
    <2>2. CASE k # n + 1
      <3>1. k \in 1..n /\ k + 1 \in 1..(n + 1)
        BY <1>2, <2>2
      <3>2. ms[k + 1] = After(ms[k], s[k])
        BY <1>1, <3>1 DEF n
      <3> QED BY <1>2, <1>3, <3>1, <3>2
    <2> QED BY <2>1, <2>2
  <1>5. Len(t) + 1 = n + 2
    BY <1>2
  <1>6. Leads(m, t, After(d, e))
    BY <1>2, <1>3, <1>4, <1>5 DEF Leads
  <1> QED BY <1>6 DEF t

LEMMA LeadsTail ==
  ASSUME NEW m, NEW s \in Seq(Lines), s # <<>>, NEW d, Leads(m, s, d)
  PROVE  Leads(After(m, Head(s)), Tail(s), d)
  <1>1. PICK ms : /\ ms[1] = m /\ ms[Len(s) + 1] = d
                  /\ \A k \in 1..Len(s) : ms[k + 1] = After(ms[k], s[k])
    BY DEF Leads
  <1> DEFINE n == Len(s)
             ns == [k \in 1..n |-> ms[k + 1]]
             t == Tail(s)
  <1>2. /\ n \in Nat \ {0} /\ Len(t) + 1 = n /\ Head(s) = s[1]
        /\ \A k \in 1..Len(t) : t[k] = s[k + 1]
    OBVIOUS
  <1>3. ns[n] = d /\ ns[1] = ms[2] /\ \A k \in 1..n : ns[k] = ms[k + 1]
    BY <1>1, <1>2
  <1>4. ms[2] = After(m, Head(s))
    <2>1. ms[1 + 1] = After(ms[1], s[1])
      BY <1>1, <1>2
    <2> QED BY <1>1, <1>2, <2>1
  <1>5. Len(t) \in Nat
    BY <1>2
  <1> HIDE DEF n, ns, t
  <1>6. ASSUME NEW k \in 1..Len(t) PROVE ns[k + 1] = After(ns[k], t[k])
    <2>1. k \in 1..n /\ k + 1 \in 1..n
      BY <1>2, <1>5
    <2>2. ms[(k + 1) + 1] = After(ms[k + 1], s[k + 1])
      BY <1>1, <2>1 DEF n
    <2> QED BY <1>2, <1>3, <2>1, <2>2
  <1>7. Leads(After(m, Head(s)), t, d)
    BY <1>2, <1>3, <1>4, <1>6 DEF Leads
  <1> QED BY <1>7 DEF t

(* Each change of the desktop is told by its lines.                        *)

DesktopInvariant ==
  /\ focus \in open \cup {NoWindow}
  /\ \A w \in Windows : title[w] \in IF w \in open THEN TitlesOf(w) ELSE {NoSpace}

LEMMA ToldByTwo ==
  ASSUME Typed, "refused" \notin Faults, Leads(map, stream, Desk),
         NEW e \in Lines, NEW f \in Lines, Emit(<<e, f>>)
  PROVE  Leads(map, stream', After(After(Desk, e), f))
  <1>1. stream \in Seq(Lines)
    BY DEF Typed
  <1>2. stream' = Append(Append(stream, e), f) /\ Append(stream, e) \in Seq(Lines)
    BY <1>1 DEF Emit
  <1> QED BY <1>1, <1>2, LeadsOn

LEMMA ToldByOne ==
  ASSUME Typed, "refused" \notin Faults, Leads(map, stream, Desk),
         NEW e \in Lines, Emit(<<e>>)
  PROVE  Leads(map, stream', After(Desk, e))
  <1>1. stream \in Seq(Lines)
    BY DEF Typed
  <1>2. stream' = Append(stream, e)
    BY <1>1 DEF Emit
  <1> QED BY <1>1, <1>2, LeadsOn

\* The lines of window w applied to a map m.
LEMMA AfterChanged ==
  ASSUME NEW m, NEW w, NEW claim, NEW f \in BOOLEAN
  PROVE  After(m, Changed(w, claim, f)) = [windows |-> [m.windows EXCEPT ![w] = claim],
                                           focus |-> IF f THEN w ELSE m.focus]
  <1> DEFINE e == Changed(w, claim, f)
  <1>1. e.ev = "changed" /\ e.window = w /\ e.title = claim /\ e.focused = f
    BY DEF Changed
  <1> HIDE DEF e
  <1>2. After(m, e) = Apply(m, e)
    BY <1>1 DEF After
  <1>3. Apply(m, e) = [windows |-> [m.windows EXCEPT ![w] = claim],
                       focus |-> IF f THEN w ELSE m.focus]
    BY <1>1, ApplyCases
  <1> QED BY <1>2, <1>3 DEF e

LEMMA AfterLines ==
  ASSUME NEW m, NEW w
  PROVE  /\ After(m, ClosedLine(w)) =
              [windows |-> [m.windows EXCEPT ![w] = Absent],
               focus |-> IF m.focus = w THEN NoWindow ELSE m.focus]
         /\ After(m, FocusLine(w)) = [m EXCEPT !.focus = w]
  <1>1. After(m, ClosedLine(w)) =
          [windows |-> [m.windows EXCEPT ![w] = Absent],
           focus |-> IF m.focus = w THEN NoWindow ELSE m.focus]
    <2>1. ClosedLine(w).ev = "closed" /\ ClosedLine(w).window = w
      BY DEF ClosedLine
    <2> QED BY <2>1, ApplyCases DEF After
  <1>2. After(m, FocusLine(w)) = [m EXCEPT !.focus = w]
    <2>1. FocusLine(w).ev = "focus" /\ FocusLine(w).window = w
      BY DEF FocusLine
    <2> QED BY <2>1, ApplyCases DEF After
  <1> QED BY <1>1, <1>2

\* A window that opens or takes another title, focused or not.
LEMMA ChangeTold ==
  ASSUME NEW w \in Windows, NEW claim, NEW f \in BOOLEAN, open' = open \cup {w},
         title \in [Windows -> Claims], title' = [title EXCEPT ![w] = claim],
         focus' = IF f THEN w ELSE focus
  PROVE  After(Desk, Changed(w, claim, f)) = Desk'
  <1> DEFINE ws == [v \in Windows |-> IF v \in open THEN title[v] ELSE Absent]
             vs == [v \in Windows |-> IF v \in open' THEN title'[v] ELSE Absent]
  <1>1. After(Desk, Changed(w, claim, f)) =
          [windows |-> [Desk.windows EXCEPT ![w] = claim],
           focus |-> IF f THEN w ELSE Desk.focus]
    BY AfterChanged
  <1>2. Desk.windows = ws /\ Desk.focus = focus /\ Desk' = [windows |-> vs, focus |-> focus']
    BY DEF Desk
  <1>3. [ws EXCEPT ![w] = claim] = vs
    OBVIOUS
  <1> HIDE DEF ws, vs
  <1> QED BY <1>1, <1>2, <1>3

\* A window that closes, and where the focus goes.
LEMMA CloseTold ==
  ASSUME NEW w \in Windows, open' = open \ {w},
         title \in [Windows -> Claims], title' = [title EXCEPT ![w] = NoSpace]
  PROVE  /\ focus # w /\ focus' = focus => After(Desk, ClosedLine(w)) = Desk'
         /\ focus = w /\ focus' = NoWindow => After(Desk, ClosedLine(w)) = Desk'
         /\ \A v \in open \ {w} : focus' = v =>
              /\ After(After(Desk, ClosedLine(w)), FocusLine(v)) = Desk'
              /\ After(After(Desk, FocusLine(v)), ClosedLine(w)) = Desk'
  <1> DEFINE ws == [v \in Windows |-> IF v \in open THEN title[v] ELSE Absent]
             vs == [v \in Windows |-> IF v \in open' THEN title'[v] ELSE Absent]
  <1>1. Desk = [windows |-> ws, focus |-> focus] /\ Desk' = [windows |-> vs, focus |-> focus']
    BY DEF Desk
  <1>2. [ws EXCEPT ![w] = Absent] = vs
    OBVIOUS
  <1> HIDE DEF ws, vs
  <1>3. After(Desk, ClosedLine(w)) = [windows |-> vs,
                                      focus |-> IF focus = w THEN NoWindow ELSE focus]
    <2>1. Desk.windows = ws /\ Desk.focus = focus
      BY <1>1
    <2>2. After(Desk, ClosedLine(w)) =
            [windows |-> [Desk.windows EXCEPT ![w] = Absent],
             focus |-> IF Desk.focus = w THEN NoWindow ELSE Desk.focus]
      BY AfterLines, Zenon
    <2> QED BY <1>2, <2>1, <2>2
  <1>4. ASSUME NEW v \in open \ {w}, focus' = v
        PROVE  /\ After(After(Desk, ClosedLine(w)), FocusLine(v)) = Desk'
               /\ After(After(Desk, FocusLine(v)), ClosedLine(w)) = Desk'
    <2>1. After(Desk, FocusLine(v)) = [windows |-> ws, focus |-> v]
      <3>1. After(Desk, FocusLine(v)) = [Desk EXCEPT !.focus = v]
        BY AfterLines, Zenon
      <3> QED BY <1>1, <3>1
    <2>2. After(After(Desk, FocusLine(v)), ClosedLine(w)) = [windows |-> vs, focus |-> v]
      <3> DEFINE d == After(Desk, FocusLine(v))
      <3>1. d.windows = ws /\ d.focus = v /\ v # w
        BY <2>1
      <3> HIDE DEF d
      <3>2. After(d, ClosedLine(w)) = [windows |-> [d.windows EXCEPT ![w] = Absent],
                                       focus |-> IF d.focus = w THEN NoWindow ELSE d.focus]
        BY AfterLines, Zenon
      <3>3. After(d, ClosedLine(w)) = [windows |-> vs, focus |-> v]
        BY <1>2, <3>1, <3>2
      <3> QED BY <3>3 DEF d
    <2>3. After(After(Desk, ClosedLine(w)), FocusLine(v)) = [windows |-> vs, focus |-> v]
      BY <1>3, AfterLines
    <2> QED BY <1>1, <1>4, <2>2, <2>3
  <1> QED BY <1>1, <1>3, <1>4

LEMMA DesktopTells ==
  ASSUME Typed, DesktopInvariant, "refused" \notin Faults, Leads(map, stream, Desk), Desktop
  PROVE  Leads(map', stream', Desk') /\ DesktopInvariant'
  <1>1. /\ open \subseteq Windows /\ title \in [Windows -> Claims] /\ map' = map
    BY DEF Typed, TypeOK, Desktop
  <1>2. \A w \in Windows : TitlesOf(w) \subseteq Claims
    BY LabelAssumption DEF TitlesOf, Claims
  <1>3. ASSUME NEW w \in Windows, OpenWindow(w) PROVE Leads(map', stream', Desk') /\ DesktopInvariant'
    <2>1. PICK claim \in TitlesOf(w), f \in BOOLEAN :
            /\ title' = [title EXCEPT ![w] = claim]
            /\ focus' = IF f THEN w ELSE focus
            /\ Emit(<<Changed(w, claim, f)>>)
      BY <1>3 DEF OpenWindow
    <2>2. open' = open \cup {w}
      BY <1>3 DEF OpenWindow
    <2>3. Changed(w, claim, f) \in Lines
      BY <1>2, LineTypes
    <2>4. After(Desk, Changed(w, claim, f)) = Desk'
      BY <1>1, <2>1, <2>2, ChangeTold
    <2>5. DesktopInvariant'
      BY <1>1, <2>1, <2>2 DEF DesktopInvariant
    <2> QED BY <1>1, <2>1, <2>3, <2>4, <2>5, ToldByOne
  <1>4. ASSUME NEW w \in Windows, RetitleWindow(w) PROVE Leads(map', stream', Desk') /\ DesktopInvariant'
    <2> DEFINE f == focus = w
    <2>1. PICK claim \in TitlesOf(w) :
            title' = [title EXCEPT ![w] = claim] /\ Emit(<<Changed(w, claim, f)>>)
      BY <1>4 DEF RetitleWindow
    <2>2. /\ open' = open \cup {w} /\ open' = open /\ focus' = focus
          /\ focus' = IF f THEN w ELSE focus
      BY <1>4 DEF RetitleWindow
    <2>3. f \in BOOLEAN
      OBVIOUS
    <2> HIDE DEF f
    <2>4. Changed(w, claim, f) \in Lines
      BY <1>2, <2>3, LineTypes
    <2>5. After(Desk, Changed(w, claim, f)) = Desk'
      BY <1>1, <2>1, <2>2, <2>3, ChangeTold
    <2>6. DesktopInvariant'
      BY <1>1, <2>1, <2>2 DEF DesktopInvariant
    <2> QED BY <1>1, <2>1, <2>4, <2>5, <2>6, ToldByOne
  <1>5. ASSUME NEW w \in Windows, CloseWindow(w) PROVE Leads(map', stream', Desk') /\ DesktopInvariant'
    <2>1. open' = open \ {w} /\ title' = [title EXCEPT ![w] = NoSpace]
      BY <1>5 DEF CloseWindow
    <2>2. ClosedLine(w) \in Lines /\ \A v \in open : FocusLine(v) \in Lines
      BY <1>1, LineTypes
    <2>3. DesktopInvariant'
      BY <1>1, <1>5 DEF DesktopInvariant, CloseWindow
    <2>4. Leads(map, stream', Desk')
      <3>1. CASE Emit(<<ClosedLine(w)>>) /\ \/ focus # w /\ focus' = focus
                                            \/ focus = w /\ focus' = NoWindow
        BY <1>1, <2>1, <2>2, <3>1, CloseTold, ToldByOne
      <3>2. ASSUME NEW v \in open \ {w}, focus' = v, Emit(<<ClosedLine(w), FocusLine(v)>>)
            PROVE  Leads(map, stream', Desk')
        <4>1. Leads(map, stream', After(After(Desk, ClosedLine(w)), FocusLine(v)))
          BY <1>1, <2>2, <3>2, ToldByTwo
        <4>2. After(After(Desk, ClosedLine(w)), FocusLine(v)) = Desk'
          BY <1>1, <2>1, <3>2, CloseTold
        <4> QED BY <4>1, <4>2
      <3>3. ASSUME NEW v \in open \ {w}, focus' = v, Emit(<<FocusLine(v), ClosedLine(w)>>)
            PROVE  Leads(map, stream', Desk')
        <4>1. Leads(map, stream', After(After(Desk, FocusLine(v)), ClosedLine(w)))
          BY <1>1, <2>2, <3>3, ToldByTwo
        <4>2. After(After(Desk, FocusLine(v)), ClosedLine(w)) = Desk'
          BY <1>1, <2>1, <3>3, CloseTold
        <4> QED BY <4>1, <4>2
      <3> QED BY <1>5, <3>1, <3>2, <3>3 DEF CloseWindow
    <2> QED BY <1>1, <2>3, <2>4
  <1>6. CASE MoveFocus
    <2>1. PICK w \in open \cup {NoWindow} :
            focus' = w /\ Emit(<<FocusLine(w)>>) /\ UNCHANGED <<open, title>>
      BY <1>6 DEF MoveFocus
    <2>2. FocusLine(w) \in Lines
      BY <1>1 DEF FocusLine, Lines, Focuses
    <2>3. After(Desk, FocusLine(w)) = [Desk EXCEPT !.focus = w]
      BY AfterLines
    <2>4. [Desk EXCEPT !.focus = w] = Desk'
      BY <2>1 DEF Desk
    <2>5. DesktopInvariant'
      BY <2>1 DEF DesktopInvariant
    <2> QED BY <1>1, <2>1, <2>2, <2>3, <2>4, <2>5, ToldByOne
  <1> QED BY <1>3, <1>4, <1>5, <1>6 DEF Desktop


(* The strip computed for a map of the desktop is true of it.              *)

LEMMA StripIsTrue ==
  ASSUME Typed, DesktopInvariant, NEW c \in ComputeContent(Desk)
  PROVE  TrueOf(c, focus)
  <1>1. /\ Desk.focus = focus
        /\ Desk.windows = [w \in Windows |-> IF w \in open THEN title[w] ELSE Absent]
    BY DEF Desk
  <1>2. /\ focus \in open \cup {NoWindow} /\ open \subseteq Windows
        /\ title \in [Windows -> Claims]
        /\ focus \in open => title[focus] \in TitlesOf(focus)
    BY DEF Typed, TypeOK, DesktopInvariant
  <1>3. FocusOf(Desk) = focus /\ focus # Unknown
    BY <1>1, <1>2, LabelAssumption DEF FocusOf, Claims
  <1>4. ASSUME c.kind = "host",
               focus = NoWindow \/ (focus \in Windows /\ Owner[focus] = NoSpace) \/ focus \in Untitled
        PROVE  TrueOf(c, focus)
    <2>1. /\ ~(c.kind \in {"space", "orphan", "unknown"}) /\ ~(c.kind = "unverified")
          /\ ~(c.kind = "focus-unknown") /\ ~(c.kind = "error")
      BY <1>4
    <2> QED BY <1>4, <2>1, Zenon DEF TrueOf
  <1>5. ASSUME c.kind \in {"space", "orphan", "unknown"}, focus \in Windows, Owner[focus] = c.id
        PROVE  TrueOf(c, focus)
    <2>1. /\ ~(c.kind = "host") /\ ~(c.kind = "unverified")
          /\ ~(c.kind = "focus-unknown") /\ ~(c.kind = "error")
      BY <1>5
    <2> QED BY <1>5, <2>1, Zenon DEF TrueOf
  <1>6. ASSUME c.kind = "unverified", focus \in Windows, title[focus] = c.id
        PROVE  TrueOf(c, focus)
    <2>1. /\ ~(c.kind = "host") /\ ~(c.kind \in {"space", "orphan", "unknown"})
          /\ ~(c.kind = "focus-unknown") /\ ~(c.kind = "error")
      BY <1>6
    <2> QED BY <1>6, <2>1, Zenon DEF TrueOf
  <1>7. CASE c = Strip("error", NoSpace)
    <2>1. c.kind = "error"
      BY <1>7 DEF Strip
    <2>2. /\ ~(c.kind = "host") /\ ~(c.kind \in {"space", "orphan", "unknown"})
          /\ ~(c.kind = "unverified") /\ ~(c.kind = "focus-unknown")
      BY <2>1
    <2> QED BY <2>1, <2>2, Zenon DEF TrueOf
  <1>8. ASSUME NEW list \in Answers, NEW readable \in Lookups, c = StripFor(Desk, list, readable)
        PROVE  TrueOf(c, focus)
    <2>1. /\ focus = NoWindow => c = HostStrip
          /\ focus \in readable /\ Owner[focus] \in Spaces =>
               \E kind \in {"space", "orphan", "unknown"} : c = Strip(kind, Owner[focus])
          /\ focus \in readable /\ Owner[focus] \notin Spaces => c = HostStrip
          /\ focus \in Windows \ readable /\ Desk.windows[focus] \in Spaces =>
               c = Strip("unverified", Desk.windows[focus])
          /\ focus \in Windows \ readable /\ Desk.windows[focus] \notin Spaces => c = HostStrip
      BY <1>3, <1>8, StripCases
    <2>2. HostStrip.kind = "host"
      BY DEF HostStrip, Strip
    <2>3. CASE focus = NoWindow
      BY <1>4, <2>1, <2>2, <2>3
    <2>4. CASE focus \in readable /\ Owner[focus] \in Spaces
      <3>1. focus \in Windows
        BY <2>4 DEF Lookups
      <3>2. c.kind \in {"space", "orphan", "unknown"} /\ c.id = Owner[focus]
        BY <2>1, <2>4 DEF Strip
      <3> QED BY <1>5, <3>1, <3>2
    <2>5. CASE focus \in readable /\ Owner[focus] \notin Spaces
      <3>1. focus \in Windows /\ Owner[focus] = NoSpace
        BY <2>5, LabelAssumption DEF Lookups
      <3> QED BY <1>4, <2>1, <2>2, <2>5, <3>1
    <2>6. CASE focus \in open /\ focus \notin readable
      <3>1. Desk.windows[focus] = title[focus] /\ focus \in Windows
        BY <1>1, <1>2, <2>6
      <3>2. CASE title[focus] \in Spaces
        <4>1. c.kind = "unverified" /\ c.id = title[focus]
          BY <2>1, <2>6, <3>1, <3>2 DEF Strip
        <4> QED BY <1>6, <3>1, <4>1
      <3>3. CASE title[focus] \notin Spaces
        <4>1. c.kind = "host"
          BY <2>1, <2>2, <2>6, <3>1, <3>3
        <4>2. Owner[focus] = NoSpace \/ focus \in Untitled
          BY <1>2, <2>6, <3>1, <3>3, LabelAssumption DEF TitlesOf
        <4> QED BY <1>4, <3>1, <4>1, <4>2
      <3> QED BY <3>2, <3>3
    <2> QED BY <1>2, <2>3, <2>4, <2>5, <2>6
  <1> QED BY <1>7, <1>8 DEF ComputeContent

\* What is drawn is a text for the map, and there is one once the snapshot has
\* been taken.
TextInvariant ==
  /\ lastContent # Blank => lastContent \in ComputeContent(map)
  /\ session = "running" /\ source = "open" =>
       lastContent # Blank \/ (stream # <<>> /\ Head(stream).ev = "snapshot")

StripInvariant ==
  /\ DesktopInvariant /\ TextInvariant
  /\ session = "running" /\ source = "open" => Leads(map, stream, Desk)

LEMMA LineStrip ==
  ASSUME Typed, StripInvariant, HandleNiriLine
  PROVE  StripInvariant'
  <1>1. stream \in Seq(Lines) /\ stream # <<>> /\ stream' = Tail(stream) /\ map \in Maps
    BY DEF Typed, TypeOK, Maps, HandleNiriLine
  <1>2. UNCHANGED <<open, focus, title, source, session>>
    BY DEF HandleNiriLine, desktop
  <1>3. map' = After(map, Head(stream))
    BY DEF HandleNiriLine, After
  <1>4. Desk' = Desk /\ DesktopInvariant'
    BY <1>2 DEF Desk, StripInvariant, DesktopInvariant
  <1>5. session' = "running" /\ source' = "open" => Leads(map', stream', Desk')
    BY <1>1, <1>2, <1>3, <1>4, LeadsTail DEF StripInvariant
  <1>6. TextInvariant'
    <2>1. CASE Head(stream).ev = "refused"
      <3>1. map' = map /\ lastContent' = lastContent
        BY <2>1 DEF HandleNiriLine, drawn
      <3>2. ~(Head(stream).ev = "snapshot")
        BY <2>1
      <3> QED BY <1>2, <3>1, <3>2 DEF StripInvariant, TextInvariant, ComputeContent
    <2>2. CASE Head(stream).ev # "refused"
      <3>1. MaybeRedraw(map') /\ Head(stream) \in Lines
        BY <1>1, <2>2 DEF HandleNiriLine
      <3>2. PICK c \in ComputeContent(map') :
              IF c = lastContent THEN UNCHANGED drawn
              ELSE lastContent' = c /\ RedrawAll(c)
        BY <3>1 DEF MaybeRedraw
      <3>3. lastContent' = c
        BY <3>2 DEF drawn
      <3>4. map' \in Maps
        BY <1>1, <1>3, <2>2, <3>1, ApplyType DEF After
      <3>5. c # Blank
        BY <3>4, ContentType, BlankAssumption
      <3> QED BY <3>2, <3>3, <3>5 DEF TextInvariant, ComputeContent
    <2> QED BY <2>1, <2>2
  <1> QED BY <1>4, <1>5, <1>6 DEF StripInvariant


LEMMA DesktopAppends ==
  ASSUME Typed, "refused" \notin Faults, Desktop
  PROVE  \E lines : stream' = stream \o lines /\ lines \in Seq(Lines)
  <1>1. \A lines : Emit(lines) => stream' = stream \o lines
    BY DEF Emit
  <1>2. open \subseteq Windows
    BY DEF Typed, TypeOK
  <1>3. \A w \in Windows : TitlesOf(w) \subseteq Claims
    BY LabelAssumption DEF TitlesOf, Claims
  <1>4. ASSUME NEW w \in Windows, OpenWindow(w) \/ RetitleWindow(w)
        PROVE  \E lines : stream' = stream \o lines /\ lines \in Seq(Lines)
    <2>1. PICK claim \in TitlesOf(w), f \in BOOLEAN : Emit(<<Changed(w, claim, f)>>)
      BY <1>4 DEF OpenWindow, RetitleWindow
    <2>2. Changed(w, claim, f) \in Lines
      BY <1>3, LineTypes
    <2>3. <<Changed(w, claim, f)>> \in Seq(Lines)
      BY <2>2
    <2> QED BY <1>1, <2>1, <2>3
  <1>5. ASSUME NEW w \in Windows, CloseWindow(w)
        PROVE  \E lines : stream' = stream \o lines /\ lines \in Seq(Lines)
    <2>1. /\ <<ClosedLine(w)>> \in Seq(Lines)
          /\ \A v \in open : /\ <<ClosedLine(w), FocusLine(v)>> \in Seq(Lines)
                             /\ <<FocusLine(v), ClosedLine(w)>> \in Seq(Lines)
      BY <1>2, LineTypes
    <2>2. \/ Emit(<<ClosedLine(w)>>)
          \/ \E v \in open : \/ Emit(<<ClosedLine(w), FocusLine(v)>>)
                            \/ Emit(<<FocusLine(v), ClosedLine(w)>>)
      BY <1>5, Zenon DEF CloseWindow
    <2>3. ASSUME NEW lines \in Seq(Lines), Emit(lines)
          PROVE  \E ls : stream' = stream \o ls /\ ls \in Seq(Lines)
      BY <1>1, <2>3
    <2>4. ASSUME NEW v \in open, \/ Emit(<<ClosedLine(w), FocusLine(v)>>)
                                 \/ Emit(<<FocusLine(v), ClosedLine(w)>>)
          PROVE  \E ls : stream' = stream \o ls /\ ls \in Seq(Lines)
      BY <2>1, <2>3, <2>4
    <2> QED BY <2>1, <2>2, <2>3, <2>4
  <1>6. CASE MoveFocus
    <2>1. PICK w \in open \cup {NoWindow} : Emit(<<FocusLine(w)>>)
      BY <1>6 DEF MoveFocus
    <2>2. FocusLine(w) \in Lines
      BY <1>2 DEF FocusLine, Lines, Focuses
    <2>3. <<FocusLine(w)>> \in Seq(Lines)
      BY <2>2
    <2> QED BY <1>1, <2>1, <2>3
  <1> QED BY <1>4, <1>5, <1>6 DEF Desktop


LEMMA NextStrip ==
  ASSUME "refused" \notin Faults, Typed, StripInvariant, [Next]_vars
  PROVE  StripInvariant'
  <1>1. map \in Maps /\ stream \in Seq(Lines)
    BY DEF Typed, TypeOK, Maps
  <1>2. ASSUME UNCHANGED <<desktop, map>>,
               \/ UNCHANGED <<channel, session, lastContent>>
               \/ UNCHANGED <<channel, session>> /\ lastContent' \in ComputeContent(map)
               \/ source' = "ended" /\ UNCHANGED lastContent
        PROVE  StripInvariant'
    <2>1. /\ open' = open /\ focus' = focus /\ title' = title /\ map' = map
      BY <1>2 DEF desktop
    <2>2. Desk' = Desk /\ DesktopInvariant'
      BY <2>1 DEF Desk, StripInvariant, DesktopInvariant
    <2>3. CASE source' = "ended" /\ lastContent' = lastContent
      BY <2>1, <2>2, <2>3 DEF StripInvariant, TextInvariant, ComputeContent
    <2>4. CASE UNCHANGED <<channel, session>> /\ (UNCHANGED lastContent \/ lastContent' \in ComputeContent(map))
      <3>1. stream' = stream /\ source' = source /\ session' = session
        BY <2>4 DEF channel
      <3>2. lastContent' \in ComputeContent(map) => lastContent' # Blank
        BY <1>1, ContentType, BlankAssumption
      <3>3. TextInvariant'
        BY <2>1, <2>4, <3>1, <3>2 DEF StripInvariant, TextInvariant, ComputeContent
      <3> QED BY <2>1, <2>2, <3>1, <3>3 DEF StripInvariant
    <2> QED BY <1>2, <2>3, <2>4
  <1>3. CASE UNCHANGED vars
    BY <1>2, <1>3 DEF vars, drawn
  <1>4. CASE HandleNiriLine
    BY <1>4, LineStrip
  <1>5. ASSUME NEW outcome, Exit(outcome) PROVE StripInvariant'
    <2>1. /\ open' = open /\ focus' = focus /\ title' = title
          /\ lastContent' = Blank /\ source' = "ended"
      BY <1>5 DEF Exit, desktop
    <2>2. DesktopInvariant' /\ TextInvariant'
      BY <2>1 DEF StripInvariant, DesktopInvariant, TextInvariant
    <2> QED BY <2>1, <2>2 DEF StripInvariant
  <1>6. CASE StreamClosed \/ TimerFires
    BY <1>5, <1>6 DEF StreamClosed, TimerFires
  <1>7. ASSUME NEW o \in Outputs, NewOutput(o) \/ OutputDestroyed(o) PROVE StripInvariant'
    BY <1>2, <1>7 DEF NewOutput, OutputDestroyed
  <1>8. ASSUME NEW l \in Layers, Closed(l) PROVE StripInvariant'
    BY <1>2, <1>5, <1>8 DEF Closed
  <1>9. ASSUME NEW l \in Layers, Configure(l) PROVE StripInvariant'
    <2>1. UNCHANGED <<desktop, channel, map, session>>
      BY <1>9 DEF Configure
    <2>2. lastContent' = lastContent \/ lastContent' \in ComputeContent(map)
      BY <1>9 DEF Configure
    <2> QED BY <1>2, <2>1, <2>2
  <1>10. CASE StreamEnds \/ SurfaceEnds
    BY <1>2, <1>10 DEF StreamEnds, SurfaceEnds, drawn
  <1>11. CASE StreamOpens
    <2> DEFINE ws == [w \in Windows |-> IF w \in open THEN title[w] ELSE Absent]
               e == [ev |-> "snapshot", focus |-> focus, windows |-> ws]
    <2>1. /\ stream' = <<e>> /\ map' = map /\ lastContent' = lastContent
          /\ open' = open /\ focus' = focus /\ title' = title
      BY <1>11 DEF StreamOpens, desktop, drawn
    <2>2. e \in Lines
      BY DEF Typed, TypeOK, Lines, Snapshots
    <2>3. e.ev = "snapshot" /\ e.focus = focus /\ e.windows = ws
      OBVIOUS
    <2>4. Desk' = [windows |-> ws, focus |-> focus] /\ DesktopInvariant'
      BY <2>1 DEF Desk, StripInvariant, DesktopInvariant
    <2> HIDE DEF e, ws
    <2>5. After(map, e) = [windows |-> ws, focus |-> focus]
      BY <2>3, ApplyCases DEF After
    <2>6. Leads(map, <<>>, map) /\ <<>> \in Seq(Lines) /\ stream' = Append(<<>>, e)
      BY <2>1, LeadsNowhere
    <2>7. Leads(map, stream', Desk')
      <3>1. Leads(map, Append(<<>>, e), After(map, e))
        BY <2>2, <2>6, LeadsOn
      <3> QED BY <2>4, <2>5, <2>6, <3>1
    <2>8. stream' # <<>> /\ Head(stream').ev = "snapshot"
      BY <2>1, <2>3
    <2>9. TextInvariant'
      BY <2>1, <2>8 DEF StripInvariant, TextInvariant, ComputeContent
    <2> QED BY <2>1, <2>4, <2>7, <2>9 DEF StripInvariant
  <1>12. CASE OtherLine
    <2>1. PICK ev \in {"other", "refused"} : stream' = Append(stream, [ev |-> ev])
      BY <1>12 DEF OtherLine
    <2> DEFINE e == [ev |-> ev]
    <2>2. /\ e \in Lines /\ e.ev \in {"other", "refused"} /\ stream' = Append(stream, e)
      BY <2>1 DEF Lines, Others
    <2> HIDE DEF e
    <2>3. /\ stream = <<>> /\ source = "open" /\ session = "running"
          /\ map' = map /\ lastContent' = lastContent
          /\ open' = open /\ focus' = focus /\ title' = title
      BY <1>12 DEF OtherLine, desktop, drawn
    <2>4. Desk' = Desk /\ DesktopInvariant'
      BY <2>3 DEF Desk, StripInvariant, DesktopInvariant
    <2>5. After(Desk, e) = Desk
      BY <2>2, ApplyCases DEF After
    <2>6. Leads(map, stream', Desk)
      <3>1. Leads(map, stream, Desk)
        BY <2>3 DEF StripInvariant
      <3>2. Leads(map, Append(stream, e), After(Desk, e))
        BY <1>1, <2>2, <3>1, LeadsOn
      <3> QED BY <2>2, <2>5, <3>2
    <2>7. lastContent # Blank
      BY <2>3 DEF StripInvariant, TextInvariant
    <2>8. TextInvariant'
      BY <2>3, <2>7 DEF StripInvariant, TextInvariant, ComputeContent
    <2> QED BY <2>3, <2>4, <2>6, <2>8 DEF StripInvariant
  <1>13. CASE Desktop
    <2>1. session = "running" /\ source = "open" /\ map' = map /\ lastContent' = lastContent
      BY <1>13 DEF Desktop, drawn
    <2>2. Leads(map', stream', Desk') /\ DesktopInvariant'
      BY <1>13, <2>1, DesktopTells DEF StripInvariant
    <2>3. stream # <<>> => stream' # <<>> /\ Head(stream') = Head(stream)
      <3>1. \E lines : stream' = stream \o lines /\ lines \in Seq(Lines)
        BY <1>13, DesktopAppends
      <3> QED BY <1>1, <3>1
    <2>4. TextInvariant'
      BY <2>1, <2>3 DEF StripInvariant, TextInvariant, ComputeContent
    <2> QED BY <2>2, <2>4 DEF StripInvariant
  <1> QED BY <1>3, <1>4, <1>6, <1>7, <1>8, <1>9, <1>10, <1>11, <1>12, <1>13 DEF Next, Environment

\* Where no line about a window is refused, once every line has been taken the
\* text is true of the window that has the focus, whatever the windows are called
\* and whichever way the lines of a close come (niri.rs apply, strip.rs
\* strip_for, main.rs handle_niri_line).
THEOREM SettledStripTheorem ==
  ASSUME "refused" \notin Faults
  PROVE  Spec => []SettledStripIsTrue
  <1>1. Init => StripInvariant
    BY DEF Init, StripInvariant, DesktopInvariant, TextInvariant
  <1>2. Typed /\ StripInvariant /\ [Next]_vars => StripInvariant'
    BY NextStrip
  <1>3. Typed /\ StripInvariant => SettledStripIsTrue
    <2> SUFFICES ASSUME Typed, StripInvariant, Settled
                 PROVE  lastContent # Blank /\ TrueOf(lastContent, focus)
      BY DEF SettledStripIsTrue
    <2>1. session = "running" /\ source = "open" /\ stream = <<>>
      BY DEF Settled
    <2>2. map = Desk
      BY <2>1, LeadsNowhere DEF StripInvariant
    <2>3. lastContent # Blank /\ lastContent \in ComputeContent(Desk)
      BY <2>1, <2>2 DEF StripInvariant, TextInvariant
    <2> QED BY <2>3, StripIsTrue DEF StripInvariant
  <1> QED BY <1>1, <1>2, <1>3, TypedAlways, PTL DEF Spec
=============================================================================
