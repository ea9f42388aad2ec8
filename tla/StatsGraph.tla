----------------------------- MODULE StatsGraph -----------------------------
(***************************************************************************)
(* A statistics graph of the web application: Rickshaw_CreateDivGraph,     *)
(* Rickshaw_CreateGraph and Rickshaw_DestroyGraph of                       *)
(* Butler/webapp/advanced/ravenna/widget/Common.js and the parts of        *)
(* rickshaw.js they reach: Series.FixedDuration, Graph with the line       *)
(* renderer, Axis.X, Axis.Y and HoverDetail with the render method of      *)
(* Common.js.  The widgets call series.addData and graph.render in the     *)
(* handler of a status message, with names the series was not created      *)
(* with ("Port 1: Min Time" where "Interface 1: Min Time" was given).      *)
(*                                                                         *)
(* JavaScript runs one handler at a time, so a handler is one action, and  *)
(* the methods it calls are functions from a graph to a graph.  Time is    *)
(* counted in intervals from the creation of the graph; a mouse position   *)
(* is an integer from 0 to Width, the width of the chart in the unit of    *)
(* mouse positions.  Arithmetic is exact, where the code rounds to         *)
(* doubles.  Layout (sizes, berths, styles) is left out.                   *)
(***************************************************************************)
EXTENDS Integers, FiniteSets, SequencesExt, FiniteSetsExt

CONSTANTS
  SeriesInfo,     \* sequence of the names the graph is created with
  Late,           \* names that only status messages mention
  Values,         \* values of a status message, which may lie outside the chart
  MaxDataPoints,  \* maxDataPoints, 100 in the code
  ValueMin,       \* value_min, -2000 in the code
  ValueMax,       \* value_max, 2000 in the code
  Width,          \* of the chart, in mouse positions
  MaxIndex        \* bound: currentIndex

ASSUME SeriesAssumption ==
  /\ SeriesInfo \in Seq(STRING) /\ SeriesInfo # <<>>
  /\ Late \in SUBSET STRING /\ IsFiniteSet(Late) /\ Range(SeriesInfo) \cap Late = {}
ASSUME PointsAssumption == MaxDataPoints \in Nat /\ MaxDataPoints >= 4
ASSUME ValuesAssumption ==
  ValueMin \in Int /\ ValueMin < 0 /\ ValueMax \in Nat \ {0} /\ Values \subseteq Int
ASSUME WidthAssumption == Width \in Nat \ {0} /\ MaxIndex \in Nat

Names == Range(SeriesInfo) \cup Late
NONE == [target |-> "none", pos |-> 0]
\* The event Rickshaw_CreateGraph makes up has no clientX: its position is NaN.
NaN == -1
FakeEvent == [target |-> "drawing", pos |-> NaN]
\* Elements of the chart: drawing is path, svg, rect or circle, other e.g. a tick text.
Events == [target : {"drawing", "other"}, pos : 0..Width]

VARIABLES
  Graph,    \* the object the functions of Common.js fill in; see NoGraph
  phase     \* "none", "live", or "failed": validateSeries threw

vars == <<Graph, phase>>

NoGraph ==
  [items |-> <<>>,          \* graph.series: sequence of [name, color, data]
   currentSize |-> 0, currentIndex |-> 0, timeBase |-> 0,
   runningIndex |-> 0,      \* of the palette
   config |-> <<>>,         \* min and max of the graph, settings of the renderer
   stackedData |-> <<>>,
   scale |-> <<>>,          \* domains of graph.x and graph.y
   vis |-> <<>>,            \* what the svg shows: paths and grids
   callbacks |-> <<>>,      \* updateCallbacks
   lastEvent |-> NONE, visible |-> FALSE,
   dots |-> <<>>,           \* children of the hover element
   legend |-> [xs |-> {}, lines |-> <<>>]]

Point(x, y) == [x |-> x, y |-> y]

-----------------------------------------------------------------------------
(***************************************************************************)
(* Rickshaw.Series and Rickshaw.Series.FixedDuration                       *)
(***************************************************************************)
\* Names of the data that itemByName does not find.
NewNames(g, d) == {name \in DOMAIN d : \A i \in DOMAIN g.items : g.items[i].name # name}

\* Palette.color: colours that were not given are the next ones of the scheme, which
\* interpolateColor lengthens.
paletteColor(g, color, k) == IF color = "given" THEN color ELSE g.runningIndex + k - 1

\* addItem for each of some names, with the data each starts with.
Extend(g, names, color, data) ==
  [g EXCEPT !.items = @ \o [k \in DOMAIN names |->
                              [name |-> names[k], color |-> paletteColor(g, color, k),
                               data |-> data]],
            !.runningIndex = IF color = "given" THEN @ ELSE @ + Len(names)]

\* Mutant: an item that comes late starts empty.
addItems_NoBackfill(g, names, color) == Extend(g, names, color, <<>>)

\* FixedDuration.getIndex
getIndex(g) == g.currentIndex

\* An item without data is filled with zeroes at the times of the first item, or, when
\* there is none or nothing was counted yet, starts with one point.  What one item starts
\* with is what the next one of the same call does.
addItems(g, names, color) ==
  Extend(g, names, color,
         IF g.items # <<>> /\ getIndex(g) > 0
         THEN [k \in DOMAIN g.items[1].data |-> Point(g.items[1].data[k].x, 0)]
         ELSE <<Point(g.timeBase - 1, 0)>>)

\* The series with other points for each item.
withData(g, data) == [i \in DOMAIN g.items |-> [g.items[i] EXCEPT !.data = data[i]]]

\* Series.addData: names that are new become items; then every item gets a point, zero
\* where the data has no value.
SeriesAddData(g, d, new) ==
  LET full  == addItems(g, new, "none")
      y(name) == IF name \in DOMAIN d THEN d[name] ELSE 0
      at    == getIndex(g) + g.timeBase
      data  == [i \in DOMAIN full.items |->
                  Append(full.items[i].data, Point(at, y(full.items[i].name)))]
  IN [full EXCEPT !.items = withData(full, data)]

\* dropData, n times: the n oldest points of every item go.
dropData(g, n) ==
  LET data == [i \in DOMAIN g.items |->
                 SubSeq(g.items[i].data, n + 1, Len(g.items[i].data))]
  IN [g EXCEPT !.items = withData(g, data), !.currentSize = @ - n]

\* Mutant: the window is trimmed before it is full.
addData_TrimsEarly(g, d, new) ==
  LET h == [SeriesAddData(g, d, new) EXCEPT !.currentSize = @ + 1, !.currentIndex = @ + 1]
  IN dropData(h, IF h.currentSize >= MaxDataPoints THEN h.currentSize - MaxDataPoints + 1 ELSE 0)

\* FixedDuration.addData
addData(g, d, new) ==
  LET h == [SeriesAddData(g, d, new) EXCEPT !.currentSize = @ + 1, !.currentIndex = @ + 1]
  IN dropData(h, IF h.currentSize > MaxDataPoints THEN h.currentSize - MaxDataPoints ELSE 0)

\* Mutant: the loop goes down to 1, whose offset is 0 and becomes 1.
ZeroFill_ToOne(g) ==
  LET fill == [k \in 1..(MaxDataPoints - g.currentSize - 1) |->
                 Point((IF k = 1 THEN 1 ELSE k - 1) + g.timeBase, 0)]
  IN [g EXCEPT !.items = withData(g, [i \in DOMAIN @ |-> fill \o @[i].data]),
               !.currentSize = @ + Len(fill), !.currentIndex = @ + Len(fill)]

\* FixedDuration.initialize: for i = maxDataPoints - currentSize - 1 down to 2, a zero
\* goes to the front of every item.
ZeroFill(g) ==
  LET fill == [k \in 1..(MaxDataPoints - g.currentSize - 2) |-> Point(k + g.timeBase, 0)]
  IN [g EXCEPT !.items = withData(g, [i \in DOMAIN @ |-> fill \o @[i].data]),
               !.currentSize = @ + Len(fill), !.currentIndex = @ + Len(fill)]

FixedDuration ==
  LET given == addItems(NoGraph, SeriesInfo, "given")
      one   == [given EXCEPT !.currentSize = @ + 1, !.currentIndex = @ + 1]
  IN ZeroFill([one EXCEPT !.timeBase = @ - (MaxDataPoints - one.currentSize)])

-----------------------------------------------------------------------------
(***************************************************************************)
(* Rickshaw.Graph and the line renderer                                    *)
(***************************************************************************)
\* What makes validateSeries throw: a probe of the order of the times.
Unsorted(data) ==
  /\ Len(data) >= 3
  /\ \/ data[3].x < data[2].x
     \/ data[2].x < data[1].x
     \/ Last(data).x < data[1].x

validateSeries(items) == \A i \in DOMAIN items : ~Unsorted(items[i].data)

\* Renderer.defaults; the padding in hundredths of the range.
RendererDefaults == [unstack |-> TRUE, stroke |-> FALSE, padding |-> 1]

\* Renderer.Line.defaults
LineDefaults == [RendererDefaults EXCEPT !.stroke = TRUE]

\* Renderer.configure: a setting that args does not have keeps its default.
rendererConfigure(defaults, args) ==
  [key \in DOMAIN defaults |-> IF key \in DOMAIN args THEN args[key] ELSE defaults[key]]

\* Graph.configure and setRenderer, with the only renderer the application names.
configure(g, args) ==
  [g EXCEPT !.config = [min |-> args.min, max |-> args.max,
                        renderer |-> rendererConfigure(LineDefaults, args)]]

\* Nothing sets graph.window, a scale or disabled, and the line renderer does not
\* stack: all points of all series.
stackData(g) == [g EXCEPT !.stackedData = [i \in DOMAIN g.items |-> g.items[i].data]]

\* Renderer.domain: from the first to the last time; min and max are configured, and a
\* negative min is lowered by the padding. In hundredths.
domain(g, stacked) ==
  LET c == g.config
  IN [x |-> <<Min({stacked[i][1].x : i \in DOMAIN stacked}),
              Max({Last(stacked[i]).x : i \in DOMAIN stacked})>>,
      y |-> <<100 * c.min - (IF c.min < 0 THEN c.renderer.padding * (c.max - c.min) ELSE 0),
              100 * c.max>>]

discoverRange(g) == [g EXCEPT !.scale = domain(g, g.stackedData)]

\* Renderer.Line.seriesPathFactory: the points of a series in the scale of the moment.
seriesPathFactory(g, data) == [points |-> data, scale |-> g.scale]

\* Renderer._styleSeries: the line renderer strokes a path in the colour of its series.
styleSeries(g, path, color) ==
  [points |-> path.points, scale |-> path.scale,
   stroke |-> IF g.config.renderer.stroke THEN color ELSE "none"]

\* Renderer.render: removes everything and draws a path per series. (The second path, for
\* the stroke, gets no shape from this renderer.)
rendererRender(g) ==
  [g EXCEPT !.vis =
     [paths |-> [i \in DOMAIN g.items |->
                   styleSeries(g, seriesPathFactory(g, g.stackedData[i]), g.items[i].color)],
      xGrid |-> <<>>, yGrid |-> <<>>]]

onUpdate(g, callback) == [g EXCEPT !.callbacks = Append(@, callback)]

\* Graph.initialize, when validateSeries accepts the series: discoverRange finds no
\* stackedData and calls stackData.
graphInitialize(g, args) == discoverRange(stackData(configure(g, args)))

xAxisInitialize(g) == onUpdate(g, "xAxis")
yAxisInitialize(g) == onUpdate(g, "yAxis")

\* Axis.X.render and Axis.Y.render: clear their own svg, append a grid to the graph's.
xAxisRender(g) == [g EXCEPT !.vis.xGrid = Append(@, g.scale.x)]
yAxisRender(g) == [g EXCEPT !.vis.yGrid = Append(@, g.scale.y)]

-----------------------------------------------------------------------------
(***************************************************************************)
(* HoverDetail                                                             *)
(***************************************************************************)
\* graph.x.invert(pos), times Width.
DomainX(g, pos) == g.scale.x[1] * Width + (g.scale.x[2] - g.scale.x[1]) * pos

\* The index, from 0, of the point under the mouse: a guess from the position, then a
\* walk to the interval that holds the mouse. With NaN every comparison is false.
HoverIndex(data, dX, pos) ==
  LET n  == Len(data)
      x(i) == data[i + 1].x * Width
      round  == (2 * pos * (n - 1) + Width) \div (2 * Width)
      approx == IF round = n - 1 THEN round - 1 ELSE round
      start  == Min({approx, n - 1})
      walk[i \in -1..n] ==
        CASE i < 0 \/ i >= n - 1 -> start
          [] i \in 0..(n - 2) /\ x(i) <= dX /\ x(i + 1) > dX ->
               IF dX - x(i) < x(i + 1) - dX THEN i ELSE i + 1
          [] OTHER -> walk[IF x(i + 1) <= dX THEN i + 1 ELSE i - 1]
  IN IF pos = NaN THEN 0 ELSE Max({0, walk[approx]})

\* The points of one update, in the order of the series.
HoverPoints(g, pos) ==
  [i \in DOMAIN g.items |->
     LET data == g.stackedData[i]
     IN data[HoverIndex(data, DomainX(g, pos), pos) + 1]]

show(g) == [g EXCEPT !.visible = TRUE]
hide(g) == [g EXCEPT !.visible = FALSE]

\* HoverDetail.initialize and _addListeners; the detail is visible at first.
hoverInitialize(g) == onUpdate([show(g) EXCEPT !.lastEvent = NONE], "hover")

\* render of Common.js: the legend shows the time of the nearest point, which may be any
\* of them, and a line and a dot for each.
hoverRender(g, points) ==
  show([g EXCEPT !.legend = [xs |-> {points[i].x : i \in DOMAIN points},
                             lines |-> [i \in DOMAIN points |->
                                          <<g.items[i].name, points[i].y>>]],
                 !.dots = points])

\* Mutant: an update without an event does nothing.
hoverUpdate_EventOnly(g, event) ==
  IF event = NONE \/ event.target # "drawing" THEN g
  ELSE hoverRender([g EXCEPT !.lastEvent = event], HoverPoints(g, event.pos))

\* HoverDetail.update; without an event, with the last one.
hoverUpdate(g, event) ==
  LET e == IF event = NONE THEN g.lastEvent ELSE event
      h == [g EXCEPT !.lastEvent = e]
  IN CASE e = NONE -> g
       [] e # NONE /\ e.target # "drawing" -> h
       [] OTHER -> LET clear == [h EXCEPT !.dots = <<>>]
                   IN IF h.visible THEN hoverRender(clear, HoverPoints(h, e.pos)) ELSE clear

Callback(g, name) ==
  CASE name = "xAxis" -> xAxisRender(g)
    [] name = "yAxis" -> yAxisRender(g)
    [] name = "hover" -> hoverUpdate(g, NONE)

\* The callbacks are called in the order of their registration.
UpdateAll(g) ==
  LET called[n \in 0..Len(g.callbacks)] ==
        IF n = 0 THEN g ELSE Callback(called[n - 1], g.callbacks[n])
  IN called[Len(g.callbacks)]

\* Mutant: the range is that of the former data.
render_RangeFirst(g) == UpdateAll(rendererRender(stackData(discoverRange(g))))

\* Graph.render
render(g) == UpdateAll(rendererRender(discoverRange(stackData(g))))

-----------------------------------------------------------------------------
Init == Graph = NoGraph /\ phase = "none"

\* Rickshaw_CreateDivGraph and Rickshaw_CreateGraph, from a widget's startup.
Rickshaw_CreateGraph ==
  /\ phase = "none"
  /\ LET given == FixedDuration
         graph == graphInitialize(given, [min |-> ValueMin, max |-> ValueMax])
         axes  == yAxisInitialize(xAxisInitialize(graph))
     IN IF validateSeries(given.items)
        THEN Graph' = hoverUpdate(render(hoverInitialize(axes)), FakeEvent) /\ phase' = "live"
        ELSE Graph' = given /\ phase' = "failed"

\* A status message: the widget passes on a value for some names. The keys of an object
\* are enumerated in the order of their insertion, which gives the new names an order.
OnStatus(d, new) ==
  /\ phase = "live" /\ Graph.currentIndex < MaxIndex
  /\ Graph' = render(addData(Graph, d, new))
  /\ UNCHANGED phase

\* mousemoveListener
MouseMove(e) ==
  /\ phase = "live"
  /\ Graph' = hoverUpdate(show(Graph), e)
  /\ UNCHANGED phase

\* mouseoutListener, for a pointer that left the chart: hide.
MouseOut ==
  /\ phase = "live"
  /\ Graph' = hide(Graph)
  /\ UNCHANGED phase

\* Rickshaw_DestroyGraph, after the widget has removed its elements.
Rickshaw_DestroyGraph ==
  /\ phase = "live"
  /\ Graph' = NoGraph /\ phase' = "none"

Next ==
  \/ Rickshaw_CreateGraph
  \/ \E N \in SUBSET Names \ {{}} : \E d \in [N -> Values] :
       \E new \in SetToSeqs(NewNames(Graph, d)) : OnStatus(d, new)
  \/ \E e \in Events : MouseMove(e)
  \/ MouseOut
  \/ Rickshaw_DestroyGraph

Spec == Init /\ [][Next]_vars

-----------------------------------------------------------------------------
(***************************************************************************)
(* Properties                                                              *)
(***************************************************************************)
\* Every item of the series has as many points as FixedDuration counted, never more than
\* maxDataPoints, whether it was there from the start or came with a status message.
SizeIsLength ==
  phase = "live" =>
    /\ Graph.currentSize \in (MaxDataPoints - 2)..MaxDataPoints
    /\ \A i \in DOMAIN Graph.items : Len(Graph.items[i].data) = Graph.currentSize

\* All items have their points at the same times, validateSeries would accept them at
\* any time, and from point to point one interval passes; only the first measured point
\* lies at the time of the last one that was filled in (index maxDataPoints - 2).
TimesEven ==
  /\ phase # "failed"
  /\ \A i \in DOMAIN Graph.items :
       LET data == Graph.items[i].data
       IN /\ validateSeries(Graph.items)
          /\ \A k \in DOMAIN data : data[k].x = Graph.items[1].data[k].x
          /\ \A k \in 1..(Len(data) - 1) :
               data[k + 1].x - data[k].x = IF data[k + 1].x = -1 /\ data[k].x = -1 THEN 0 ELSE 1

\* What the svg shows after a handler is the current data in the current scale, a path
\* per series in its colour and one grid per axis. Of the points, those whose value is in
\* the configured range lie inside the chart, and so do the zeroes that fill the gaps of a
\* series; the range does not widen for other values, which addData accepts as well.
DrawnIsCurrent ==
  phase = "live" =>
    LET data == [i \in DOMAIN Graph.items |-> Graph.items[i].data]
        now  == domain(Graph, data)
    IN /\ Graph.vis = [paths |-> [i \in DOMAIN data |-> [points |-> data[i], scale |-> now,
                                                        stroke |-> Graph.items[i].color]],
                       xGrid |-> <<now.x>>, yGrid |-> <<now.y>>]
       /\ \A i \in DOMAIN data : \A k \in DOMAIN data[i] :
            data[i][k].y \in ValueMin..ValueMax =>
              now.y[1] <= 100 * data[i][k].y /\ 100 * data[i][k].y <= now.y[2]

\* While the hover detail is visible and the last event hit the drawing, legend and dots
\* show for every series, those that came late included, the point of the current data
\* that is nearest to the mouse (at the right edge the one before the last, and the
\* oldest before the mouse has moved at all).
Distance(g, x, pos) == LET d == x * Width - DomainX(g, pos) IN IF d < 0 THEN -d ELSE d

LegendIsCurrent ==
  (phase = "live" /\ Graph.visible /\ Graph.lastEvent.target = "drawing") =>
    LET pos == Graph.lastEvent.pos
        shows(i) == Graph.dots[i]
    IN /\ Len(Graph.dots) = Len(Graph.items)
       /\ Graph.legend.lines = [i \in DOMAIN Graph.items |-> <<Graph.items[i].name, shows(i).y>>]
       /\ Graph.legend.xs = {shows(1).x}
       /\ \A i \in DOMAIN Graph.items :
            LET data == Graph.items[i].data
                n    == Len(data)
            IN CASE pos = NaN   -> shows(i) = data[1]
                 [] pos = Width -> shows(i) = data[n - 1]
                 [] OTHER       ->
                      /\ shows(i) \in Range(data)
                      /\ \A k \in DOMAIN data :
                           Distance(Graph, shows(i).x, pos) <= Distance(Graph, data[k].x, pos)

\* A status message adds one point to every item and lets at most the oldest go; an item
\* that comes with it has only zeroes before. Nothing else changes the data.
SlidingWindow ==
  [][phase = "live" /\ phase' = "live" /\ Graph'.items # Graph.items =>
       \A i \in DOMAIN Graph'.items :
         LET new == Graph'.items[i].data
         IN IF i \in DOMAIN Graph.items
            THEN LET old == Graph.items[i].data
                 IN Front(new) = IF Len(old) = MaxDataPoints THEN Tail(old) ELSE old
            ELSE \A k \in 1..(Len(new) - 1) : new[k].y = 0]_vars
=============================================================================
