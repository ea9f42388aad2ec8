-------------------------- MODULE StatsGraphProofs --------------------------
(***************************************************************************)
(* Proofs about StatsGraph: for any names, integer values and numbers of   *)
(* points, and without a bound on the number of status messages.           *)
(***************************************************************************)
EXTENDS StatsGraph, FiniteSetTheorems, SequenceTheorems, WellFoundedInduction, TLAPS

-----------------------------------------------------------------------------
(* The inductive invariant                                                 *)

Fields == {"items", "currentSize", "currentIndex", "timeBase", "runningIndex", "config",
           "stackedData", "scale", "vis", "callbacks", "lastEvent", "visible", "dots",
           "legend"}

Points == [x : Int, y : Int]
Items == [name : STRING, color : Nat \cup {"given"}, data : Seq(Points)]

\* The time of the n-th point since the creation of the graph, those that were filled in
\* included: -1 comes twice.
Time(n) == IF n <= MaxDataPoints - 2 THEN n - MaxDataPoints + 1 ELSE n - MaxDataPoints

\* All series are level and have the last points that were counted.
SeriesInv(g) ==
  /\ g.items \in Seq(Items) /\ g.items # <<>>
  /\ g.currentSize \in (MaxDataPoints - 2)..MaxDataPoints
  /\ g.currentIndex \in Nat /\ g.currentIndex >= g.currentSize
  /\ g.timeBase = 1 - MaxDataPoints /\ g.runningIndex \in Nat
  /\ \A i \in 1..Len(g.items) :
       /\ Len(g.items[i].data) = g.currentSize
       /\ \A k \in 1..g.currentSize :
            g.items[i].data[k].x = Time(g.currentIndex - g.currentSize + k)

\* The settings of the graph are those of Rickshaw_CreateGraph.
ConfigInv(g) ==
  /\ g.callbacks = <<"xAxis", "yAxis", "hover">>
  /\ g.config = [min |-> ValueMin, max |-> ValueMax, renderer |-> LineDefaults]

\* What is drawn is what the items say.
DrawnInv(g) ==
  /\ g.stackedData = [i \in DOMAIN g.items |-> g.items[i].data]
  /\ g.scale = domain(g, g.stackedData)
  /\ g.vis = [paths |-> [i \in DOMAIN g.items |->
                           [points |-> g.stackedData[i], scale |-> g.scale,
                            stroke |-> g.items[i].color]],
              xGrid |-> <<g.scale.x>>, yGrid |-> <<g.scale.y>>]

\* The last event is one of the mouse, or the one made up at the start, or none.
MouseEvents == Events \cup {NONE, FakeEvent}
HoverTyped(g) == g.visible \in BOOLEAN /\ g.lastEvent \in MouseEvents

\* A visible detail of an event that hit the drawing shows what HoverPoints finds now.
HoverInv(g) ==
  /\ HoverTyped(g)
  /\ g.visible /\ g.lastEvent.target = "drawing" =>
       /\ g.dots = HoverPoints(g, g.lastEvent.pos)
       /\ g.legend = [xs |-> {g.dots[i].x : i \in DOMAIN g.dots},
                      lines |-> [i \in DOMAIN g.dots |-> <<g.items[i].name, g.dots[i].y>>]]

GraphInv ==
  \/ phase = "none" /\ Graph = NoGraph
  \/ /\ phase = "live" /\ DOMAIN Graph = Fields
     /\ SeriesInv(Graph) /\ ConfigInv(Graph) /\ DrawnInv(Graph) /\ HoverInv(Graph)

-----------------------------------------------------------------------------
(* Drawing                                                                 *)

\* The three callbacks in turn.
LEMMA UpdateAllFacts ==
  ASSUME NEW g, g.callbacks = <<"xAxis", "yAxis", "hover">>
  PROVE  UpdateAll(g) = hoverUpdate(yAxisRender(xAxisRender(g)), NONE)
<1> DEFINE body(c) == [n \in 0..Len(g.callbacks) |->
                        IF n = 0 THEN g ELSE Callback(c[n - 1], g.callbacks[n])]
           called == CHOOSE c : c = body(c)
           f == [n \in 0..3 |-> IF n = 0 THEN g
                                ELSE IF n = 1 THEN xAxisRender(g)
                                ELSE IF n = 2 THEN yAxisRender(xAxisRender(g))
                                ELSE hoverUpdate(yAxisRender(xAxisRender(g)), NONE)]
<1>1. /\ Len(g.callbacks) = 3 /\ g.callbacks[1] = "xAxis" /\ g.callbacks[2] = "yAxis"
      /\ g.callbacks[3] = "hover"
  OBVIOUS
<1>2. \A h : /\ Callback(h, "xAxis") = xAxisRender(h) /\ Callback(h, "yAxis") = yAxisRender(h)
             /\ Callback(h, "hover") = hoverUpdate(h, NONE)
  BY DEF Callback
<1>3. f = body(f)
  <2>1. ASSUME NEW n \in 0..3
        PROVE  f[n] = IF n = 0 THEN g ELSE Callback(f[n - 1], g.callbacks[n])
    <3>1. CASE n = 0
      BY <3>1
    <3>2. CASE n = 1
      BY <1>1, <1>2, <3>2
    <3>3. CASE n = 2
      BY <1>1, <1>2, <3>3
    <3>4. CASE n = 3
      BY <1>1, <1>2, <3>4
    <3>5. QED
      BY <3>1, <3>2, <3>3, <3>4
  <2>2. QED
    BY <1>1, <2>1
<1>4. called = body(called)
  <2> HIDE DEF body, f
  <2>1. QED
    BY <1>3
<1>5. UpdateAll(g) = called[3]
  BY <1>1 DEF UpdateAll
<1>6. /\ called[0] = g
      /\ called[1] = Callback(called[0], g.callbacks[1])
      /\ called[2] = Callback(called[1], g.callbacks[2])
      /\ called[3] = Callback(called[2], g.callbacks[3])
  <2> HIDE DEF called
  <2>1. QED
    BY <1>1, <1>4
<1> HIDE DEF called, f
<1>7. called[1] = xAxisRender(g) /\ called[2] = yAxisRender(called[1])
      /\ called[3] = hoverUpdate(called[2], NONE)
  BY <1>1, <1>2, <1>6
<1>8. QED
  BY <1>5, <1>7

\* The fields of a graph, by the part of Rickshaw that sets them.
SameSeries(h, g) ==
  /\ h.items = g.items /\ h.currentSize = g.currentSize /\ h.currentIndex = g.currentIndex
  /\ h.timeBase = g.timeBase /\ h.runningIndex = g.runningIndex

SameConfig(h, g) ==
  h.config = g.config /\ h.callbacks = g.callbacks

SameHover(h, g) == h.visible = g.visible /\ h.lastEvent = g.lastEvent

SameDrawn(h, g) == h.stackedData = g.stackedData /\ h.scale = g.scale /\ h.vis = g.vis

\* The hover detail changes nothing but itself.
LEMMA HoverFacts ==
  ASSUME NEW g, DOMAIN g = Fields, NEW event
  PROVE  LET h == hoverUpdate(g, event)
         IN DOMAIN h = Fields /\ SameSeries(h, g) /\ SameConfig(h, g) /\ SameDrawn(h, g)
<1> SUFFICES ASSUME NEW h, h = hoverUpdate(g, event)
             PROVE  DOMAIN h = Fields /\ SameSeries(h, g) /\ SameConfig(h, g) /\ SameDrawn(h, g)
  OBVIOUS
<1> DEFINE moved(e) == [g EXCEPT !.lastEvent = e]
           clear(e) == [moved(e) EXCEPT !.dots = <<>>]
<1>1. \/ h = g
      \/ \E e : h = moved(e)
      \/ \E e : h = clear(e)
      \/ \E e, p : h = hoverRender(clear(e), p)
  <2> DEFINE e == IF event = NONE THEN g.lastEvent ELSE event
  <2>1. CASE e = NONE
    BY <2>1 DEF hoverUpdate
  <2>2. CASE e # NONE /\ e.target # "drawing"
    BY <2>2 DEF hoverUpdate
  <2>3. CASE e # NONE /\ e.target = "drawing"
    <3>1. h = IF moved(e).visible THEN hoverRender(clear(e), HoverPoints(moved(e), e.pos)) ELSE clear(e)
      BY <2>3 DEF hoverUpdate
    <3> HIDE DEF moved, clear, e
    <3>2. h = clear(e) \/ h = hoverRender(clear(e), HoverPoints(moved(e), e.pos))
      BY <3>1
    <3>3. QED
      BY <3>2, Zenon
  <2>4. QED
    BY <2>1, <2>2, <2>3
<1>2. ASSUME NEW e
      PROVE  /\ DOMAIN moved(e) = Fields /\ SameSeries(moved(e), g) /\ SameConfig(moved(e), g)
             /\ SameDrawn(moved(e), g)
  BY DEF Fields, SameSeries, SameConfig, SameDrawn
<1>3. ASSUME NEW e
      PROVE  /\ DOMAIN clear(e) = Fields /\ SameSeries(clear(e), g) /\ SameConfig(clear(e), g)
             /\ SameDrawn(clear(e), g)
  BY DEF Fields, SameSeries, SameConfig, SameDrawn
<1>4. ASSUME NEW c, NEW p, DOMAIN c = Fields
      PROVE  LET r == hoverRender(c, p)
             IN DOMAIN r = Fields /\ SameSeries(r, c) /\ SameConfig(r, c) /\ SameDrawn(r, c)
  <2>1. ASSUME NEW a, NEW b
        PROVE  LET r == [[c EXCEPT !.legend = a, !.dots = b] EXCEPT !.visible = TRUE]
               IN DOMAIN r = Fields /\ SameSeries(r, c) /\ SameConfig(r, c) /\ SameDrawn(r, c)
    BY <1>4 DEF Fields, SameSeries, SameConfig, SameDrawn
  <2>2. QED
    BY <2>1 DEF hoverRender, show
<1> HIDE DEF moved, clear
<1>5. CASE \E e, p : h = hoverRender(clear(e), p)
  BY <1>3, <1>4, <1>5 DEF SameSeries, SameConfig, SameDrawn
<1>6. CASE h = g
  BY <1>6 DEF SameSeries, SameConfig, SameDrawn
<1>7. QED
  BY <1>1, <1>2, <1>3, <1>5, <1>6, Zenon

\* What HoverPoints finds depends on the series and the scale only.
LEMMA HoverPointsSame ==
  ASSUME NEW g, NEW h, h.items = g.items, h.stackedData = g.stackedData, h.scale = g.scale,
         NEW pos
  PROVE  HoverPoints(h, pos) = HoverPoints(g, pos)
BY Zenon DEF HoverPoints, DomainX

\* After an update the detail shows the current points, whatever it showed before.
LEMMA HoverShown ==
  ASSUME NEW g, DOMAIN g = Fields, HoverTyped(g), NEW event \in MouseEvents
  PROVE  HoverInv(hoverUpdate(g, event))
<1> SUFFICES ASSUME NEW h, h = hoverUpdate(g, event)
             PROVE  HoverInv(h)
  OBVIOUS
<1>1. PICK e : e = IF event = NONE THEN g.lastEvent ELSE event
  OBVIOUS
<1>2. e \in MouseEvents /\ g.visible \in BOOLEAN
  BY <1>1 DEF HoverTyped
<1> DEFINE moved == [g EXCEPT !.lastEvent = e]
           clear == [moved EXCEPT !.dots = <<>>]
<1>3. CASE e = NONE
  <2>1. h = g
    BY <1>1, <1>3 DEF hoverUpdate
  <2>2. g.lastEvent = NONE
    BY <1>1, <1>3
  <2>3. NONE.target # "drawing"
    BY DEF NONE
  <2>4. QED
    BY <2>1, <2>2, <2>3 DEF HoverInv
<1>4. CASE e # NONE /\ e.target # "drawing"
  <2>1. h = moved
    BY <1>1, <1>4 DEF hoverUpdate
  <2>2. h.lastEvent = e /\ h.visible = g.visible
    BY <2>1 DEF Fields
  <2>3. QED
    BY <1>2, <1>4, <2>2 DEF HoverInv, HoverTyped
<1>5. CASE e # NONE /\ e.target = "drawing"
  <2>1. h = IF moved.visible THEN hoverRender(clear, HoverPoints(moved, e.pos)) ELSE clear
    BY <1>1, <1>5 DEF hoverUpdate
  <2>2. /\ moved.visible = g.visible /\ clear.visible = g.visible /\ clear.lastEvent = e
        /\ DOMAIN clear = Fields
        /\ clear.items = moved.items /\ clear.stackedData = moved.stackedData
        /\ clear.scale = moved.scale
    BY DEF Fields
  <2> HIDE DEF moved, clear
  <2>3. CASE ~g.visible
    <3>1. h = clear
      BY <2>1, <2>2, <2>3
    <3>2. QED
      BY <1>2, <2>2, <2>3, <3>1 DEF HoverInv, HoverTyped
  <2>4. CASE g.visible
    <3>1. PICK points : points = HoverPoints(moved, e.pos)
      OBVIOUS
    <3>2. PICK legend : legend = [xs |-> {points[i].x : i \in DOMAIN points},
                                  lines |-> [i \in DOMAIN points |->
                                               <<clear.items[i].name, points[i].y>>]]
      OBVIOUS
    <3>3. h = [[clear EXCEPT !.legend = legend, !.dots = points] EXCEPT !.visible = TRUE]
      <4>1. h = hoverRender(clear, points)
        BY <2>1, <2>2, <2>4, <3>1
      <4>2. QED
        BY <3>2, <4>1, Zenon DEF hoverRender, show
    <3>4. /\ h.visible = TRUE /\ h.lastEvent = e /\ h.dots = points /\ h.legend = legend
          /\ h.items = clear.items /\ h.stackedData = clear.stackedData /\ h.scale = clear.scale
      BY <2>2, <3>3 DEF Fields
    <3>5. HoverPoints(h, e.pos) = points
      <4>1. /\ h.items = moved.items /\ h.stackedData = moved.stackedData
            /\ h.scale = moved.scale
        BY <2>2, <3>4
      <4>2. QED
        BY <3>1, <4>1, HoverPointsSame
    <3>6. HoverTyped(h)
      BY <1>2, <3>4 DEF HoverTyped
    <3>7. h.dots = HoverPoints(h, h.lastEvent.pos)
      BY <3>4, <3>5
    <3>8. h.legend = [xs |-> {h.dots[i].x : i \in DOMAIN h.dots},
                      lines |-> [i \in DOMAIN h.dots |-> <<h.items[i].name, h.dots[i].y>>]]
      <4> DEFINE shown(p, items) == [xs |-> {p[i].x : i \in DOMAIN p},
                                     lines |-> [i \in DOMAIN p |-> <<items[i].name, p[i].y>>]]
      <4>1. legend = shown(points, clear.items)
        BY <3>2, Zenon
      <4>2. h.dots = points /\ h.items = clear.items /\ h.legend = legend
        BY <3>4
      <4> HIDE DEF shown
      <4>3. h.legend = shown(h.dots, h.items)
        BY <4>1, <4>2, Zenon
      <4>4. QED
        BY <4>3, Zenon DEF shown
    <3>9. QED
      BY <3>6, <3>7, <3>8, Zenon DEF HoverInv
  <2>5. QED
    BY <1>2, <2>3, <2>4
<1>6. QED
  BY <1>3, <1>4, <1>5

\* Graph.render draws the current data, whatever was drawn before.
LEMMA RenderFacts ==
  ASSUME NEW g, DOMAIN g = Fields, g.callbacks = <<"xAxis", "yAxis", "hover">>,
         g.config.renderer.stroke = TRUE, HoverTyped(g)
  PROVE  LET h == render(g)
         IN /\ DOMAIN h = Fields /\ SameSeries(h, g) /\ SameConfig(h, g)
            /\ DrawnInv(h) /\ HoverInv(h)
<1> DEFINE data == [i \in DOMAIN g.items |-> g.items[i].data]
           scale == domain(g, data)
           s == stackData(g)
           r == discoverRange(s)
           d == rendererRender(r)
           a == yAxisRender(xAxisRender(d))
           h == render(g)
           paths == [i \in DOMAIN g.items |-> [points |-> data[i], scale |-> scale,
                                               stroke |-> g.items[i].color]]
<1>1. /\ DOMAIN s = Fields /\ SameSeries(s, g) /\ SameConfig(s, g) /\ SameHover(s, g)
      /\ s.stackedData = data
  BY DEF stackData, Fields, SameSeries, SameConfig, SameHover
<1>2. domain(s, s.stackedData) = scale
  BY <1>1 DEF domain, SameConfig
<1>3. /\ DOMAIN r = Fields /\ SameSeries(r, g) /\ SameConfig(r, g) /\ SameHover(r, g)
      /\ r.stackedData = data /\ r.scale = scale
  <2> HIDE DEF s, scale, data
  <2>1. r = [s EXCEPT !.scale = scale]
    BY <1>2 DEF discoverRange
  <2>2. QED
    BY <1>1, <2>1 DEF Fields, SameSeries, SameConfig, SameHover
<1> HIDE DEF r, scale, s
<1>4. /\ DOMAIN d = Fields /\ SameSeries(d, g) /\ SameConfig(d, g) /\ SameHover(d, g)
      /\ d.stackedData = data /\ d.scale = scale
      /\ d.vis = [paths |-> paths, xGrid |-> <<>>, yGrid |-> <<>>]
  <2>1. \A i \in DOMAIN g.items :
          styleSeries(r, seriesPathFactory(r, r.stackedData[i]), r.items[i].color)
            = [points |-> data[i], scale |-> scale, stroke |-> g.items[i].color]
    BY <1>3 DEF styleSeries, seriesPathFactory, SameSeries, SameConfig
  <2>2. d = [r EXCEPT !.vis = [paths |-> paths, xGrid |-> <<>>, yGrid |-> <<>>]]
    <3>1. DOMAIN r.items = DOMAIN g.items
      BY <1>3 DEF SameSeries
    <3>2. [i \in DOMAIN r.items |->
             styleSeries(r, seriesPathFactory(r, r.stackedData[i]), r.items[i].color)] = paths
      BY <2>1, <3>1, Zenon
    <3> HIDE DEF paths
    <3>3. QED
      BY <3>2 DEF rendererRender
  <2> HIDE DEF d, paths, data
  <2>3. QED
    BY <1>3, <2>2 DEF Fields, SameSeries, SameConfig, SameHover
<1> HIDE DEF d, data, paths
<1>5. /\ DOMAIN a = Fields /\ SameSeries(a, g) /\ SameConfig(a, g) /\ SameHover(a, g)
      /\ a.stackedData = data /\ a.scale = scale
      /\ a.vis = [paths |-> paths, xGrid |-> <<scale.x>>, yGrid |-> <<scale.y>>]
  <2>1. xAxisRender(d) = [d EXCEPT !.vis = [paths |-> paths, xGrid |-> <<scale.x>>, yGrid |-> <<>>]]
    BY <1>4 DEF xAxisRender, Fields
  <2>2. PICK x : x = xAxisRender(d)
    OBVIOUS
  <2>3. /\ DOMAIN x = Fields /\ SameSeries(x, g) /\ SameConfig(x, g) /\ SameHover(x, g)
        /\ x.stackedData = data /\ x.scale = scale
        /\ x.vis = [paths |-> paths, xGrid |-> <<scale.x>>, yGrid |-> <<>>]
    BY <1>4, <2>1, <2>2 DEF Fields, SameSeries, SameConfig, SameHover
  <2>4. a = [x EXCEPT !.vis = [paths |-> paths, xGrid |-> <<scale.x>>, yGrid |-> <<scale.y>>]]
    BY <2>2, <2>3 DEF yAxisRender, Fields
  <2>5. QED
    BY <2>3, <2>4 DEF Fields, SameSeries, SameConfig, SameHover
<1>6. h = hoverUpdate(a, NONE)
  BY <1>4, UpdateAllFacts DEF render, d, r, s, SameConfig
<1> HIDE DEF a, h
<1>7. DOMAIN h = Fields /\ SameSeries(h, a) /\ SameConfig(h, a) /\ SameDrawn(h, a)
  BY <1>5, <1>6, HoverFacts
<1>8. SameSeries(h, g) /\ SameConfig(h, g)
  BY <1>5, <1>7 DEF SameSeries, SameConfig
<1>9. DrawnInv(h)
  <2>1. h.items = g.items /\ h.stackedData = data /\ h.scale = scale /\ h.config = g.config
    BY <1>5, <1>7, <1>8 DEF SameDrawn, SameSeries, SameConfig
  <2>2. h.scale = domain(h, h.stackedData)
    BY <2>1 DEF domain, scale
  <2>3. h.stackedData = [i \in DOMAIN h.items |-> h.items[i].data]
    BY <2>1 DEF data
  <2>4. h.vis = [paths |-> [i \in DOMAIN h.items |->
                              [points |-> h.stackedData[i], scale |-> h.scale,
                               stroke |-> h.items[i].color]],
                 xGrid |-> <<h.scale.x>>, yGrid |-> <<h.scale.y>>]
    BY <1>5, <1>7, <2>1 DEF SameDrawn, paths
  <2>5. QED
    BY <2>2, <2>3, <2>4 DEF DrawnInv
<1>10. HoverInv(h)
  <2>1. HoverTyped(a) /\ NONE \in MouseEvents
    BY <1>5 DEF SameHover, HoverTyped, MouseEvents
  <2>2. QED
    BY <1>5, <1>6, <2>1, HoverShown
<1>11. QED
  BY <1>7, <1>8, <1>9, <1>10 DEF h

-----------------------------------------------------------------------------
(* The series                                                              *)

\* A point is added at the end and the n oldest go, one or none.
Slide(q, p, n) == SubSeq(Append(q, p), n + 1, Len(Append(q, p)))

LEMMA SlideFacts ==
  ASSUME NEW q \in Seq(Points), NEW p \in Points, NEW n \in {0, 1}, Len(q) >= 1
  PROVE  LET w == Slide(q, p, n)
         IN /\ w \in Seq(Points) /\ Len(w) = Len(q) + 1 - n
            /\ \A k \in 1..(Len(q) + 1 - n) : w[k] = IF k + n <= Len(q) THEN q[k + n] ELSE p
            /\ Front(w) = IF n = 1 THEN Tail(q) ELSE q
<1> DEFINE a == Append(q, p)
           w == Slide(q, p, n)
<1>1. Len(q) \in Nat /\ DOMAIN q = 1..Len(q) /\ q # <<>>
  BY LenProperties
<1>2. /\ a \in Seq(Points) /\ Len(a) = Len(q) + 1 /\ \A k \in 1..Len(q) : a[k] = q[k]
      /\ a[Len(q) + 1] = p
  BY AppendProperties
<1> HIDE DEF a
<1>3. \A k \in 1..(Len(q) + 1) : a[k] \in Points
  BY <1>1, <1>2, ElementOfSeq
<1>4. /\ w \in Seq(Points) /\ Len(w) = Len(q) + 1 - n
      /\ \A k \in 1..(Len(q) + 1 - n) : w[k] = a[k + n]
  <2>1. w = SubSeq(a, n + 1, Len(q) + 1)
    BY <1>2 DEF Slide, a
  <2>2. n + 1 \in Int /\ Len(q) + 1 \in Int /\ \A k \in (n + 1)..(Len(q) + 1) : a[k] \in Points
    BY <1>1, <1>3
  <2>3. /\ SubSeq(a, n + 1, Len(q) + 1) \in Seq(Points)
        /\ Len(SubSeq(a, n + 1, Len(q) + 1)) = IF n + 1 <= Len(q) + 1 THEN Len(q) + 1 - (n + 1) + 1 ELSE 0
        /\ \A k \in 1..(Len(q) + 1 - (n + 1) + 1) : SubSeq(a, n + 1, Len(q) + 1)[k] = a[n + 1 + k - 1]
    BY <2>2, SubSeqProperties
  <2>4. QED
    BY <1>1, <2>1, <2>3
<1> HIDE DEF w
<1>5. \A k \in 1..(Len(q) + 1 - n) : w[k] = IF k + n <= Len(q) THEN q[k + n] ELSE p
  BY <1>1, <1>2, <1>4
<1>6. Front(w) = IF n = 1 THEN Tail(q) ELSE q
  <2>1. /\ Front(w) \in Seq(Points) /\ Len(Front(w)) = Len(q) - n
        /\ \A k \in 1..(Len(q) - n) : Front(w)[k] = q[k + n]
    <3>1. PICK m \in Nat : m = Len(q) - n
      <4>1. Len(q) - n \in Nat
        BY <1>1
      <4>2. QED
        BY <4>1, Zenon
    <3>2. Front(w) = SubSeq(w, 1, m)
      <4>1. Len(w) - 1 = m
        BY <1>1, <1>4, <3>1
      <4>2. QED
        BY <4>1, Zenon DEF Front
    <3>3. \A k \in 1..m : w[k] \in Points /\ w[k] = q[k + n]
      BY <1>1, <1>4, <1>5, <3>1, ElementOfSeq
    <3>4. /\ SubSeq(w, 1, m) \in Seq(Points) /\ Len(SubSeq(w, 1, m)) = m
          /\ \A k \in 1..m : SubSeq(w, 1, m)[k] = w[k]
      BY <3>3, SubSeqProperties
    <3>5. QED
      BY <3>1, <3>2, <3>3, <3>4, Zenon
  <2>2. CASE n = 0
    <3>1. Len(Front(w)) = Len(q) /\ \A k \in 1..Len(Front(w)) : Front(w)[k] = q[k]
      BY <1>1, <2>1, <2>2
    <3>2. Front(w) = q
      BY <2>1, <3>1, SeqEqual
    <3>3. QED
      BY <2>2, <3>2
  <2>3. CASE n = 1
    <3>1. /\ Tail(q) \in Seq(Points) /\ Len(Tail(q)) = Len(q) - 1
          /\ \A k \in 1..(Len(q) - 1) : Tail(q)[k] = q[k + 1]
      BY <1>1, HeadTailProperties
    <3>2. Len(Front(w)) = Len(Tail(q)) /\ \A k \in 1..Len(Front(w)) : Front(w)[k] = Tail(q)[k]
      BY <1>1, <2>1, <2>3, <3>1
    <3>3. Front(w) = Tail(q)
      BY <2>1, <3>1, <3>2, SeqEqual
    <3>4. QED
      BY <2>3, <3>3
  <2>4. QED
    BY <2>2, <2>3
<1>7. QED
  BY <1>4, <1>5, <1>6 DEF w

\* The first item starts with the window; zeroes at its times have the same form.
LEMMA Backfill ==
  ASSUME NEW g, SeriesInv(g)
  PROVE  LET zeros == [k \in DOMAIN g.items[1].data |-> Point(g.items[1].data[k].x, 0)]
         IN /\ zeros \in Seq(Points) /\ Len(zeros) = g.currentSize
            /\ \A k \in 1..g.currentSize :
                 zeros[k] = Point(Time(g.currentIndex - g.currentSize + k), 0)
<1> DEFINE first == g.items[1].data
           zeros == [k \in DOMAIN first |-> Point(first[k].x, 0)]
           n == g.currentSize
<1>1. n \in Nat /\ g.currentIndex \in Nat
  BY PointsAssumption DEF SeriesInv
<1>2. g.items \in Seq(Items) /\ Len(g.items) \in Nat /\ Len(g.items) >= 1
  BY LenProperties, EmptySeq DEF SeriesInv
<1>3. g.items[1] \in Items
  BY <1>2, ElementOfSeq
<1>4. first \in Seq(Points) /\ Len(first) = n
  BY <1>2, <1>3 DEF Items, SeriesInv
<1>5. \A k \in 1..n : first[k].x = Time(g.currentIndex - g.currentSize + k)
  BY <1>2 DEF SeriesInv
<1> HIDE DEF first, n
<1>6. DOMAIN first = 1..n /\ \A k \in 1..n : first[k] \in Points
  BY <1>1, <1>4, LenProperties, ElementOfSeq
<1>7. \A k \in 1..n : Point(first[k].x, 0) \in Points
  BY <1>6 DEF Points, Point
<1>8. zeros \in [1..n -> Points]
  BY <1>6, <1>7
<1>9. zeros \in Seq(Points) /\ Len(zeros) = n
  <2> HIDE DEF zeros
  <2>1. zeros \in Seq(Points)
    BY <1>1, <1>8, SeqDef
  <2>2. QED
    BY <1>1, <1>8, <2>1, LenProperties
<1>10. \A k \in 1..n : zeros[k] = Point(Time(g.currentIndex - g.currentSize + k), 0)
  BY <1>5, <1>6
<1>11. QED
  BY <1>9, <1>10 DEF first, n

\* addItem for new names.
LEMMA AddItemsFacts ==
  ASSUME NEW g, DOMAIN g = Fields, SeriesInv(g), NEW new \in Seq(STRING)
  PROVE  LET h == addItems(g, new, "none")
         IN /\ DOMAIN h = Fields /\ SameConfig(h, g) /\ SameHover(h, g)
            /\ h.currentSize = g.currentSize /\ h.currentIndex = g.currentIndex
            /\ SeriesInv(h)
            /\ Len(h.items) >= Len(g.items)
            /\ \A i \in 1..Len(h.items) :
                 IF i <= Len(g.items) THEN h.items[i] = g.items[i]
                 ELSE \A k \in 1..g.currentSize : h.items[i].data[k].y = 0
<1> DEFINE zeros == [k \in DOMAIN g.items[1].data |-> Point(g.items[1].data[k].x, 0)]
           E == [k \in DOMAIN new |-> [name |-> new[k], color |-> paletteColor(g, "none", k),
                                       data |-> zeros]]
           items == g.items \o E
           h == addItems(g, new, "none")
<1>1. /\ g.items \in Seq(Items) /\ Len(g.items) \in Nat /\ Len(g.items) >= 1
      /\ g.currentIndex \in Nat /\ g.currentIndex > 0 /\ g.currentSize \in Nat /\ g.runningIndex \in Nat
  BY LenProperties, EmptySeq, PointsAssumption DEF SeriesInv
<1>2. Len(new) \in Nat /\ DOMAIN new = 1..Len(new) /\ \A k \in 1..Len(new) : new[k] \in STRING
  BY LenProperties, ElementOfSeq
<1>3. /\ zeros \in Seq(Points) /\ Len(zeros) = g.currentSize
      /\ \A k \in 1..g.currentSize :
           zeros[k].x = Time(g.currentIndex - g.currentSize + k) /\ zeros[k].y = 0
  <2> HIDE DEF zeros
  <2>1. /\ zeros \in Seq(Points) /\ Len(zeros) = g.currentSize
        /\ \A k \in 1..g.currentSize :
             zeros[k] = Point(Time(g.currentIndex - g.currentSize + k), 0)
    BY Backfill DEF zeros
  <2>2. ASSUME NEW k \in 1..g.currentSize
        PROVE  zeros[k].x = Time(g.currentIndex - g.currentSize + k) /\ zeros[k].y = 0
    <3>1. zeros[k] = [x |-> Time(g.currentIndex - g.currentSize + k), y |-> 0]
      BY <2>1, Zenon DEF Point
    <3>2. QED
      BY <3>1
  <2>3. QED
    BY <2>1, <2>2
<1>4. h = [g EXCEPT !.items = items, !.runningIndex = g.runningIndex + Len(new)]
  <2> HIDE DEF zeros
  <2>1. g.items # <<>> /\ getIndex(g) > 0
    BY <1>1 DEF SeriesInv, getIndex
  <2>2. h = Extend(g, new, "none", zeros)
    BY <2>1, Zenon DEF addItems, zeros
  <2>3. QED
    BY <2>2 DEF Extend
<1> HIDE DEF zeros, h
<1>5. E \in Seq(Items) /\ Len(E) = Len(new) /\ \A k \in 1..Len(new) : E[k].data = zeros
  <2>1. \A k \in 1..Len(new) : [name |-> new[k], color |-> paletteColor(g, "none", k), data |-> zeros] \in Items
    <3>1. \A k \in 1..Len(new) : paletteColor(g, "none", k) \in Nat \cup {"given"}
      BY <1>1, <1>2 DEF paletteColor
    <3>2. QED
      BY <1>2, <1>3, <3>1 DEF Items
  <2>2. E \in [1..Len(new) -> Items]
    BY <1>2, <2>1
  <2>3. E \in Seq(Items)
    <3> HIDE DEF E
    <3>1. QED
      BY <1>2, <2>2, SeqDef
  <2>4. Len(E) = Len(new)
    <3> HIDE DEF E
    <3>1. QED
      BY <1>2, <2>2, <2>3, LenProperties
  <2>5. QED
    BY <1>2, <2>3, <2>4
<1> HIDE DEF E
<1>6. /\ items \in Seq(Items) /\ Len(items) = Len(g.items) + Len(E)
      /\ \A i \in 1..(Len(g.items) + Len(E)) :
           items[i] = IF i <= Len(g.items) THEN g.items[i] ELSE E[i - Len(g.items)]
  <2>1. g.items \in Seq(Items) /\ E \in Seq(Items)
    BY <1>1, <1>5
  <2>2. QED
    BY <2>1, ConcatProperties
<1> HIDE DEF items
<1>7. /\ DOMAIN h = Fields /\ SameConfig(h, g) /\ SameHover(h, g)
      /\ h.currentSize = g.currentSize /\ h.currentIndex = g.currentIndex
      /\ h.timeBase = g.timeBase /\ h.items = items /\ h.runningIndex = g.runningIndex + Len(new)
  BY <1>4 DEF Fields, SameConfig, SameHover
<1>8. ASSUME NEW i \in 1..Len(items), ~(i <= Len(g.items))
      PROVE  items[i].data = zeros
  <2>1. i - Len(g.items) \in 1..Len(new) /\ items[i] = E[i - Len(g.items)]
    <3>1. Len(items) = Len(g.items) + Len(new) /\ Len(E) = Len(new)
      BY <1>5, <1>6
    <3>2. i - Len(g.items) \in 1..Len(new) /\ i \in 1..(Len(g.items) + Len(E))
      BY <1>1, <1>2, <1>8, <3>1
    <3>3. items[i] = E[i - Len(g.items)]
      BY <1>6, <1>8, <3>2, Zenon
    <3>4. QED
      BY <3>2, <3>3
  <2>2. QED
    BY <1>5, <2>1
<1>9. \A i \in 1..Len(items) : i <= Len(g.items) => items[i] = g.items[i] /\ i \in 1..Len(g.items)
  BY <1>1, <1>2, <1>5, <1>6
<1>10. SeriesInv(h)
  <2>1. items # <<>>
    BY <1>1, <1>2, <1>5, <1>6
  <2>2. h.runningIndex \in Nat
    BY <1>1, <1>2, <1>7
  <2>3. ASSUME NEW i \in 1..Len(items)
        PROVE  /\ Len(items[i].data) = g.currentSize
               /\ \A k \in 1..g.currentSize :
                    items[i].data[k].x = Time(g.currentIndex - g.currentSize + k)
    <3>1. CASE i <= Len(g.items)
      <4>1. items[i] = g.items[i] /\ i \in 1..Len(g.items)
        BY <1>9, <3>1
      <4>2. QED
        BY <4>1 DEF SeriesInv
    <3>2. CASE ~(i <= Len(g.items))
      <4>1. items[i].data = zeros
        BY <1>8, <3>2
      <4>2. QED
        BY <1>3, <4>1
    <3>3. QED
      BY <3>1, <3>2
  <2>4. QED
    BY <1>6, <1>7, <2>1, <2>2, <2>3 DEF SeriesInv
<1>11. Len(items) >= Len(g.items)
  BY <1>1, <1>2, <1>5, <1>6
<1>12. \A i \in 1..Len(items) :
         IF i <= Len(g.items) THEN items[i] = g.items[i]
         ELSE \A k \in 1..g.currentSize : items[i].data[k].y = 0
  BY <1>3, <1>8, <1>9
<1>13. QED
  BY <1>7, <1>10, <1>11, <1>12 DEF h

\* A status message moves the window of every series on by one point.
Slid(h, g) ==
  \A i \in 1..Len(h.items) :
    IF i <= Len(g.items)
    THEN Front(h.items[i].data) = IF g.currentSize = MaxDataPoints THEN Tail(g.items[i].data)
                                  ELSE g.items[i].data
    ELSE \A k \in 1..(h.currentSize - 1) : h.items[i].data[k].y = 0

LEMMA AddDataFacts ==
  ASSUME NEW g, DOMAIN g = Fields, SeriesInv(g), NEW N, NEW d \in [N -> Values],
         NEW new \in Seq(STRING)
  PROVE  LET h == addData(g, d, new)
         IN /\ DOMAIN h = Fields /\ SameConfig(h, g) /\ SameHover(h, g)
            /\ SeriesInv(h) /\ Slid(h, g)
<1> DEFINE full == addItems(g, new, "none")
           items == full.items
           p(i) == Point(getIndex(g) + g.timeBase,
                         IF items[i].name \in DOMAIN d THEN d[items[i].name] ELSE 0)
           size == g.currentSize
           n == IF size + 1 > MaxDataPoints THEN size + 1 - MaxDataPoints ELSE 0
           h == addData(g, d, new)
<1>1. /\ DOMAIN full = Fields /\ SameConfig(full, g) /\ SameHover(full, g)
      /\ full.currentSize = size /\ full.currentIndex = g.currentIndex
      /\ SeriesInv(full) /\ Len(items) >= Len(g.items)
      /\ \A i \in 1..Len(items) :
           IF i <= Len(g.items) THEN items[i] = g.items[i]
           ELSE \A k \in 1..size : items[i].data[k].y = 0
  BY AddItemsFacts
<1> HIDE DEF full
<1>2. /\ items \in Seq(Items) /\ items # <<>> /\ Len(items) \in Nat /\ DOMAIN items = 1..Len(items)
      /\ \A i \in 1..Len(items) : items[i] \in Items
  BY <1>1, LenProperties, ElementOfSeq DEF SeriesInv
<1>3. /\ size \in (MaxDataPoints - 2)..MaxDataPoints /\ size \in Nat /\ size >= 1
      /\ g.currentIndex \in Nat /\ g.currentIndex >= size /\ g.timeBase = 1 - MaxDataPoints
      /\ Len(g.items) \in Nat /\ full.timeBase = g.timeBase
  BY <1>1, PointsAssumption, LenProperties DEF SeriesInv
<1>4. \A i \in 1..Len(items) :
        /\ items[i].data \in Seq(Points) /\ Len(items[i].data) = size
        /\ \A k \in 1..size : items[i].data[k].x = Time(g.currentIndex - size + k)
  <2>1. \A i \in 1..Len(items) : items[i].data \in Seq(Points)
    BY <1>2 DEF Items
  <2>2. QED
    BY <1>1, <2>1 DEF SeriesInv
<1>5. n \in {0, 1} /\ (n = 1 <=> size = MaxDataPoints) /\ size + 1 - n \in (MaxDataPoints - 2)..MaxDataPoints
  BY <1>3, PointsAssumption
<1>6. \A i \in 1..Len(items) : p(i) \in Points /\ p(i).x = Time(g.currentIndex + 1)
  <2>1. getIndex(g) + g.timeBase \in Int /\ getIndex(g) + g.timeBase = Time(g.currentIndex + 1)
    BY <1>3, PointsAssumption DEF getIndex, Time
  <2>2. \A i \in 1..Len(items) :
          (IF items[i].name \in DOMAIN d THEN d[items[i].name] ELSE 0) \in Int
    <3>1. \A name \in DOMAIN d : d[name] \in Int
      BY ValuesAssumption
    <3>2. 0 \in Int
      OBVIOUS
    <3>3. QED
      BY <3>1, <3>2, Zenon
  <2>3. ASSUME NEW x \in Int, NEW y \in Int
        PROVE  Point(x, y) \in Points /\ Point(x, y).x = x
    BY DEF Point, Points
  <2>4. QED
    BY <2>1, <2>2, <2>3
<1> DEFINE added == [i \in DOMAIN items |-> [items[i] EXCEPT !.data = Append(items[i].data, p(i))]]
           slid == [i \in DOMAIN added |->
                      [added[i] EXCEPT !.data = SubSeq(added[i].data, n + 1, Len(added[i].data))]]
<1>7. h = [[[full EXCEPT !.items = added]
             EXCEPT !.currentSize = size + 1, !.currentIndex = g.currentIndex + 1]
             EXCEPT !.items = slid, !.currentSize = size + 1 - n]
  <2> HIDE DEF added, slid, n, p
  <2>1. SeriesAddData(g, d, new) = [full EXCEPT !.items = added]
    BY DEF SeriesAddData, withData, full, added, p
  <2>2. PICK s : s = [[full EXCEPT !.items = added]
                        EXCEPT !.currentSize = size + 1, !.currentIndex = g.currentIndex + 1]
    OBVIOUS
  <2>3. s.currentSize = size + 1 /\ s.items = added
    BY <1>1, <2>2 DEF Fields
  <2>4. s = [SeriesAddData(g, d, new) EXCEPT !.currentSize = @ + 1, !.currentIndex = @ + 1]
    BY <1>1, <2>1, <2>2 DEF Fields
  <2> DEFINE trim(t) == dropData(t, IF t.currentSize > MaxDataPoints
                                    THEN t.currentSize - MaxDataPoints ELSE 0)
             next == [SeriesAddData(g, d, new) EXCEPT !.currentSize = @ + 1, !.currentIndex = @ + 1]
  <2>5. h = trim(s)
    <3>1. h = trim(next)
      BY DEF addData
    <3> HIDE DEF trim, next, h
    <3>2. s = next
      BY <2>4 DEF next
    <3>3. QED
      BY <3>1, <3>2, Zenon
  <2>6. h = dropData(s, n)
    <3>1. (IF s.currentSize > MaxDataPoints THEN s.currentSize - MaxDataPoints ELSE 0) = n
      BY <1>3, <2>3, PointsAssumption DEF n
    <3> HIDE DEF h
    <3>2. QED
      BY <2>5, <3>1, Zenon
  <2>7. dropData(s, n) = [s EXCEPT !.items = slid, !.currentSize = size + 1 - n]
    <3> DEFINE data == [i \in DOMAIN s.items |-> SubSeq(s.items[i].data, n + 1, Len(s.items[i].data))]
    <3>1. withData(s, data) = slid
      BY <2>3 DEF withData, slid
    <3>2. dropData(s, n) = [s EXCEPT !.items = withData(s, data), !.currentSize = s.currentSize - n]
      BY DEF dropData
    <3> HIDE DEF data
    <3>3. s.currentSize - n = size + 1 - n
      BY <1>3, <1>5, <2>3
    <3>4. QED
      BY <3>1, <3>2, <3>3, Zenon
  <2>8. QED
    BY <2>2, <2>6, <2>7
<1>8. ASSUME NEW i \in 1..Len(items)
      PROVE  slid[i] = [items[i] EXCEPT !.data = Slide(items[i].data, p(i), n)]
  <2> HIDE DEF p, n, items
  <2>1. DOMAIN added = 1..Len(items) /\ added[i] = [items[i] EXCEPT !.data = Append(items[i].data, p(i))]
    BY <1>2
  <2> HIDE DEF added
  <2>2. slid[i] = [added[i] EXCEPT !.data = SubSeq(added[i].data, n + 1, Len(added[i].data))]
    BY <2>1
  <2> HIDE DEF slid
  <2>3. items[i] \in Items
    BY <1>2
  <2>4. added[i].data = Append(items[i].data, p(i))
    BY <2>1, <2>3 DEF Items
  <2>5. slid[i] = [added[i] EXCEPT !.data = Slide(items[i].data, p(i), n)]
    BY <2>2, <2>4, Zenon DEF Slide
  <2>6. QED
    BY <2>1, <2>3, <2>5 DEF Items
<1>9. /\ DOMAIN h = Fields /\ SameConfig(h, g) /\ SameHover(h, g) /\ h.items = slid
      /\ h.currentSize = size + 1 - n /\ h.currentIndex = g.currentIndex + 1
      /\ h.timeBase = g.timeBase /\ h.runningIndex = full.runningIndex
  <2> HIDE DEF added, slid, n, p, h
  <2>1. QED
    BY <1>1, <1>3, <1>7 DEF Fields, SameConfig, SameHover
<1>10. ASSUME NEW i \in 1..Len(items)
       PROVE  LET w == Slide(items[i].data, p(i), n)
              IN /\ slid[i] \in Items /\ slid[i].data = w /\ Len(w) = size + 1 - n
                 /\ \A k \in 1..(size + 1 - n) :
                      w[k] = IF k + n <= size THEN items[i].data[k + n] ELSE p(i)
                 /\ Front(w) = IF n = 1 THEN Tail(items[i].data) ELSE items[i].data
  <2> HIDE DEF p, n, slid, items
  <2> DEFINE w == Slide(items[i].data, p(i), n)
  <2>1. items[i].data \in Seq(Points) /\ p(i) \in Points /\ n \in {0, 1} /\ Len(items[i].data) >= 1
    BY <1>3, <1>4, <1>5, <1>6
  <2>2. /\ w \in Seq(Points) /\ Len(w) = Len(items[i].data) + 1 - n
        /\ \A k \in 1..(Len(items[i].data) + 1 - n) :
             w[k] = IF k + n <= Len(items[i].data) THEN items[i].data[k + n] ELSE p(i)
        /\ Front(w) = IF n = 1 THEN Tail(items[i].data) ELSE items[i].data
    BY <2>1, SlideFacts
  <2> HIDE DEF w
  <2>3. items[i] \in Items /\ Len(items[i].data) = size
    BY <1>2, <1>4
  <2>4. slid[i] = [items[i] EXCEPT !.data = w]
    BY <1>8 DEF w
  <2>5. slid[i] \in Items /\ slid[i].data = w
    BY <2>2, <2>3, <2>4 DEF Items
  <2>6. QED
    BY <2>2, <2>3, <2>5 DEF w
<1>11. slid \in Seq(Items) /\ Len(slid) = Len(items)
  <2>1. slid \in [1..Len(items) -> Items]
    <3>1. DOMAIN slid = 1..Len(items)
      BY <1>2
    <3> HIDE DEF slid
    <3>2. \A i \in 1..Len(items) : slid[i] \in Items
      BY <1>10
    <3>3. slid = [i \in DOMAIN slid |-> slid[i]]
      BY DEF slid
    <3>4. QED
      BY <3>1, <3>2, <3>3
  <2> HIDE DEF slid
  <2>2. slid \in Seq(Items)
    BY <1>2, <2>1, SeqDef
  <2>3. QED
    BY <1>2, <2>1, <2>2, LenProperties
<1> HIDE DEF slid, added, n, p, h
<1>12. ASSUME NEW i \in 1..Len(items)
       PROVE  /\ Len(slid[i].data) = size + 1 - n
              /\ \A k \in 1..(size + 1 - n) :
                   slid[i].data[k].x = Time(g.currentIndex + 1 - (size + 1 - n) + k)
  <2>1. Len(slid[i].data) = size + 1 - n
    BY <1>10
  <2>2. ASSUME NEW k \in 1..(size + 1 - n)
        PROVE  slid[i].data[k].x = Time(g.currentIndex + 1 - (size + 1 - n) + k)
    <3>1. slid[i].data[k] = IF k + n <= size THEN items[i].data[k + n] ELSE p(i)
      BY <1>10
    <3>2. CASE k + n <= size
      <4>1. k + n \in 1..size
        BY <1>3, <1>5, <3>2
      <4>2. items[i].data[k + n].x = Time(g.currentIndex - size + (k + n))
        BY <1>4, <4>1
      <4>3. g.currentIndex - size + (k + n) = g.currentIndex + 1 - (size + 1 - n) + k
        <5>1. k \in Int /\ n \in Int /\ size \in Int /\ g.currentIndex \in Int
          BY <1>3, <1>5
        <5>2. g.currentIndex - size + (k + n) \in Int
          BY <5>1
        <5>3. PICK j \in Int : j = g.currentIndex - size + (k + n)
          BY <5>2, Zenon
        <5>4. j = g.currentIndex + 1 - (size + 1 - n) + k
          BY <5>1, <5>3
        <5>5. QED
          BY <5>3, <5>4, Zenon
      <4>4. QED
        BY <3>1, <3>2, <4>2, <4>3
    <3>3. CASE ~(k + n <= size)
      <4>1. g.currentIndex + 1 = g.currentIndex + 1 - (size + 1 - n) + k
        BY <1>3, <1>5, <3>3
      <4>2. p(i).x = Time(g.currentIndex + 1)
        BY <1>6
      <4>3. QED
        BY <3>1, <3>3, <4>1, <4>2
    <3>4. QED
      BY <3>2, <3>3
  <2>3. QED
    BY <2>1, <2>2
<1>13. SeriesInv(h)
  <2>1. slid # <<>>
    BY <1>2, <1>11, EmptySeq
  <2>2. h.runningIndex \in Nat
    BY <1>1, <1>9 DEF SeriesInv
  <2>3. /\ size + 1 - n \in (MaxDataPoints - 2)..MaxDataPoints
        /\ g.currentIndex + 1 \in Nat /\ g.currentIndex + 1 >= size + 1 - n
    BY <1>3, <1>5
  <2>4. QED
    <3>1. /\ h.items \in Seq(Items) /\ h.items # <<>>
          /\ h.currentSize \in (MaxDataPoints - 2)..MaxDataPoints
          /\ h.currentIndex \in Nat /\ h.currentIndex >= h.currentSize
          /\ h.timeBase = 1 - MaxDataPoints
      BY <1>3, <1>9, <1>11, <2>1, <2>3
    <3>2. \A i \in 1..Len(h.items) :
            /\ Len(h.items[i].data) = h.currentSize
            /\ \A k \in 1..h.currentSize :
                 h.items[i].data[k].x = Time(h.currentIndex - h.currentSize + k)
      <4>1. Len(h.items) = Len(items)
        BY <1>9, <1>11
      <4>2. ASSUME NEW i \in 1..Len(items)
            PROVE  /\ Len(h.items[i].data) = h.currentSize
                   /\ \A k \in 1..h.currentSize :
                        h.items[i].data[k].x = Time(h.currentIndex - h.currentSize + k)
        BY <1>3, <1>5, <1>9, <1>12
      <4>3. QED
        BY <4>1, <4>2, Zenon
    <3>3. QED
      BY <2>2, <3>1, <3>2, Zenon DEF SeriesInv
<1>14. Slid(h, g)
  <2>1. Len(h.items) = Len(items) /\ h.items = slid /\ h.currentSize - 1 = size + 1 - n - 1
    BY <1>3, <1>5, <1>9, <1>11
  <2>2. SUFFICES ASSUME NEW i \in 1..Len(items)
                 PROVE  IF i <= Len(g.items)
                        THEN Front(slid[i].data) = IF size = MaxDataPoints THEN Tail(g.items[i].data)
                                                   ELSE g.items[i].data
                        ELSE \A k \in 1..(size + 1 - n - 1) : slid[i].data[k].y = 0
    BY <2>1, Zenon DEF Slid
  <2>3. CASE i <= Len(g.items)
    <3>1. items[i] = g.items[i]
      BY <1>1, <2>3
    <3>2. Front(slid[i].data) = IF n = 1 THEN Tail(items[i].data) ELSE items[i].data
      BY <1>10
    <3>3. QED
      BY <1>5, <2>3, <3>1, <3>2
  <2>4. CASE ~(i <= Len(g.items))
    <3>1. ASSUME NEW k \in 1..(size + 1 - n - 1)
          PROVE  slid[i].data[k].y = 0
      <4>1. k \in 1..(size + 1 - n) /\ k + n \in 1..size /\ k + n <= size
        BY <1>3, <1>5
      <4>2. slid[i].data[k] = items[i].data[k + n]
        BY <1>10, <4>1
      <4>3. items[i].data[k + n].y = 0
        BY <1>1, <2>4, <4>1
      <4>4. QED
        BY <4>2, <4>3
    <3>2. QED
      BY <2>4, <3>1
  <2>5. QED
    BY <2>3, <2>4
<1>15. QED
  BY <1>9, <1>13, <1>14 DEF h

\* FixedDuration fills the series up to two points before the limit.
LEMMA FixedDurationFacts ==
  LET g == FixedDuration
  IN DOMAIN g = Fields /\ SeriesInv(g) /\ g.callbacks = <<>>
<1> DEFINE last == <<Point(-1, 0)>>
           E == [k \in DOMAIN SeriesInfo |-> [name |-> SeriesInfo[k], color |-> "given", data |-> last]]
           M == MaxDataPoints
           given == [NoGraph EXCEPT !.items = <<>> \o E, !.runningIndex = 0]
           one == [given EXCEPT !.currentSize = 1, !.currentIndex = 1]
           base == [one EXCEPT !.timeBase = 1 - M]
           fill == [k \in 1..(M - 3) |-> Point(k + (1 - M), 0)]
           items == [i \in DOMAIN E |-> [E[i] EXCEPT !.data = fill \o last]]
           g == FixedDuration
<1>1. M \in Nat /\ M >= 4
  BY PointsAssumption
<1>2. /\ Len(SeriesInfo) \in Nat /\ Len(SeriesInfo) >= 1 /\ DOMAIN SeriesInfo = 1..Len(SeriesInfo)
      /\ \A k \in 1..Len(SeriesInfo) : SeriesInfo[k] \in STRING
  BY SeriesAssumption, LenProperties, EmptySeq, ElementOfSeq
<1>3. last \in Seq(Points) /\ Len(last) = 1 /\ last[1].x = -1
  BY <1>1 DEF Points, Point
<1> HIDE DEF last, M
<1>4. E \in Seq(Items) /\ Len(E) = Len(SeriesInfo)
  <2>1. E \in [1..Len(SeriesInfo) -> Items]
    BY <1>2, <1>3 DEF Items
  <2> HIDE DEF E
  <2>2. E \in Seq(Items)
    BY <1>2, <2>1, SeqDef
  <2>3. QED
    BY <1>2, <2>1, <2>2, LenProperties
<1>5. \A k \in 1..Len(SeriesInfo) : E[k].data = last
  BY <1>2
<1>6. <<>> \o E = E
  <2> HIDE DEF E
  <2>1. QED
    BY <1>4, ConcatEmptySeq
<1>7. fill \in Seq(Points) /\ Len(fill) = M - 3 /\ \A k \in 1..(M - 3) : fill[k].x = Time(k)
  <2>1. \A k \in 1..(M - 3) : k + (1 - M) = Time(k) /\ k + (1 - M) \in Int
    BY <1>1 DEF Time, M
  <2>2. \A k \in 1..(M - 3) : Point(k + (1 - M), 0) \in Points /\ Point(k + (1 - M), 0).x = Time(k)
    <3>1. ASSUME NEW x \in Int
          PROVE  Point(x, 0) \in Points /\ Point(x, 0).x = x
      BY <1>1 DEF Point, Points
    <3>2. QED
      BY <2>1, <3>1
  <2>3. fill \in [1..(M - 3) -> Points] /\ M - 3 \in Nat
    <3>1. fill \in [1..(M - 3) -> Points]
      BY <2>2, Zenon
    <3>2. M - 3 \in Nat
      BY <1>1
    <3>3. QED
      BY <3>1, <3>2, Zenon
  <2>4. \A k \in 1..(M - 3) : fill[k].x = Time(k)
    BY <2>2
  <2> HIDE DEF fill
  <2>5. fill \in Seq(Points)
    BY <2>3, SeqDef
  <2>6. QED
    BY <2>3, <2>4, <2>5, LenProperties
<1>8. /\ fill \o last \in Seq(Points) /\ Len(fill \o last) = M - 2
      /\ \A k \in 1..(M - 2) : (fill \o last)[k].x = Time(k)
  <2> HIDE DEF fill
  <2>1. fill \in Seq(Points) /\ last \in Seq(Points)
    BY <1>3, <1>7
  <2>2. /\ fill \o last \in Seq(Points) /\ Len(fill \o last) = Len(fill) + Len(last)
        /\ \A k \in 1..(Len(fill) + Len(last)) :
             (fill \o last)[k] = IF k <= Len(fill) THEN fill[k] ELSE last[k - Len(fill)]
    BY <2>1, ConcatProperties
  <2>3. Time(M - 2) = -1
    BY <1>1 DEF Time, M
  <2>4. ASSUME NEW k \in 1..(M - 2)
        PROVE  (fill \o last)[k].x = Time(k)
    <3>1. CASE k <= M - 3
      BY <1>1, <1>3, <1>7, <2>2, <3>1
    <3>2. CASE ~(k <= M - 3)
      <4>1. k = M - 2 /\ k - Len(fill) = 1 /\ k \in 1..(Len(fill) + Len(last)) /\ ~(k <= Len(fill))
        BY <1>1, <1>3, <1>7, <3>2
      <4>2. (fill \o last)[k] = last[1]
        BY <2>2, <4>1
      <4>3. QED
        BY <1>3, <2>3, <4>1, <4>2
    <3>3. QED
      BY <3>1, <3>2
  <2>5. QED
    BY <1>1, <1>3, <1>7, <2>2, <2>4
<1>9. addItems(NoGraph, SeriesInfo, "given") = given
  <2>1. NoGraph.items = <<>> /\ NoGraph.timeBase = 0 /\ NoGraph.runningIndex = 0
    BY DEF NoGraph
  <2>2. <<Point(NoGraph.timeBase - 1, 0)>> = last
    BY <2>1 DEF last
  <2>3. addItems(NoGraph, SeriesInfo, "given") = Extend(NoGraph, SeriesInfo, "given", last)
    BY <2>1, <2>2, Zenon DEF addItems
  <2>4. [k \in DOMAIN SeriesInfo |-> [name |-> SeriesInfo[k], data |-> last,
           color |-> paletteColor(NoGraph, "given", k)]] = E
    BY DEF paletteColor
  <2> HIDE DEF E
  <2>5. QED
    BY <2>1, <2>3, <2>4 DEF Extend
<1> HIDE DEF E, fill
<1>10. /\ DOMAIN given = Fields /\ given.items = E /\ given.currentSize = 0 /\ given.currentIndex = 0
       /\ given.timeBase = 0 /\ given.runningIndex = 0 /\ given.callbacks = <<>>
  BY <1>6 DEF NoGraph, Fields
<1> HIDE DEF given
<1>11. /\ DOMAIN base = Fields /\ base.items = E /\ base.currentSize = 1 /\ base.currentIndex = 1
       /\ base.timeBase = 1 - M /\ base.runningIndex = 0 /\ base.callbacks = <<>>
       /\ one.currentSize = 1 /\ one.timeBase = 0
  BY <1>10 DEF Fields
<1>12. g = ZeroFill(base)
  <2>1. one = [given EXCEPT !.currentSize = given.currentSize + 1, !.currentIndex = given.currentIndex + 1]
    BY <1>10
  <2> HIDE DEF one
  <2>2. g = ZeroFill([one EXCEPT !.timeBase = one.timeBase - (MaxDataPoints - one.currentSize)])
    BY <1>9, <2>1 DEF FixedDuration
  <2>3. one.timeBase - (MaxDataPoints - one.currentSize) = 1 - M
    BY <1>1, <1>11 DEF M
  <2>4. QED
    BY <2>2, <2>3, Zenon
<1> HIDE DEF base, g
<1>13. g = [base EXCEPT !.items = items, !.currentSize = M - 2, !.currentIndex = M - 2]
  <2> DEFINE f == [k \in 1..(MaxDataPoints - base.currentSize - 2) |-> Point(k + base.timeBase, 0)]
             data == [i \in DOMAIN E |-> fill \o E[i].data]
  <2>1. f = fill
    <3>1. 1..(MaxDataPoints - base.currentSize - 2) = 1..(M - 3)
      BY <1>1, <1>11 DEF M
    <3>2. QED
      BY <1>11, <3>1 DEF fill
  <2>2. g = [base EXCEPT !.items = withData(base, [i \in DOMAIN base.items |-> f \o base.items[i].data]),
                         !.currentSize = base.currentSize + Len(f),
                         !.currentIndex = base.currentIndex + Len(f)]
    BY <1>12 DEF ZeroFill
  <2> HIDE DEF f
  <2>3. base.currentSize + Len(f) = M - 2 /\ base.currentIndex + Len(f) = M - 2
    BY <1>1, <1>7, <1>11, <2>1
  <2>4. withData(base, data) = items
    <3>1. DOMAIN E = 1..Len(SeriesInfo)
      BY <1>2, <1>4, LenProperties
    <3>2. \A i \in DOMAIN E : data[i] = fill \o last
      BY <1>5, <3>1
    <3> HIDE DEF data
    <3>3. QED
      BY <1>11, <3>2 DEF withData
  <2>5. [i \in DOMAIN base.items |-> f \o base.items[i].data] = data
    BY <1>11, <2>1
  <2> HIDE DEF data, items
  <2>6. QED
    BY <2>2, <2>3, <2>4, <2>5, Zenon
<1>14. items \in Seq(Items) /\ Len(items) = Len(E) /\ \A i \in 1..Len(E) : items[i].data = fill \o last
  <2>1. /\ Len(E) \in Nat /\ DOMAIN E = 1..Len(E) /\ \A i \in 1..Len(E) : E[i] \in Items
    BY <1>4, LenProperties, ElementOfSeq
  <2>2. \A i \in 1..Len(E) : [E[i] EXCEPT !.data = fill \o last] \in Items
    BY <1>8, <2>1 DEF Items
  <2>3. items \in [1..Len(E) -> Items]
    BY <2>1, <2>2
  <2>4. \A i \in 1..Len(E) : items[i].data = fill \o last
    BY <2>1 DEF Items
  <2> HIDE DEF items
  <2>5. items \in Seq(Items)
    BY <2>1, <2>3, SeqDef
  <2>6. QED
    BY <2>1, <2>3, <2>4, <2>5, LenProperties
<1> HIDE DEF items
<1>15. /\ DOMAIN g = Fields /\ g.callbacks = <<>> /\ g.items = items /\ g.currentSize = M - 2
       /\ g.currentIndex = M - 2 /\ g.timeBase = 1 - M /\ g.runningIndex = 0
  BY <1>11, <1>13 DEF Fields
<1>16. SeriesInv(g)
  <2>1. /\ g.items \in Seq(Items) /\ g.items # <<>>
        /\ g.currentSize \in (MaxDataPoints - 2)..MaxDataPoints
        /\ g.currentIndex \in Nat /\ g.currentIndex >= g.currentSize
        /\ g.timeBase = 1 - MaxDataPoints /\ g.runningIndex \in Nat
    BY <1>1, <1>2, <1>4, <1>14, <1>15, EmptySeq DEF M
  <2>2. ASSUME NEW i \in 1..Len(g.items)
        PROVE  /\ Len(g.items[i].data) = g.currentSize
               /\ \A k \in 1..g.currentSize :
                    g.items[i].data[k].x = Time(g.currentIndex - g.currentSize + k)
    <3>1. g.items[i].data = fill \o last
      BY <1>14, <1>15
    <3>2. \A k \in 1..(M - 2) : g.currentIndex - g.currentSize + k = k
      BY <1>1, <1>15
    <3>3. QED
      BY <1>8, <1>15, <3>1, <3>2
  <2>3. QED
    BY <2>1, <2>2, Zenon DEF SeriesInv
<1>17. QED
  BY <1>15, <1>16 DEF g

\* The parts of the invariant depend on the fields they are about.
LEMMA SameFacts ==
  ASSUME NEW g, NEW h
  PROVE  /\ SameSeries(h, g) /\ SeriesInv(g) => SeriesInv(h)
         /\ SameConfig(h, g) /\ ConfigInv(g) => ConfigInv(h)
         /\ SameSeries(h, g) /\ SameConfig(h, g) /\ SameDrawn(h, g) /\ DrawnInv(g) => DrawnInv(h)
<1>1. SameSeries(h, g) /\ SeriesInv(g) => SeriesInv(h)
  BY Zenon DEF SameSeries, SeriesInv
<1>2. SameConfig(h, g) /\ ConfigInv(g) => ConfigInv(h)
  BY Zenon DEF SameConfig, ConfigInv
<1>3. ASSUME SameSeries(h, g), SameConfig(h, g), SameDrawn(h, g), DrawnInv(g)
      PROVE  DrawnInv(h)
  <2>1. domain(h, h.stackedData) = domain(g, g.stackedData)
    BY <1>3, Zenon DEF domain, SameConfig, SameDrawn
  <2>2. QED
    BY <1>3, <2>1, Zenon DEF DrawnInv, SameSeries, SameDrawn
<1>4. QED
  BY <1>1, <1>2, <1>3

-----------------------------------------------------------------------------
(* Creating a graph                                                        *)

\* Level series pass validateSeries, and their times go on by one interval but once.
LEMMA ValidFacts ==
  ASSUME NEW g, SeriesInv(g)
  PROVE  /\ validateSeries(g.items)
         /\ \A i \in 1..Len(g.items) :
              LET data == g.items[i].data
              IN /\ DOMAIN data = 1..g.currentSize
                 /\ \A k \in 1..g.currentSize : data[k].x = g.items[1].data[k].x
                 /\ \A k \in 1..(Len(data) - 1) :
                      data[k + 1].x - data[k].x = IF data[k + 1].x = -1 /\ data[k].x = -1 THEN 0 ELSE 1
<1> DEFINE size == g.currentSize
           at(k) == Time(g.currentIndex - size + k)
<1>1. /\ g.items \in Seq(Items) /\ Len(g.items) \in Nat /\ Len(g.items) >= 1
      /\ DOMAIN g.items = 1..Len(g.items)
      /\ size \in Nat /\ size >= 2 /\ g.currentIndex \in Nat /\ g.currentIndex >= size
  <2>1. g.items \in Seq(Items) /\ Len(g.items) \in Nat /\ Len(g.items) >= 1
    BY LenProperties, EmptySeq DEF SeriesInv
  <2>2. size \in Nat /\ size >= 2 /\ g.currentIndex \in Nat /\ g.currentIndex >= size
    BY PointsAssumption DEF SeriesInv
  <2>3. QED
    BY <2>1, <2>2, LenProperties
<1>2. \A i \in 1..Len(g.items) : g.items[i].data \in Seq(Points)
  <2>1. \A i \in 1..Len(g.items) : g.items[i] \in Items
    BY <1>1, ElementOfSeq
  <2>2. QED
    BY <2>1 DEF Items
<1>3. \A i \in 1..Len(g.items) : /\ Len(g.items[i].data) = size /\ DOMAIN g.items[i].data = 1..size
                                /\ \A k \in 1..size : g.items[i].data[k].x = at(k)
  <2>1. \A i \in 1..Len(g.items) : /\ Len(g.items[i].data) = size
                                  /\ \A k \in 1..size : g.items[i].data[k].x = at(k)
    BY Zenon DEF SeriesInv
  <2>2. QED
    BY <1>2, <2>1, LenProperties
<1>4. /\ \A k \in 1..size : at(k) \in Int
      /\ \A k \in 1..(size - 1) : at(k + 1) - at(k) = IF at(k + 1) = -1 /\ at(k) = -1 THEN 0 ELSE 1
      /\ size >= 3 => at(2) >= at(1) /\ at(3) >= at(2) /\ at(size) >= at(1)
  <2>1. PICK b \in Nat : b = g.currentIndex - size
    <3>1. g.currentIndex - size \in Nat
      BY <1>1
    <3>2. QED
      BY <3>1, Zenon
  <2>2. \A m, n \in Nat : /\ Time(m) \in Int
                          /\ m <= n => Time(m) <= Time(n)
                          /\ Time(m + 1) - Time(m) = IF Time(m + 1) = -1 /\ Time(m) = -1 THEN 0 ELSE 1
    BY PointsAssumption DEF Time
  <2>3. \A k \in 1..size : at(k) = Time(b + k)
    BY <2>1, Zenon
  <2> HIDE DEF at
  <2>4. \A k \in 1..size : at(k) \in Int
    <3>1. ASSUME NEW k \in 1..size PROVE at(k) \in Int
      <4>1. b + k \in Nat
        OBVIOUS
      <4>2. QED
        BY <2>2, <2>3, <4>1, Zenon
    <3>2. QED
      BY <3>1
  <2>5. ASSUME NEW k \in 1..(size - 1)
        PROVE  at(k + 1) - at(k) = IF at(k + 1) = -1 /\ at(k) = -1 THEN 0 ELSE 1
    <3>1. k \in 1..size /\ k + 1 \in 1..size /\ b + k \in Nat /\ b + (k + 1) = (b + k) + 1
      BY <1>1
    <3>2. at(k) = Time(b + k) /\ at(k + 1) = Time((b + k) + 1)
      BY <2>3, <3>1
    <3>3. QED
      BY <2>2, <3>1, <3>2, Zenon
  <2>6. ASSUME NEW k \in 1..size, NEW l \in 1..size, k <= l
        PROVE  at(k) <= at(l)
    <3>1. b + k \in Nat /\ b + l \in Nat /\ b + k <= b + l
      BY <2>6
    <3>2. QED
      BY <2>2, <2>3, <3>1
  <2>7. ASSUME size >= 3
        PROVE  at(2) >= at(1) /\ at(3) >= at(2) /\ at(size) >= at(1)
    <3>1. /\ 1 \in 1..size /\ 2 \in 1..size /\ 3 \in 1..size /\ size \in 1..size /\ 1 <= size
          /\ 1 <= 2 /\ 2 <= 3
      BY <1>1, <2>7
    <3>2. at(1) <= at(2) /\ at(2) <= at(3) /\ at(1) <= at(size)
      BY <2>6, <3>1
    <3>3. QED
      BY <2>4, <3>1, <3>2
  <2>8. QED
    BY <2>4, <2>5, <2>7
<1> HIDE DEF at
<1>5. ASSUME NEW i \in 1..Len(g.items)
      PROVE  ~Unsorted(g.items[i].data)
  <2> DEFINE data == g.items[i].data
  <2>1. Len(data) = size /\ \A k \in 1..size : data[k].x = at(k)
    BY <1>3
  <2>2. CASE size >= 3
    <3>1. /\ data[1].x = at(1) /\ data[2].x = at(2) /\ data[3].x = at(3) /\ data[size].x = at(size)
          /\ at(1) \in Int /\ at(2) \in Int /\ at(3) \in Int /\ at(size) \in Int
      <4>1. 1 \in 1..size /\ 2 \in 1..size /\ 3 \in 1..size /\ size \in 1..size
        BY <1>1, <2>2
      <4> HIDE DEF data, size
      <4>2. QED
        BY <1>4, <2>1, <4>1, Zenon
    <3>2. Last(data) = data[size]
      BY <2>1 DEF Last
    <3> HIDE DEF data
    <3>3. ~Unsorted(data)
      BY <1>4, <2>2, <3>1, <3>2 DEF Unsorted
    <3>4. QED
      BY <3>3 DEF data
  <2>3. CASE ~(size >= 3)
    BY <2>1, <2>3 DEF Unsorted
  <2>4. QED
    BY <2>2, <2>3
<1>6. ASSUME NEW i \in 1..Len(g.items)
      PROVE  LET data == g.items[i].data
             IN /\ DOMAIN data = 1..g.currentSize
                /\ \A k \in 1..g.currentSize : data[k].x = g.items[1].data[k].x
                /\ \A k \in 1..(Len(data) - 1) :
                     data[k + 1].x - data[k].x = IF data[k + 1].x = -1 /\ data[k].x = -1 THEN 0 ELSE 1
  <2> DEFINE data == g.items[i].data
  <2>1. Len(data) = size /\ DOMAIN data = 1..size /\ \A k \in 1..size : data[k].x = at(k)
    BY <1>3
  <2>2. \A k \in 1..size : g.items[1].data[k].x = at(k)
    BY <1>1, <1>3
  <2> HIDE DEF data
  <2>3. ASSUME NEW k \in 1..(Len(data) - 1)
        PROVE  data[k + 1].x - data[k].x = IF data[k + 1].x = -1 /\ data[k].x = -1 THEN 0 ELSE 1
    <3>1. k \in 1..size /\ k + 1 \in 1..size /\ k \in 1..(size - 1)
      BY <1>1, <2>1
    <3>2. QED
      BY <1>4, <2>1, <3>1
  <2>4. \A k \in 1..size : data[k].x = g.items[1].data[k].x
    BY <2>1, <2>2
  <2>5. QED
    BY <2>1, <2>3, <2>4 DEF data
<1>7. validateSeries(g.items)
  BY <1>1, <1>5 DEF validateSeries
<1>8. QED
  BY <1>6, <1>7

\* The callbacks as onUpdate puts them together.
LEMMA CallbackFacts ==
  /\ Append(Append(<<>>, "xAxis"), "yAxis") = <<"xAxis", "yAxis">>
  /\ Append(<<"xAxis", "yAxis">>, "hover") = <<"xAxis", "yAxis", "hover">>
<1> DEFINE S == {"xAxis", "yAxis", "hover"}
           q == Append(<<>>, "xAxis")
           a == Append(q, "yAxis")
           t == <<"xAxis", "yAxis">>
           b == Append(t, "hover")
           u == <<"xAxis", "yAxis", "hover">>
<1>1. "xAxis" \in S /\ "yAxis" \in S /\ "hover" \in S
  OBVIOUS
<1>2. q \in Seq(S) /\ Len(q) = 1 /\ q[1] = "xAxis"
  OBVIOUS
<1>3. t \in Seq(S) /\ Len(t) = 2 /\ t[1] = "xAxis" /\ t[2] = "yAxis"
  OBVIOUS
<1>4. u \in Seq(S) /\ Len(u) = 3 /\ u[1] = "xAxis" /\ u[2] = "yAxis" /\ u[3] = "hover"
  OBVIOUS
<1> HIDE DEF S, q, t, u
<1>5. a \in Seq(S) /\ Len(a) = 2 /\ a[1] = "xAxis" /\ a[2] = "yAxis"
  <2>1. q \in Seq(S) /\ "yAxis" \in S
    BY <1>1, <1>2
  <2>2. /\ a \in Seq(S) /\ Len(a) = Len(q) + 1 /\ \A k \in 1..Len(q) : a[k] = q[k]
        /\ a[Len(q) + 1] = "yAxis"
    BY <2>1, AppendProperties
  <2> HIDE DEF a
  <2>3. QED
    BY <1>2, <2>2
<1>6. b \in Seq(S) /\ Len(b) = 3 /\ b[1] = "xAxis" /\ b[2] = "yAxis" /\ b[3] = "hover"
  <2>1. /\ b \in Seq(S) /\ Len(b) = Len(t) + 1 /\ \A k \in 1..Len(t) : b[k] = t[k]
        /\ b[Len(t) + 1] = "hover"
    <3>1. t \in Seq(S) /\ "hover" \in S
      BY <1>1, <1>3
    <3>2. QED
      BY <3>1, AppendProperties
  <2> HIDE DEF b
  <2>2. 1 \in 1..Len(t) /\ 2 \in 1..Len(t) /\ Len(t) + 1 = 3
    BY <1>3
  <2>3. b[1] = t[1] /\ b[2] = t[2] /\ b[3] = "hover"
    BY <2>1, <2>2
  <2>4. QED
    BY <1>3, <2>1, <2>2, <2>3
<1> HIDE DEF a, b
<1>7. Len(a) = Len(t) /\ \A k \in 1..Len(a) : a[k] = t[k]
  BY <1>3, <1>5
<1>8. Len(b) = Len(u) /\ \A k \in 1..Len(b) : b[k] = u[k]
  BY <1>4, <1>6
<1>9. a = t
  BY <1>3, <1>5, <1>7, SeqEqual
<1>10. b = u
  BY <1>4, <1>6, <1>8, SeqEqual
<1>11. QED
  BY <1>9, <1>10, Zenon DEF q, a, t, b, u

\* onUpdate registers a callback and touches nothing else.
LEMMA OnUpdateFacts ==
  ASSUME NEW g, DOMAIN g = Fields, NEW callback
  PROVE  LET h == onUpdate(g, callback)
         IN /\ DOMAIN h = Fields /\ SameSeries(h, g) /\ h.callbacks = Append(g.callbacks, callback)
            /\ SameHover(h, g) /\ h.config = g.config
<1>1. PICK a : a = Append(g.callbacks, callback)
  OBVIOUS
<1>2. onUpdate(g, callback) = [g EXCEPT !.callbacks = a]
  BY <1>1, Zenon DEF onUpdate
<1>3. QED
  BY <1>1, <1>2 DEF Fields, SameSeries, SameHover

\* A graph that was created is live, and satisfies the invariant.
LEMMA CreateFacts ==
  ASSUME Rickshaw_CreateGraph
  PROVE  /\ phase' = "live" /\ DOMAIN Graph' = Fields
         /\ SeriesInv(Graph') /\ ConfigInv(Graph') /\ DrawnInv(Graph') /\ HoverInv(Graph')
<1> DEFINE given == FixedDuration
           args  == [min |-> ValueMin, max |-> ValueMax]
           graph == graphInitialize(given, args)
           axes  == yAxisInitialize(xAxisInitialize(graph))
           hover == hoverInitialize(axes)
           config == [min |-> ValueMin, max |-> ValueMax, renderer |-> LineDefaults]
<1>1. DOMAIN given = Fields /\ SeriesInv(given) /\ given.callbacks = <<>>
  BY FixedDurationFacts
<1>2. phase' = "live" /\ Graph' = hoverUpdate(render(hover), FakeEvent)
  <2>1. validateSeries(given.items)
    <3> HIDE DEF given
    <3>1. QED
      BY <1>1, ValidFacts
  <2>2. QED
    BY <2>1, Zenon DEF Rickshaw_CreateGraph
<1> HIDE DEF given
<1>3. configure(given, args) = [given EXCEPT !.config = config]
  <2>1. rendererConfigure(LineDefaults, args) = LineDefaults
    BY DEF rendererConfigure, LineDefaults, RendererDefaults
  <2>2. args.min = ValueMin /\ args.max = ValueMax
    OBVIOUS
  <2> HIDE DEF args
  <2>3. QED
    BY <2>1, <2>2, Zenon DEF configure
<1> HIDE DEF args, config
<1>4. /\ DOMAIN graph = Fields /\ SameSeries(graph, given)
      /\ graph.callbacks = <<>> /\ graph.config = config
  <2>1. PICK c : c = configure(given, args)
    OBVIOUS
  <2>2. DOMAIN c = Fields /\ SameSeries(c, given) /\ c.callbacks = <<>> /\ c.config = config
    BY <1>1, <1>3, <2>1 DEF Fields, SameSeries
  <2>3. \E a, b : graph = [[c EXCEPT !.stackedData = a] EXCEPT !.scale = b]
    BY <2>1, Zenon DEF graphInitialize, stackData, discoverRange
  <2> HIDE DEF graph
  <2>4. PICK a, b : graph = [[c EXCEPT !.stackedData = a] EXCEPT !.scale = b]
    BY <2>3
  <2>5. QED
    BY <2>2, <2>4 DEF Fields, SameSeries
<1> HIDE DEF graph
<1>5. /\ DOMAIN axes = Fields /\ SameSeries(axes, given)
      /\ axes.callbacks = <<"xAxis", "yAxis">> /\ axes.config = config
  <2>1. PICK b : b = onUpdate(graph, "xAxis")
    OBVIOUS
  <2>2. /\ DOMAIN b = Fields /\ SameSeries(b, graph) /\ b.callbacks = Append(<<>>, "xAxis")
        /\ b.config = config
    BY <1>4, <2>1, OnUpdateFacts
  <2>3. axes = onUpdate(b, "yAxis")
    BY <2>1 DEF xAxisInitialize, yAxisInitialize
  <2> HIDE DEF axes
  <2>4. /\ DOMAIN axes = Fields /\ SameSeries(axes, b) /\ axes.config = config
        /\ axes.callbacks = Append(Append(<<>>, "xAxis"), "yAxis")
    BY <2>2, <2>3, OnUpdateFacts
  <2>5. Append(Append(<<>>, "xAxis"), "yAxis") = <<"xAxis", "yAxis">>
    BY CallbackFacts
  <2>6. SameSeries(axes, given)
    BY <1>4, <2>2, <2>4 DEF SameSeries
  <2>7. QED
    BY <2>4, <2>5, <2>6
<1> HIDE DEF axes
<1>6. /\ DOMAIN hover = Fields /\ SameSeries(hover, given) /\ HoverTyped(hover)
      /\ hover.callbacks = <<"xAxis", "yAxis", "hover">> /\ hover.config = config
  <2>1. PICK a : a = [show(axes) EXCEPT !.lastEvent = NONE]
    OBVIOUS
  <2>2. /\ DOMAIN a = Fields /\ SameSeries(a, given) /\ a.visible = TRUE /\ a.lastEvent = NONE
        /\ a.callbacks = <<"xAxis", "yAxis">> /\ a.config = config
    BY <1>5, <2>1 DEF Fields, SameSeries, show
  <2>3. hover = onUpdate(a, "hover")
    BY <2>1 DEF hoverInitialize
  <2> HIDE DEF hover
  <2>4. /\ DOMAIN hover = Fields /\ SameSeries(hover, a) /\ SameHover(hover, a)
        /\ hover.callbacks = Append(<<"xAxis", "yAxis">>, "hover") /\ hover.config = config
    BY <2>2, <2>3, OnUpdateFacts
  <2>5. Append(<<"xAxis", "yAxis">>, "hover") = <<"xAxis", "yAxis", "hover">>
    BY CallbackFacts
  <2>6. SameSeries(hover, given)
    BY <2>2, <2>4 DEF SameSeries
  <2>7. HoverTyped(hover)
    BY <2>2, <2>4 DEF SameHover, HoverTyped, MouseEvents
  <2>8. QED
    BY <2>2, <2>4, <2>5, <2>6, <2>7
<1> HIDE DEF hover
<1>7. ConfigInv(hover)
  BY <1>6, Zenon DEF ConfigInv, config
<1>8. SeriesInv(hover)
  BY <1>1, <1>6, SameFacts
<1>9. hover.config.renderer.stroke = TRUE
  <2>1. hover.config.renderer = LineDefaults
    BY <1>6 DEF config
  <2>2. LineDefaults.stroke = TRUE
    BY DEF LineDefaults, RendererDefaults
  <2>3. QED
    BY <2>1, <2>2
<1> DEFINE r == render(hover)
<1>10. /\ DOMAIN r = Fields /\ SameSeries(r, hover) /\ SameConfig(r, hover)
       /\ DrawnInv(r) /\ HoverInv(r)
  BY <1>6, <1>9, RenderFacts
<1> HIDE DEF r
<1>11. SeriesInv(r) /\ ConfigInv(r)
  BY <1>7, <1>8, <1>10, SameFacts
<1>12. PICK h : h = hoverUpdate(r, FakeEvent)
  OBVIOUS
<1>13. DOMAIN h = Fields /\ SameSeries(h, r) /\ SameConfig(h, r) /\ SameDrawn(h, r)
  BY <1>10, <1>12, HoverFacts
<1>14. SeriesInv(h) /\ ConfigInv(h) /\ DrawnInv(h) /\ HoverInv(h)
  <2>1. SeriesInv(h) /\ ConfigInv(h) /\ DrawnInv(h)
    BY <1>10, <1>11, <1>13, SameFacts
  <2>2. HoverTyped(r) /\ FakeEvent \in MouseEvents
    BY <1>10 DEF HoverInv, MouseEvents
  <2>3. QED
    BY <1>10, <1>12, <2>1, <2>2, HoverShown
<1>15. Graph' = h
  BY <1>2, <1>12 DEF r
<1>16. QED
  BY <1>2, <1>13, <1>14, <1>15, Zenon

-----------------------------------------------------------------------------
(* The invariant is kept                                                   *)

\* The names a status message brings are finitely many, in any order.
LEMMA NewNamesFacts ==
  ASSUME NEW N \in SUBSET Names, NEW d \in [N -> Values], NEW g,
         NEW new \in SetToSeqs(NewNames(g, d))
  PROVE  new \in Seq(STRING)
<1> DEFINE S == NewNames(g, d)
           n == Len(SeriesInfo)
<1>1. /\ n \in Nat /\ SeriesInfo \in [1..n -> STRING]
  BY SeriesAssumption, LenProperties
<1>2. IsFiniteSet(1..n)
  BY <1>1, FS_Interval
<1>3. SeriesInfo \in Surjection(1..n, Range(SeriesInfo))
  BY <1>1 DEF Surjection, Range
<1>4. IsFiniteSet(Range(SeriesInfo))
  BY <1>2, <1>3, FS_Surjection
<1>5. IsFiniteSet(Names)
  BY <1>4, FS_Union, SeriesAssumption DEF Names
<1>6. S \subseteq Names /\ Names \subseteq STRING
  BY <1>1, SeriesAssumption DEF NewNames, Names, Range
<1> HIDE DEF S
<1>7. Cardinality(S) \in Nat
  BY <1>5, <1>6, FS_Subset, FS_CardinalityType
<1>8. new \in [1..Cardinality(S) -> S]
  BY DEF SetToSeqs, S
<1>9. new \in Seq(S)
  BY <1>7, <1>8, SeqDef
<1>10. QED
  BY <1>6, <1>9, SeqMonotonic

\* Every step keeps the invariant; one that changes the series slides the window.
LEMMA StepFacts ==
  ASSUME GraphInv, [Next]_vars
  PROVE  /\ GraphInv'
         /\ phase = "live" /\ phase' = "live" => Graph'.items = Graph.items \/ Slid(Graph', Graph)
<1>1. CASE Rickshaw_CreateGraph
  <2>1. /\ phase' = "live" /\ DOMAIN Graph' = Fields
        /\ SeriesInv(Graph') /\ ConfigInv(Graph') /\ DrawnInv(Graph') /\ HoverInv(Graph')
    BY <1>1, CreateFacts
  <2>2. phase = "none"
    BY <1>1 DEF Rickshaw_CreateGraph
  <2>3. GraphInv'
    BY <2>1, Zenon DEF GraphInv
  <2>4. QED
    BY <2>2, <2>3
<1>2. ASSUME NEW N \in SUBSET Names, NEW d \in [N -> Values],
             NEW new \in SetToSeqs(NewNames(Graph, d)), OnStatus(d, new)
      PROVE  GraphInv' /\ Slid(Graph', Graph)
  <2>1. phase = "live" /\ phase' = "live" /\ Graph' = render(addData(Graph, d, new))
    BY <1>2 DEF OnStatus
  <2>2. DOMAIN Graph = Fields /\ SeriesInv(Graph) /\ ConfigInv(Graph) /\ HoverTyped(Graph)
    BY <2>1 DEF GraphInv, HoverInv
  <2>3. new \in Seq(STRING)
    BY NewNamesFacts
  <2>4. PICK a : a = addData(Graph, d, new)
    OBVIOUS
  <2>5. /\ DOMAIN a = Fields /\ SameConfig(a, Graph) /\ SameHover(a, Graph)
        /\ SeriesInv(a) /\ Slid(a, Graph)
    BY <2>2, <2>3, <2>4, AddDataFacts
  <2>6. ConfigInv(a)
    BY <2>2, <2>5, SameFacts
  <2>7. a.callbacks = <<"xAxis", "yAxis", "hover">> /\ a.config.renderer.stroke = TRUE
    <3>1. a.config.renderer = LineDefaults
      BY <2>6 DEF ConfigInv
    <3>2. LineDefaults.stroke = TRUE
      BY DEF LineDefaults, RendererDefaults
    <3>3. QED
      BY <2>6, <3>1, <3>2 DEF ConfigInv
  <2>8. PICK h : h = render(a)
    OBVIOUS
  <2>9. DOMAIN h = Fields /\ SameSeries(h, a) /\ SameConfig(h, a) /\ DrawnInv(h) /\ HoverInv(h)
    <3>1. HoverTyped(a)
      BY <2>2, <2>5 DEF HoverTyped, SameHover
    <3>2. QED
      BY <2>5, <2>7, <2>8, <3>1, RenderFacts
  <2>10. SeriesInv(h) /\ ConfigInv(h)
    BY <2>5, <2>6, <2>9, SameFacts
  <2>11. Slid(h, Graph)
    BY <2>5, <2>9, Zenon DEF Slid, SameSeries
  <2>12. Graph' = h
    BY <2>1, <2>4, <2>8
  <2>13. QED
    BY <2>1, <2>9, <2>10, <2>11, <2>12, Zenon DEF GraphInv
<1>3. ASSUME phase = "live", phase' = "live", NEW h, Graph' = h, DOMAIN h = Fields,
             SameSeries(h, Graph), SameConfig(h, Graph), SameDrawn(h, Graph), HoverInv(h)
      PROVE  GraphInv' /\ Graph'.items = Graph.items
  <2>1. SeriesInv(Graph) /\ ConfigInv(Graph) /\ DrawnInv(Graph)
    BY <1>3 DEF GraphInv
  <2>2. SeriesInv(h) /\ ConfigInv(h) /\ DrawnInv(h)
    BY <1>3, <2>1, SameFacts
  <2>3. GraphInv'
    BY <1>3, <2>2, Zenon DEF GraphInv
  <2>4. QED
    BY <1>3, <2>3 DEF SameSeries
<1>4. ASSUME NEW e \in Events, MouseMove(e)
      PROVE  GraphInv' /\ Graph'.items = Graph.items
  <2>1. /\ phase = "live" /\ phase' = "live" /\ Graph' = hoverUpdate(show(Graph), e)
        /\ DOMAIN Graph = Fields /\ HoverTyped(Graph)
    BY <1>4 DEF MouseMove, GraphInv, HoverInv
  <2>2. PICK s : s = show(Graph)
    OBVIOUS
  <2>3. /\ DOMAIN s = Fields /\ SameSeries(s, Graph) /\ SameConfig(s, Graph) /\ SameDrawn(s, Graph)
        /\ s.visible = TRUE /\ s.lastEvent = Graph.lastEvent
    BY <2>1, <2>2 DEF show, Fields, SameSeries, SameConfig, SameDrawn
  <2>4. PICK h : h = hoverUpdate(s, e)
    OBVIOUS
  <2>5. DOMAIN h = Fields /\ SameSeries(h, s) /\ SameConfig(h, s) /\ SameDrawn(h, s)
    BY <2>3, <2>4, HoverFacts
  <2>6. SameSeries(h, Graph) /\ SameConfig(h, Graph) /\ SameDrawn(h, Graph)
    BY <2>3, <2>5 DEF SameSeries, SameConfig, SameDrawn
  <2>7. HoverInv(h)
    <3>1. HoverTyped(s) /\ e \in MouseEvents
      BY <2>1, <2>3 DEF HoverTyped, MouseEvents
    <3>2. QED
      BY <2>3, <2>4, <3>1, HoverShown
  <2>8. QED
    BY <1>3, <2>1, <2>2, <2>4, <2>5, <2>6, <2>7
<1>5. ASSUME MouseOut
      PROVE  GraphInv' /\ Graph'.items = Graph.items
  <2>1. /\ phase = "live" /\ phase' = "live" /\ Graph' = hide(Graph)
        /\ DOMAIN Graph = Fields /\ HoverTyped(Graph)
    BY <1>5 DEF MouseOut, GraphInv, HoverInv
  <2>2. PICK h : h = hide(Graph)
    OBVIOUS
  <2>3. /\ DOMAIN h = Fields /\ SameSeries(h, Graph) /\ SameConfig(h, Graph) /\ SameDrawn(h, Graph)
        /\ h.visible = FALSE /\ h.lastEvent = Graph.lastEvent
    BY <2>1, <2>2 DEF hide, Fields, SameSeries, SameConfig, SameDrawn
  <2>4. HoverInv(h)
    BY <2>1, <2>3 DEF HoverInv, HoverTyped
  <2>5. QED
    BY <1>3, <2>1, <2>2, <2>3, <2>4
<1>6. CASE Rickshaw_DestroyGraph
  <2>1. phase' = "none" /\ Graph' = NoGraph
    BY <1>6 DEF Rickshaw_DestroyGraph
  <2>2. GraphInv'
    BY <2>1, Zenon DEF GraphInv, NoGraph
  <2>3. QED
    BY <2>1, <2>2
<1>7. CASE UNCHANGED vars
  <2>1. Graph' = Graph /\ phase' = phase
    BY <1>7 DEF vars
  <2>2. GraphInv'
    BY <2>1, Zenon DEF GraphInv, NoGraph
  <2>3. QED
    BY <2>1, <2>2
<1>8. QED
  BY <1>1, <1>2, <1>4, <1>5, <1>6, <1>7, Zenon DEF Next

\* The invariant holds from the creation of a graph to its end.
LEMMA GraphInvariant == Spec => []GraphInv
<1>1. Init => GraphInv
  BY DEF Init, GraphInv
<1>2. GraphInv /\ [Next]_vars => GraphInv'
  BY StepFacts
<1>3. QED
  BY <1>1, <1>2, PTL DEF Spec

-----------------------------------------------------------------------------
(* The point under the mouse: HoverDetail's guess and walk                 *)

\* Division rounds down.
LEMMA DivFacts ==
  ASSUME NEW a \in Nat, NEW b \in Nat \ {0}
  PROVE  /\ a \div b \in Int /\ b * (a \div b) <= a /\ a < b * (a \div b) + b
OBVIOUS

\* Order is kept by a factor.
LEMMA Mono ==
  ASSUME NEW a \in Int, NEW b \in Int, NEW w \in Nat, a <= b
  PROVE  a * w <= b * w
OBVIOUS

\* The guess of HoverDetail before its correction: an index of the series, and the last
\* one at the right edge.
LEMMA Round ==
  ASSUME NEW n \in Nat, n >= 2, NEW pos \in 0..Width
  PROVE  /\ (2 * pos * (n - 1) + Width) \div (2 * Width) \in 0..(n - 1)
         /\ pos = Width => (2 * pos * (n - 1) + Width) \div (2 * Width) = n - 1
<1>1. PICK m \in Nat : m = n - 1
  OBVIOUS
<1>2. PICK w \in Nat : w = Width /\ w > 0
  BY WidthAssumption
<1>3. pos * m \in Nat /\ pos * m <= w * m
  BY Mono, <1>2
<1>4. PICK p \in Nat : p = pos * m
  BY <1>3, Zenon
<1>5. 2 * pos * (n - 1) + Width = 2 * p + w /\ 2 * Width = 2 * w
  BY <1>1, <1>2, <1>4
<1>6. PICK q \in Int : q = (2 * p + w) \div (2 * w)
  <2>1. 2 * p + w \in Nat /\ 2 * w \in Nat \ {0}
    BY <1>2, <1>4
  <2>2. (2 * p + w) \div (2 * w) \in Int
    BY <2>1
  <2>3. QED
    BY <2>2, Zenon
<1>7. 2 * w * q <= 2 * p + w /\ 2 * p + w < 2 * w * q + 2 * w
  <2>1. 2 * p + w \in Nat /\ 2 * w \in Nat \ {0}
    BY <1>2, <1>4
  <2>2. PICK a \in Nat, b \in Nat \ {0} : a = 2 * p + w /\ b = 2 * w
    BY <2>1, Zenon
  <2>3. q = a \div b
    BY <1>6, <2>2
  <2>4. b * q <= a /\ a < b * q + b
    BY <2>2, <2>3, DivFacts
  <2>5. QED
    BY <1>2, <1>4, <1>6, <2>2, <2>4
<1>8. q >= 0
  <2>1. SUFFICES ASSUME q <= -1 PROVE FALSE
    BY <1>6
  <2>2. q * w <= (-1) * w
    BY <1>2, <1>6, <2>1, Mono
  <2>3. QED
    BY <1>2, <1>4, <1>6, <1>7, <2>2
<1>9. q <= m
  <2>1. SUFFICES ASSUME m + 1 <= q PROVE FALSE
    BY <1>1, <1>6
  <2>2. (m + 1) * w <= q * w
    BY <1>1, <1>2, <1>6, <2>1, Mono
  <2>3. p <= w * m
    BY <1>3, <1>4
  <2>4. QED
    BY <1>1, <1>2, <1>4, <1>6, <1>7, <2>2, <2>3
<1>10. pos = Width => q >= m
  <2>1. SUFFICES ASSUME pos = Width, q + 1 <= m PROVE FALSE
    BY <1>1, <1>6
  <2>2. (q + 1) * w <= m * w
    BY <1>1, <1>2, <1>6, <2>1, Mono
  <2>3. p = w * m
    BY <1>2, <1>4, <2>1
  <2>4. QED
    BY <1>1, <1>2, <1>4, <1>6, <1>7, <2>2, <2>3
<1>11. (2 * pos * (n - 1) + Width) \div (2 * Width) = q
  BY <1>5, <1>6
<1>12. QED
  BY <1>1, <1>6, <1>8, <1>9, <1>10, <1>11
\* Every set of numbers that is not empty has a least one.
LEMMA Least ==
  ASSUME NEW S \in SUBSET Nat, S # {}
  PROVE  \E x \in S : \A y \in S : x <= y
<1> DEFINE R == {ss \in Nat \X Nat : ss[1] < ss[2]}
<1>1. PICK x \in S : \A y \in S : <<y, x>> \notin R
  <2>1. IsWellFoundedOn(R, Nat)
    BY NatLessThanWellFounded, Zenon DEF OpToRel
  <2> HIDE DEF R
  <2>2. QED
    BY <2>1, WFMin
<1>2. ASSUME NEW y \in S
      PROVE  x <= y
  <2>1. y \in Nat /\ x \in Nat /\ <<y, x>>[1] = y /\ <<y, x>>[2] = x
    OBVIOUS
  <2>2. ~(<<y, x>>[1] < <<y, x>>[2])
    BY <1>1, <2>1, Zenon
  <2>3. QED
    BY <2>1, <2>2
<1>3. QED
  BY <1>2

\* The place of a point on the scale of the mouse, and the guess of HoverDetail.
At(data, i) == data[i + 1].x * Width
Guess(n, pos) ==
  LET round == (2 * pos * (n - 1) + Width) \div (2 * Width)
  IN IF round = n - 1 THEN round - 1 ELSE round

\* The last point that is not right of the mouse.
LastLeft(data, dX, t) ==
  /\ t \in 0..(Len(data) - 1) /\ At(data, t) <= dX
  /\ \A i \in 0..(Len(data) - 2) : IF i < t THEN At(data, i + 1) <= dX ELSE At(data, i + 1) > dX

\* The walk from the guess ends at that point, or its neighbour if this is nearer; where
\* no point is right of the mouse it leaves the series, and the guess is taken.
LEMMA HoverWalk ==
  ASSUME NEW data \in Seq(Points), Len(data) >= 2, NEW dX \in Int, NEW pos \in 0..Width,
         NEW t, LastLeft(data, dX, t)
  PROVE  HoverIndex(data, dX, pos) =
           IF t = Len(data) - 1 THEN Guess(Len(data), pos)
           ELSE IF dX - At(data, t) < At(data, t + 1) - dX THEN t ELSE t + 1
<1> DEFINE n == Len(data)
           start == Min({Guess(n, pos), n - 1})
           near(i) == IF dX - At(data, i) < At(data, i + 1) - dX THEN i ELSE i + 1
           step(i) == IF At(data, i + 1) <= dX THEN i + 1 ELSE i - 1
           found(i) == i \in 0..(n - 2) /\ At(data, i) <= dX /\ At(data, i + 1) > dX
           value(w, i) == CASE i < 0 \/ i >= n - 1 -> start
                            [] found(i) -> near(i)
                            [] OTHER -> w[step(i)]
           body(w) == [i \in -1..n |-> value(w, i)]
           walk == CHOOSE w : w = body(w)
           f == [i \in -1..n |-> IF i \in 0..(n - 2) /\ t <= n - 2 THEN near(t) ELSE start]
<1>1. n \in Nat /\ n >= 2 /\ t \in 0..(n - 1)
  BY LenProperties DEF LastLeft
<1>2. start = Guess(n, pos) /\ start \in 0..(n - 2)
  <2>1. (2 * pos * (n - 1) + Width) \div (2 * Width) \in 0..(n - 1)
    BY <1>1, Round
  <2> HIDE DEF n
  <2>2. Guess(n, pos) \in 0..(n - 2)
    BY <1>1, <2>1 DEF Guess
  <2>3. PICK a \in 0..(n - 2) : a = Guess(n, pos)
    BY <2>2, Zenon
  <2>4. Min({a, n - 1}) = a
    BY <1>1 DEF Min
  <2>5. QED
    BY <2>3, <2>4
<1>3. \A i \in 0..(n - 1) : At(data, i) \in Int
  <2>1. \A i \in 0..(n - 1) : data[i + 1] \in Points
    BY <1>1, ElementOfSeq
  <2>2. ASSUME NEW i \in 0..(n - 1)
        PROVE  data[i + 1].x * Width \in Int
    BY <2>1, WidthAssumption DEF Points
  <2>3. QED
    BY <2>2 DEF At
<1>4. /\ At(data, t) <= dX
      /\ \A i \in 0..(n - 2) : IF i < t THEN At(data, i + 1) <= dX ELSE At(data, i + 1) > dX
  BY DEF LastLeft
<1> HIDE DEF n, start
<1>5. ASSUME NEW i \in 0..(n - 2)
      PROVE  found(i) <=> i = t
  <2>1. CASE i < t
    <3>1. At(data, i + 1) <= dX /\ At(data, i + 1) \in Int
      BY <1>1, <1>3, <1>4, <2>1
    <3>2. QED
      BY <2>1, <3>1
  <2>2. CASE i = t
    BY <1>4, <2>2
  <2>3. CASE i > t
    <3>1. PICK j \in 0..(n - 2) : j = i - 1 /\ ~(j < t) /\ j + 1 = i
      BY <1>1, <2>3
    <3>2. At(data, j + 1) > dX
      BY <1>4, <3>1
    <3>3. At(data, i) > dX /\ At(data, i) \in Int
      BY <1>1, <1>3, <3>1, <3>2
    <3>4. QED
      BY <2>3, <3>3
  <2>4. QED
    BY <1>1, <2>1, <2>2, <2>3
<1>6. ASSUME NEW i \in 0..(n - 2), i # t
      PROVE  step(i) = IF i < t THEN i + 1 ELSE i - 1
  <2>1. At(data, i + 1) \in Int
    BY <1>1, <1>3
  <2>2. QED
    BY <1>1, <1>4, <1>6, <2>1
<1> HIDE DEF step, found, near
<1>7. ASSUME NEW w, NEW i \in -1..n
      PROVE  value(w, i) = IF i \notin 0..(n - 2) THEN start
                           ELSE IF i = t THEN near(t) ELSE w[IF i < t THEN i + 1 ELSE i - 1]
  <2>1. CASE i \notin 0..(n - 2)
    <3>1. i < 0 \/ i >= n - 1
      BY <1>1, <2>1
    <3>2. ~found(i)
      BY <2>1 DEF found
    <3>3. QED
      BY <2>1, <3>1, <3>2
  <2>2. CASE i \in 0..(n - 2) /\ i = t
    <3>1. ~(i < 0 \/ i >= n - 1)
      BY <1>1, <2>2
    <3>2. found(i)
      BY <1>5, <2>2
    <3>3. QED
      BY <2>2, <3>1, <3>2
  <2>3. CASE i \in 0..(n - 2) /\ i # t
    <3>1. ~(i < 0 \/ i >= n - 1)
      BY <1>1, <2>3
    <3>2. ~found(i)
      BY <1>5, <2>3
    <3>3. step(i) = IF i < t THEN i + 1 ELSE i - 1
      BY <1>6, <2>3
    <3>4. value(w, i) = w[step(i)]
      BY <2>3, <3>1, <3>2
    <3>5. QED
      BY <2>3, <3>3, <3>4
  <2>4. QED
    BY <2>1, <2>2, <2>3
<1> HIDE DEF value
<1>8. f = body(f)
  <2>1. ASSUME NEW i \in -1..n
        PROVE  f[i] = value(f, i)
    <3>1. CASE i \notin 0..(n - 2) \/ i = t
      BY <1>1, <1>7, <3>1
    <3>2. CASE i \in 0..(n - 2) /\ i # t
      <4>1. PICK j \in -1..n : j = IF i < t THEN i + 1 ELSE i - 1
        BY <1>1, <3>2
      <4>2. t <= n - 2 => j \in 0..(n - 2)
        BY <1>1, <3>2, <4>1
      <4>3. f[i] = f[j]
        BY <3>2, <4>1, <4>2
      <4>4. value(f, i) = f[j]
        BY <1>7, <3>2, <4>1
      <4>5. QED
        BY <4>3, <4>4
    <3>3. QED
      BY <3>1, <3>2
  <2>2. QED
    BY <2>1
<1>9. walk = body(walk)
  <2> HIDE DEF body, f
  <2>1. QED
    BY <1>8
<1> HIDE DEF walk
<1>10. /\ \A i \in -1..n : walk[i] = value(walk, i)
       /\ \A i \in -1..n : f[i] = value(f, i)
  <2> HIDE DEF f
  <2>1. QED
    BY <1>8, <1>9
<1>11. \A i \in -1..n : walk[i] = f[i]
  <2> HIDE DEF f, body
  <2> DEFINE d(i) == IF i < t THEN t - i ELSE i - t
             Bad == {m \in Nat : \E i \in -1..n : d(i) = m /\ walk[i] # f[i]}
  <2>1. SUFFICES ASSUME NEW i \in -1..n, walk[i] # f[i]
                 PROVE  FALSE
    OBVIOUS
  <2>2. d(i) \in Bad
    BY <1>1, <2>1
  <2>3. PICK m \in Bad : \A k \in Bad : m <= k
    <3>1. Bad \in SUBSET Nat /\ Bad # {}
      BY <2>2
    <3> HIDE DEF Bad
    <3>2. QED
      BY <3>1, Least
  <2>4. PICK k \in -1..n : d(k) = m /\ walk[k] # f[k]
    BY <2>3
  <2>5. k \in 0..(n - 2) /\ k # t
    BY <1>7, <1>10, <2>4
  <2>6. PICK j \in -1..n : j = IF k < t THEN k + 1 ELSE k - 1
    BY <1>1, <2>5
  <2>7. walk[j] # f[j]
    BY <1>7, <1>10, <2>4, <2>5, <2>6
  <2>8. d(j) \in Nat /\ d(j) < m
    BY <1>1, <2>4, <2>5, <2>6
  <2>9. d(j) \in Bad
    BY <2>7, <2>8
  <2>10. QED
    BY <2>3, <2>8, <2>9
<1>12. HoverIndex(data, dX, pos) = Max({0, walk[Guess(n, pos)]})
  <2>1. pos # NaN
    BY DEF NaN
  <2>2. HoverIndex(data, dX, pos) = IF pos = NaN THEN 0 ELSE Max({0, walk[Guess(n, pos)]})
    BY Zenon DEF HoverIndex, walk, body, value, found, near, step, start, n, Guess, At
  <2>3. QED
    BY <2>1, <2>2, Zenon
<1>13. walk[Guess(n, pos)] = IF t = n - 1 THEN Guess(n, pos) ELSE near(t)
  <2>1. Guess(n, pos) \in -1..n /\ Guess(n, pos) \in 0..(n - 2)
    BY <1>1, <1>2
  <2>2. walk[Guess(n, pos)] = f[Guess(n, pos)]
    BY <1>11, <2>1
  <2>3. QED
    BY <1>1, <1>2, <2>1, <2>2
<1>14. PICK r \in Nat : r = IF t = n - 1 THEN Guess(n, pos) ELSE near(t)
  <2>1. near(t) \in Nat /\ Guess(n, pos) \in Nat
    BY <1>1, <1>2 DEF near
  <2>2. QED
    BY <2>1
<1>15. Max({0, r}) = r
  BY DEF Max
<1>16. QED
  BY <1>12, <1>13, <1>14, <1>15 DEF n, near

\* The times of a series in their order.
Sorted(data) == \A k, l \in DOMAIN data : k <= l => data[k].x <= data[l].x

\* So their places are.
LEMMA PlacesSorted ==
  ASSUME NEW data \in Seq(Points), Sorted(data)
  PROVE  /\ \A i \in 0..(Len(data) - 1) : At(data, i) \in Int
         /\ \A i, j \in 0..(Len(data) - 1) : i <= j => At(data, i) <= At(data, j)
<1> DEFINE n == Len(data)
<1>1. n \in Nat /\ DOMAIN data = 1..n /\ \A k \in 1..n : data[k].x \in Int
  <2>1. n \in Nat /\ DOMAIN data = 1..n
    BY LenProperties
  <2>2. \A k \in 1..n : data[k] \in Points
    BY <2>1, ElementOfSeq
  <2>3. QED
    BY <2>1, <2>2 DEF Points
<1> HIDE DEF n
<1>2. ASSUME NEW i \in 0..(n - 1)
      PROVE  At(data, i) \in Int
  <2>1. i + 1 \in 1..n
    BY <1>1
  <2>2. QED
    BY <1>1, <2>1, WidthAssumption DEF At
<1>3. ASSUME NEW i \in 0..(n - 1), NEW j \in 0..(n - 1), i <= j
      PROVE  At(data, i) <= At(data, j)
  <2>1. i + 1 \in 1..n /\ j + 1 \in 1..n /\ i + 1 <= j + 1
    BY <1>1, <1>3
  <2>2. data[i + 1].x <= data[j + 1].x /\ data[i + 1].x \in Int /\ data[j + 1].x \in Int
    BY <1>1, <2>1 DEF Sorted
  <2>3. PICK a \in Int, b \in Int : a = data[i + 1].x /\ b = data[j + 1].x /\ a <= b
    BY <2>2
  <2>4. a * Width <= b * Width
    BY <2>3, Mono, WidthAssumption
  <2>5. QED
    BY <2>3, <2>4 DEF At
<1>4. QED
  BY <1>2, <1>3 DEF n

\* Unless the mouse is left of the chart, there is a last point that is not right of it.
LEMMA LastLeftExists ==
  ASSUME NEW data \in Seq(Points), Len(data) >= 2, Sorted(data), NEW dX \in Int,
         At(data, 0) <= dX
  PROVE  \E t \in Nat : LastLeft(data, dX, t)
<1> DEFINE n == Len(data)
           S == {k \in 1..n : k = n \/ At(data, k) > dX}
<1>1. n \in Nat /\ n >= 2
  BY LenProperties
<1>2. /\ \A i \in 0..(n - 1) : At(data, i) \in Int
      /\ \A i, j \in 0..(n - 1) : i <= j => At(data, i) <= At(data, j)
  BY PlacesSorted
<1> HIDE DEF n
<1>3. PICK k \in S : \A l \in S : k <= l
  <2>1. S \in SUBSET Nat /\ n \in S
    BY <1>1
  <2> HIDE DEF S
  <2>2. QED
    BY <2>1, Least
<1>4. PICK t \in 0..(n - 1) : t + 1 = k
  <2>1. k - 1 \in 0..(n - 1) /\ (k - 1) + 1 = k
    BY <1>1, <1>3
  <2>2. QED
    BY <2>1
<1>5. At(data, t) <= dX
  <2>1. CASE t = 0
    BY <2>1
  <2>2. CASE t # 0
    <3>1. t \in 1..n /\ ~(k <= t)
      BY <1>1, <1>4, <2>2
    <3>2. ~(At(data, t) > dX)
      BY <1>3, <3>1
    <3>3. QED
      BY <1>2, <3>2
  <2>3. QED
    BY <2>1, <2>2
<1>6. ASSUME NEW i \in 0..(n - 2)
      PROVE  IF i < t THEN At(data, i + 1) <= dX ELSE At(data, i + 1) > dX
  <2>1. i + 1 \in 0..(n - 1) /\ At(data, i + 1) \in Int /\ At(data, t) \in Int
    BY <1>1, <1>2
  <2>2. CASE i < t
    <3>1. At(data, i + 1) <= At(data, t)
      BY <1>1, <1>2, <2>1, <2>2
    <3>2. QED
      BY <1>5, <2>1, <2>2, <3>1
  <2>3. CASE ~(i < t)
    <3>1. k # n /\ k \in 0..(n - 1) /\ k <= i + 1
      BY <1>1, <1>4, <2>3
    <3>2. At(data, k) > dX /\ At(data, k) <= At(data, i + 1) /\ At(data, k) \in Int
      BY <1>2, <1>3, <2>1, <3>1
    <3>3. QED
      BY <2>1, <2>3, <3>2
  <2>4. QED
    BY <2>2, <2>3
<1>7. LastLeft(data, dX, t)
  BY <1>5, <1>6 DEF LastLeft, n
<1>8. QED
  BY <1>1, <1>7

\* How far a place is from the mouse.
Gap(a, dX) == IF a - dX < 0 THEN -(a - dX) ELSE a - dX

\* The nearer of the last point left of the mouse and its neighbour is the nearest of all.
LEMMA NearestFacts ==
  ASSUME NEW data \in Seq(Points), Sorted(data), NEW dX \in Int,
         NEW t, LastLeft(data, dX, t), t <= Len(data) - 2,
         NEW r, r = IF dX - At(data, t) < At(data, t + 1) - dX THEN t ELSE t + 1
  PROVE  /\ r \in 0..(Len(data) - 1)
         /\ \A i \in 0..(Len(data) - 1) : Gap(At(data, r), dX) <= Gap(At(data, i), dX)
<1> DEFINE n == Len(data)
<1>1. n \in Nat /\ t \in 0..(n - 1) /\ t <= n - 2
  BY LenProperties DEF LastLeft
<1>2. /\ \A i \in 0..(n - 1) : At(data, i) \in Int
      /\ \A i, j \in 0..(n - 1) : i <= j => At(data, i) <= At(data, j)
  BY PlacesSorted
<1>3. At(data, t) <= dX /\ At(data, t + 1) > dX
  BY <1>1 DEF LastLeft
<1> HIDE DEF n
<1>4. t + 1 \in 0..(n - 1) /\ r \in 0..(n - 1)
  BY <1>1
<1>5. PICK a \in Int, b \in Int : a = At(data, t) /\ b = At(data, t + 1)
  BY <1>2, <1>4, <1>1
<1>6. ASSUME NEW i \in 0..(n - 1)
      PROVE  Gap(At(data, r), dX) <= Gap(At(data, i), dX)
  <2>1. PICK c \in Int : c = At(data, i)
    BY <1>2
  <2>2. c <= a \/ c >= b
    <3>1. i <= t \/ t + 1 <= i
      BY <1>1
    <3>2. At(data, i) <= At(data, t) \/ At(data, t + 1) <= At(data, i)
      BY <1>1, <1>2, <1>4, <3>1
    <3>3. QED
      BY <1>5, <2>1, <3>2
  <2>3. At(data, r) = IF dX - a < b - dX THEN a ELSE b
    BY <1>5
  <2>4. a <= dX /\ b > dX
    BY <1>3, <1>5
  <2>5. Gap(IF dX - a < b - dX THEN a ELSE b, dX) <= Gap(c, dX)
    BY <2>2, <2>4 DEF Gap
  <2>6. QED
    BY <2>1, <2>3, <2>5
<1>7. QED
  BY <1>4, <1>6 DEF n

\* The mouse is left of the end of an interval, unless it is at its edge or the interval
\* is a point.
LEMMA LeftOfEnd ==
  ASSUME NEW a \in Int, NEW b \in Int, NEW w \in Nat, NEW pos \in 0..w, pos # w, a <= b,
         b * w <= a * w + (b - a) * pos
  PROVE  a = b
<1>1. PICK d \in Nat : d = b - a
  OBVIOUS
<1>2. PICK v \in Nat : v = w - pos /\ v > 0
  OBVIOUS
<1>3. b * w = a * w + d * w /\ d * w = d * pos + d * v
  <2>1. b = a + d /\ w = pos + v
    BY <1>1, <1>2
  <2>2. QED
    BY <2>1
<1>4. d * v <= 0
  BY <1>1, <1>3
<1>5. d = 0
  BY <1>2, <1>4
<1>6. QED
  BY <1>1, <1>5

\* The point that an update takes from a series.
Nearest(data, dX, pos, p) ==
  IF pos = Width THEN p = data[Len(data) - 1]
  ELSE /\ p \in Range(data)
       /\ \A k \in DOMAIN data : Gap(p.x * Width, dX) <= Gap(data[k].x * Width, dX)

\* With the mouse in the chart, the nearest point of the series is found, but for the
\* right edge, where it is the last but one.
LEMMA PointFound ==
  ASSUME NEW data \in Seq(Points), Len(data) >= 2, Sorted(data), NEW pos \in 0..Width,
         NEW dX, dX = data[1].x * Width + (data[Len(data)].x - data[1].x) * pos
  PROVE  /\ \E t \in Nat : LastLeft(data, dX, t)
         /\ HoverIndex(data, dX, pos) + 1 \in DOMAIN data
         /\ Nearest(data, dX, pos, data[HoverIndex(data, dX, pos) + 1])
<1> DEFINE n == Len(data)
           r == HoverIndex(data, dX, pos)
<1>1. n \in Nat /\ n >= 2 /\ DOMAIN data = 1..n
  BY LenProperties
<1>2. /\ \A i \in 0..(n - 1) : At(data, i) \in Int
      /\ \A i, j \in 0..(n - 1) : i <= j => At(data, i) <= At(data, j)
  BY PlacesSorted
<1>3. PICK a \in Int, b \in Int : a = data[1].x /\ b = data[n].x /\ a <= b
  <2>1. data[1] \in Points /\ data[n] \in Points
    BY <1>1, ElementOfSeq
  <2>2. 1 \in DOMAIN data /\ n \in DOMAIN data /\ 1 <= n
    BY <1>1
  <2>3. data[1].x <= data[n].x
    BY <2>2 DEF Sorted
  <2>4. QED
    BY <2>1, <2>3 DEF Points
<1>4. PICK w \in Nat : w = Width /\ w > 0
  BY WidthAssumption
<1>5. dX = a * w + (b - a) * pos
  BY <1>3, <1>4
<1>6. dX \in Int
  BY <1>3, <1>4, <1>5
<1>7. At(data, 0) = a * w /\ At(data, n - 1) = b * w
  BY <1>1, <1>3, <1>4 DEF At
<1>8. At(data, 0) <= dX
  <2>1. PICK d \in Nat : d = b - a
    BY <1>3
  <2>2. d * pos >= 0 /\ d * pos \in Int /\ a * w \in Int
    BY <1>3, <1>4, WidthAssumption
  <2>3. QED
    BY <1>3, <1>5, <1>7, <2>1, <2>2
<1>9. PICK t \in Nat : LastLeft(data, dX, t)
  BY <1>1, <1>6, <1>8, LastLeftExists
<1>10. r = IF t = n - 1 THEN Guess(n, pos)
           ELSE IF dX - At(data, t) < At(data, t + 1) - dX THEN t ELSE t + 1
  <2>1. dX \in Int /\ LastLeft(data, dX, t)
    BY <1>6, <1>9
  <2> HIDE DEF r
  <2>2. HoverIndex(data, dX, pos) =
          IF t = Len(data) - 1 THEN Guess(Len(data), pos)
          ELSE IF dX - At(data, t) < At(data, t + 1) - dX THEN t ELSE t + 1
    BY <2>1, HoverWalk
  <2>3. QED
    BY <2>2, Zenon DEF r
<1>11. t \in 0..(n - 1)
  BY <1>9 DEF LastLeft
<1>12. \A i \in 0..(n - 1) : i + 1 \in DOMAIN data /\ At(data, i) = data[i + 1].x * Width
  BY <1>1 DEF At
<1> HIDE DEF r, n
<1>13. CASE t = n - 1
  <2>1. Guess(n, pos) \in 0..(n - 2) /\ (pos = Width => Guess(n, pos) = n - 2)
    <3>1. /\ (2 * pos * (n - 1) + Width) \div (2 * Width) \in 0..(n - 1)
          /\ pos = Width => (2 * pos * (n - 1) + Width) \div (2 * Width) = n - 1
      BY <1>1, Round
    <3>2. QED
      BY <1>1, <3>1 DEF Guess
  <2>2. r \in 0..(n - 2) /\ (pos = Width => r = n - 2)
    BY <1>10, <1>13, <2>1
  <2>3. r \in 0..(n - 1) /\ r + 1 \in DOMAIN data
    BY <1>1, <2>2
  <2>4. CASE pos = Width
    <3>1. r + 1 = n - 1
      BY <1>1, <2>2, <2>4
    <3>2. data[r + 1] = data[n - 1]
      BY <3>1
    <3>3. Nearest(data, dX, pos, data[r + 1])
      BY <2>4, <3>2 DEF Nearest, n
    <3>4. QED
      BY <1>9, <2>3, <3>3 DEF r
  <2>5. CASE pos # Width
    <3>1. b * w <= a * w + (b - a) * pos
      BY <1>5, <1>7, <1>9, <1>13 DEF LastLeft
    <3>2. a = b
      <4>1. pos \in 0..w /\ pos # w
        BY <1>4, <2>5
      <4>2. QED
        BY <1>3, <3>1, <4>1, LeftOfEnd
    <3>3. \A i \in 0..(n - 1) : At(data, i) = a * w
      <4>1. ASSUME NEW i \in 0..(n - 1)
            PROVE  At(data, i) = a * w
        <5>1. At(data, 0) <= At(data, i) /\ At(data, i) <= At(data, n - 1) /\ At(data, i) \in Int
          BY <1>1, <1>2
        <5>2. PICK c \in Int : c = a * w
          BY <1>3, <1>4
        <5>3. QED
          BY <1>7, <3>2, <5>1, <5>2
      <4>2. QED
        BY <4>1
    <3>4. \A k \in DOMAIN data : data[k].x * Width = a * w
      <4>1. ASSUME NEW k \in 1..n
            PROVE  data[k].x * Width = a * w
        <5>1. PICK i \in 0..(n - 1) : i + 1 = k
          <6>1. k - 1 \in 0..(n - 1) /\ (k - 1) + 1 = k
            BY <1>1
          <6>2. QED
            BY <6>1
        <5>2. QED
          BY <1>12, <3>3, <5>1
      <4>2. QED
        BY <1>1, <4>1
    <3>5. \A k \in DOMAIN data : Gap(data[r + 1].x * Width, dX) <= Gap(data[k].x * Width, dX)
      <4>1. PICK c \in Int : c = a * w
        BY <1>3, <1>4
      <4>2. Gap(c, dX) \in Int
        BY <1>6 DEF Gap
      <4>3. \A k \in DOMAIN data : data[k].x * Width = c
        BY <3>4, <4>1
      <4>4. QED
        BY <2>3, <4>2, <4>3
    <3>6. data[r + 1] \in Range(data)
      BY <2>3 DEF Range
    <3>7. QED
      BY <1>9, <2>3, <2>5, <3>5, <3>6 DEF Nearest, r
  <2>6. QED
    BY <2>4, <2>5
<1>14. CASE t # n - 1
  <2>1. t <= n - 2
    BY <1>1, <1>11, <1>14
  <2>2. pos # Width
    <3>1. SUFFICES ASSUME pos = Width
                   PROVE  FALSE
      OBVIOUS
    <3>2. dX = b * w
      BY <1>3, <1>4, <1>5, <3>1
    <3>3. At(data, n - 1) > dX
      <4>1. PICK i \in 0..(n - 2) : i + 1 = n - 1 /\ ~(i < t)
        <5>1. n - 2 \in 0..(n - 2) /\ (n - 2) + 1 = n - 1 /\ ~(n - 2 < t)
          BY <1>1, <1>11, <2>1
        <5>2. QED
          BY <5>1
      <4>2. At(data, i + 1) > dX
        BY <1>9, <4>1 DEF LastLeft, n
      <4>3. QED
        BY <4>1, <4>2
    <3>4. QED
      BY <1>6, <1>7, <3>2, <3>3
  <2>3. /\ r \in 0..(n - 1)
        /\ \A i \in 0..(n - 1) : Gap(At(data, r), dX) <= Gap(At(data, i), dX)
    <3>1. r = IF dX - At(data, t) < At(data, t + 1) - dX THEN t ELSE t + 1
      BY <1>10, <1>14
    <3>2. QED
      BY <1>6, <1>9, <2>1, <3>1, NearestFacts DEF n
  <2>4. \A k \in DOMAIN data : Gap(data[r + 1].x * Width, dX) <= Gap(data[k].x * Width, dX)
    <3>1. ASSUME NEW k \in 1..n
          PROVE  Gap(data[r + 1].x * Width, dX) <= Gap(data[k].x * Width, dX)
      <4>1. PICK i \in 0..(n - 1) : i + 1 = k
        <5>1. k - 1 \in 0..(n - 1) /\ (k - 1) + 1 = k
          BY <1>1
        <5>2. QED
          BY <5>1
      <4>2. At(data, r) = data[r + 1].x * Width /\ At(data, i) = data[k].x * Width
        BY <1>12, <2>3, <4>1
      <4>3. QED
        BY <2>3, <4>1, <4>2
    <3>2. QED
      BY <1>1, <3>1
  <2>5. r + 1 \in DOMAIN data /\ data[r + 1] \in Range(data)
    BY <1>12, <2>3 DEF Range
  <2>6. QED
    BY <1>9, <2>2, <2>4, <2>5 DEF Nearest, r
<1>15. QED
  BY <1>13, <1>14

\* Series with the same times give the same index.
LEMMA SameIndex ==
  ASSUME NEW data \in Seq(Points), NEW other \in Seq(Points), Len(data) >= 2,
         Len(other) = Len(data), \A k \in 1..Len(data) : other[k].x = data[k].x,
         NEW dX \in Int, NEW pos \in 0..Width, NEW t \in Nat, LastLeft(data, dX, t)
  PROVE  HoverIndex(other, dX, pos) = HoverIndex(data, dX, pos)
<1>1. Len(data) \in Nat /\ t \in 0..(Len(data) - 1)
  BY LenProperties DEF LastLeft
<1>2. \A i \in 0..(Len(data) - 1) : At(other, i) = At(data, i)
  <2>1. ASSUME NEW i \in 0..(Len(data) - 1)
        PROVE  At(other, i) = At(data, i)
    <3>1. i + 1 \in 1..Len(data)
      BY <1>1
    <3>2. QED
      BY <3>1, Zenon DEF At
  <2>2. QED
    BY <2>1
<1>3. LastLeft(other, dX, t)
  <2>1. \A i \in 0..(Len(data) - 2) : At(other, i + 1) = At(data, i + 1)
    BY <1>1, <1>2
  <2>2. QED
    BY <1>1, <1>2, <2>1 DEF LastLeft
<1>4. HoverIndex(data, dX, pos) =
        IF t = Len(data) - 1 THEN Guess(Len(data), pos)
        ELSE IF dX - At(data, t) < At(data, t + 1) - dX THEN t ELSE t + 1
  BY HoverWalk
<1>5. HoverIndex(other, dX, pos) =
        IF t = Len(other) - 1 THEN Guess(Len(other), pos)
        ELSE IF dX - At(other, t) < At(other, t + 1) - dX THEN t ELSE t + 1
  BY <1>3, HoverWalk
<1>6. t # Len(data) - 1 => At(other, t) = At(data, t) /\ At(other, t + 1) = At(data, t + 1)
  BY <1>1, <1>2
<1>7. QED
  BY <1>4, <1>5, <1>6

\* The scale goes from the first to the last time of every series.
LEMMA ScaleFacts ==
  ASSUME NEW g, SeriesInv(g), DrawnInv(g), NEW i \in 1..Len(g.items)
  PROVE  LET data == g.items[i].data
         IN /\ data \in Seq(Points) /\ Len(data) = g.currentSize /\ Len(data) >= 2
            /\ DOMAIN data = 1..Len(data) /\ Sorted(data)
            /\ g.scale.x = <<data[1].x, data[Len(data)].x>>
            /\ \A k \in 1..Len(data) : data[k].x = g.items[1].data[k].x
<1> DEFINE m == Len(g.items)
           n == g.currentSize
           at(k) == Time(g.currentIndex - n + k)
           d(j) == g.items[j].data
<1>1. /\ g.items \in Seq(Items) /\ m \in Nat /\ m >= 1 /\ DOMAIN g.items = 1..m
      /\ n \in Nat /\ n >= 2 /\ g.currentIndex \in Nat /\ g.currentIndex >= n
  <2>1. g.items \in Seq(Items) /\ m \in Nat /\ m >= 1 /\ DOMAIN g.items = 1..m
    BY LenProperties, EmptySeq DEF SeriesInv
  <2>2. n \in Nat /\ n >= 2 /\ g.currentIndex \in Nat /\ g.currentIndex >= n
    BY PointsAssumption DEF SeriesInv
  <2>3. QED
    BY <2>1, <2>2
<1>2. ASSUME NEW j \in 1..m
      PROVE  /\ d(j) \in Seq(Points) /\ Len(d(j)) = n /\ DOMAIN d(j) = 1..n
             /\ \A k \in 1..n : d(j)[k].x = at(k)
  <2>1. g.items[j] \in Items
    BY <1>1, ElementOfSeq
  <2>2. d(j) \in Seq(Points)
    BY <2>1 DEF Items
  <2>3. Len(d(j)) = n /\ \A k \in 1..n : d(j)[k].x = at(k)
    BY DEF SeriesInv
  <2>4. DOMAIN d(j) = 1..Len(d(j))
    BY <2>2, LenProperties
  <2>5. QED
    BY <2>2, <2>3, <2>4
<1>3. \A k, l \in 1..n : at(k) \in Int /\ (k <= l => at(k) <= at(l))
  BY <1>1, PointsAssumption DEF Time
<1>4. g.scale.x = <<Min({d(j)[1].x : j \in 1..m}), Max({Last(d(j)).x : j \in 1..m})>>
  <2>1. g.stackedData = [j \in 1..m |-> d(j)] /\ g.scale = domain(g, g.stackedData)
    BY <1>1 DEF DrawnInv
  <2>2. DOMAIN g.stackedData = 1..m /\ \A j \in 1..m : g.stackedData[j] = d(j)
    BY <2>1
  <2>3. domain(g, g.stackedData).x =
          <<Min({g.stackedData[j][1].x : j \in DOMAIN g.stackedData}),
            Max({Last(g.stackedData[j]).x : j \in DOMAIN g.stackedData})>>
    BY DEF domain
  <2> HIDE DEF m, d
  <2>4. /\ {g.stackedData[j][1].x : j \in DOMAIN g.stackedData} = {d(j)[1].x : j \in 1..m}
        /\ {Last(g.stackedData[j]).x : j \in DOMAIN g.stackedData} = {Last(d(j)).x : j \in 1..m}
    BY <2>2
  <2>5. QED
    BY <2>1, <2>3, <2>4
<1> HIDE DEF m, n, d, at
<1>5. {d(j)[1].x : j \in 1..m} = {at(1)} /\ {Last(d(j)).x : j \in 1..m} = {at(n)}
  <2>1. 1 \in 1..n /\ n \in 1..n /\ 1 \in 1..m
    BY <1>1
  <2>2. \A j \in 1..m : d(j)[1].x = at(1) /\ Last(d(j)).x = at(n)
    BY <1>2, <2>1 DEF Last
  <2>3. QED
    BY <2>1, <2>2
<1>6. Min({at(1)}) = at(1) /\ Max({at(n)}) = at(n)
  <2>1. at(1) \in Int /\ at(n) \in Int
    BY <1>1, <1>3
  <2>2. QED
    BY <2>1 DEF Min, Max
<1>7. g.scale.x = <<at(1), at(n)>>
  BY <1>4, <1>5, <1>6
<1>8. i \in 1..m /\ 1 \in 1..m
  BY <1>1 DEF m
<1>9. Sorted(d(i))
  BY <1>1, <1>2, <1>3, <1>8 DEF Sorted
<1>10. g.scale.x = <<d(i)[1].x, d(i)[n].x>>
  <2>1. 1 \in 1..n /\ n \in 1..n
    BY <1>1
  <2>2. d(i)[1].x = at(1) /\ d(i)[n].x = at(n)
    BY <1>2, <1>8, <2>1
  <2>3. QED
    BY <1>7, <2>2
<1>11. \A k \in 1..n : d(i)[k].x = d(1)[k].x
  BY <1>2, <1>8
<1>12. d(i) \in Seq(Points) /\ Len(d(i)) = n /\ DOMAIN d(i) = 1..n
  BY <1>2, <1>8
<1>13. QED
  BY <1>1, <1>9, <1>10, <1>11, <1>12 DEF n, d

-----------------------------------------------------------------------------
(* Theorems                                                                *)

\* FixedDuration's count is the number of points of every series, between
\* maxDataPoints - 2 and maxDataPoints, however many messages came and whichever names
\* they brought (addItem fills what came late).
THEOREM SizesAreLengths == Spec => []SizeIsLength
<1>1. GraphInv => SizeIsLength
  <2> SUFFICES ASSUME GraphInv, phase = "live"
               PROVE  /\ Graph.currentSize \in (MaxDataPoints - 2)..MaxDataPoints
                      /\ \A i \in DOMAIN Graph.items : Len(Graph.items[i].data) = Graph.currentSize
    BY DEF SizeIsLength
  <2>1. SeriesInv(Graph)
    BY DEF GraphInv
  <2>2. Graph.items \in Seq(Items) /\ DOMAIN Graph.items = 1..Len(Graph.items)
    BY <2>1, LenProperties DEF SeriesInv
  <2>3. QED
    BY <2>1, <2>2 DEF SeriesInv
<1>2. QED
  BY <1>1, GraphInvariant, PTL

\* The series always have the same times, one interval apart but for the one instant
\* that zero fill and first measurement share, and validateSeries never throws.
THEOREM TimesAlwaysEven == Spec => []TimesEven
<1>1. GraphInv => TimesEven
  <2>1. CASE phase = "none" /\ Graph = NoGraph
    <3>1. Graph.items = <<>>
      BY <2>1 DEF NoGraph
    <3>2. DOMAIN Graph.items = {}
      BY <3>1
    <3>3. phase # "failed"
      BY <2>1
    <3>4. QED
      BY <3>2, <3>3 DEF TimesEven
  <2>2. CASE phase = "live" /\ SeriesInv(Graph)
    <3>1. Graph.items \in Seq(Items) /\ DOMAIN Graph.items = 1..Len(Graph.items)
      BY <2>2, LenProperties DEF SeriesInv
    <3>2. /\ validateSeries(Graph.items)
          /\ \A i \in 1..Len(Graph.items) :
               LET data == Graph.items[i].data
               IN /\ DOMAIN data = 1..Graph.currentSize
                  /\ \A k \in 1..Graph.currentSize : data[k].x = Graph.items[1].data[k].x
                  /\ \A k \in 1..(Len(data) - 1) :
                       data[k + 1].x - data[k].x = IF data[k + 1].x = -1 /\ data[k].x = -1 THEN 0 ELSE 1
      BY <2>2, ValidFacts
    <3>3. phase # "failed"
      BY <2>2
    <3>4. QED
      BY <3>1, <3>2, <3>3, Zenon DEF TimesEven
  <2>3. QED
    BY <2>1, <2>2 DEF GraphInv
<1>2. QED
  BY <1>1, GraphInvariant, PTL

\* After every handler the svg shows the current points of every series in the current
\* scale and each grid once. The values may be any integers: only the points whose value
\* is in the configured range are inside the chart.
THEOREM DrawnAlwaysCurrent == Spec => []DrawnIsCurrent
<1>1. GraphInv => DrawnIsCurrent
  <2> SUFFICES ASSUME GraphInv, phase = "live"
               PROVE  DrawnIsCurrent
    BY DEF DrawnIsCurrent
  <2> DEFINE data == [i \in DOMAIN Graph.items |-> Graph.items[i].data]
             now == domain(Graph, data)
  <2>1. SeriesInv(Graph) /\ ConfigInv(Graph) /\ DrawnInv(Graph)
    BY DEF GraphInv
  <2>2. Graph.stackedData = data /\ Graph.scale = now
    BY <2>1, Zenon DEF DrawnInv
  <2>3. Graph.vis = [paths |-> [i \in DOMAIN data |-> [points |-> data[i], scale |-> now,
                                                      stroke |-> Graph.items[i].color]],
                     xGrid |-> <<now.x>>, yGrid |-> <<now.y>>]
    <3>1. DOMAIN data = DOMAIN Graph.items
      OBVIOUS
    <3> HIDE DEF data, now
    <3>2. QED
      BY <2>1, <2>2, <3>1, Zenon DEF DrawnInv
  <2>4. now.y = <<100 * ValueMin - (ValueMax - ValueMin), 100 * ValueMax>>
    <3>1. /\ Graph.config.min = ValueMin /\ Graph.config.max = ValueMax
          /\ Graph.config.renderer = LineDefaults
      BY <2>1 DEF ConfigInv
    <3>2. LineDefaults.padding = 1
      BY DEF LineDefaults, RendererDefaults
    <3>3. now.y = <<100 * Graph.config.min - (IF Graph.config.min < 0
                                              THEN Graph.config.renderer.padding
                                                     * (Graph.config.max - Graph.config.min)
                                              ELSE 0),
                    100 * Graph.config.max>>
      BY DEF domain
    <3> HIDE DEF now
    <3>4. 1 * (ValueMax - ValueMin) = ValueMax - ValueMin
      BY ValuesAssumption
    <3>5. QED
      BY <3>1, <3>2, <3>3, <3>4, ValuesAssumption
  <2> HIDE DEF now
  <2>5. ASSUME NEW i \in DOMAIN data, NEW k \in DOMAIN data[i],
               data[i][k].y \in ValueMin..ValueMax
        PROVE  now.y[1] <= 100 * data[i][k].y /\ 100 * data[i][k].y <= now.y[2]
    <3>1. PICK y \in ValueMin..ValueMax : y = data[i][k].y
      BY <2>5, Zenon
    <3>2. now.y[1] = 100 * ValueMin - (ValueMax - ValueMin) /\ now.y[2] = 100 * ValueMax
      BY <2>4
    <3> HIDE DEF data
    <3>3. QED
      BY <3>1, <3>2, ValuesAssumption
  <2>6. QED
    BY <2>3, <2>5, Zenon DEF DrawnIsCurrent, now
<1>2. QED
  BY <1>1, GraphInvariant, PTL

\* While the hover detail is visible, each line of the legend is of its series, with the
\* value of the point that is drawn as its dot; all are of one time, and the point is that
\* of the current data which is nearest to the mouse, however the window has slid and
\* whichever series came since the mouse moved last.
THEOREM LegendAlwaysCurrent == Spec => []LegendIsCurrent
<1>1. GraphInv => LegendIsCurrent
  <2> SUFFICES ASSUME GraphInv, phase = "live", Graph.visible, Graph.lastEvent.target = "drawing"
               PROVE  LegendIsCurrent
    BY DEF LegendIsCurrent
  <2> DEFINE pos == Graph.lastEvent.pos
             dX == DomainX(Graph, pos)
             m == Len(Graph.items)
             d(i) == Graph.items[i].data
             at(i) == HoverIndex(d(i), dX, pos)
             p(i) == d(i)[at(i) + 1]
  <2>1. SeriesInv(Graph) /\ DrawnInv(Graph) /\ HoverInv(Graph)
    BY DEF GraphInv
  <2>2. pos = NaN \/ pos \in 0..Width
    <3>1. Graph.lastEvent \in MouseEvents
      BY <2>1 DEF HoverInv, HoverTyped
    <3>2. CASE Graph.lastEvent = FakeEvent
      BY <3>2 DEF FakeEvent
    <3>3. CASE Graph.lastEvent \in Events
      BY <3>3 DEF Events
    <3>4. Graph.lastEvent # NONE
      BY DEF NONE
    <3>5. QED
      BY <3>1, <3>2, <3>3, <3>4 DEF MouseEvents
  <2>3. m \in Nat /\ m >= 1 /\ DOMAIN Graph.items = 1..m
    BY <2>1, LenProperties, EmptySeq DEF SeriesInv
  <2>4. Graph.dots = [i \in 1..m |-> p(i)]
    <3>1. Graph.dots = HoverPoints(Graph, pos)
      BY <2>1 DEF HoverInv
    <3>2. Graph.stackedData = [i \in 1..m |-> d(i)]
      BY <2>1, <2>3 DEF DrawnInv
    <3> HIDE DEF pos, dX, m, d
    <3>3. \A i \in 1..m : Graph.stackedData[i] = d(i)
      BY <3>2
    <3>4. HoverPoints(Graph, pos) =
            [i \in 1..m |-> Graph.stackedData[i][HoverIndex(Graph.stackedData[i], dX, pos) + 1]]
      BY <2>3, Zenon DEF HoverPoints, dX
    <3>5. QED
      BY <3>1, <3>3, <3>4
  <2> HIDE DEF m, pos
  <2>5. ASSUME NEW i \in 1..m
        PROVE  /\ d(i) \in Seq(Points) /\ Len(d(i)) = Graph.currentSize /\ Len(d(i)) >= 2
               /\ DOMAIN d(i) = 1..Len(d(i)) /\ Sorted(d(i))
               /\ Graph.scale.x = <<d(i)[1].x, d(i)[Len(d(i))].x>>
               /\ \A k \in 1..Len(d(i)) : d(i)[k].x = d(1)[k].x
    <3>1. i \in 1..Len(Graph.items)
      BY DEF m
    <3>2. QED
      BY <2>1, <3>1, ScaleFacts
  <2>6. 1 \in 1..m
    BY <2>3
  <2> HIDE DEF d
  <2>7. ASSUME NEW i \in 1..m
        PROVE  /\ at(i) + 1 \in DOMAIN d(i) /\ at(i) = at(1)
               /\ CASE pos = NaN   -> p(i) = d(i)[1]
                    [] pos = Width -> p(i) = d(i)[Len(d(i)) - 1]
                    [] OTHER       ->
                         /\ p(i) \in Range(d(i))
                         /\ \A k \in DOMAIN d(i) :
                              Distance(Graph, p(i).x, pos) <= Distance(Graph, d(i)[k].x, pos)
    <3>1. CASE pos = NaN
      <4>1. at(i) = 0 /\ at(1) = 0
        BY <3>1 DEF HoverIndex
      <4>2. pos # Width
        BY <3>1, WidthAssumption DEF NaN
      <4> HIDE DEF at
      <4>3. 1 \in DOMAIN d(i) /\ p(i) = d(i)[1]
        BY <2>5, <4>1
      <4>4. QED
        BY <3>1, <4>1, <4>2, <4>3
    <3>2. CASE pos \in 0..Width
      <4>1. pos # NaN
        BY <3>2, WidthAssumption DEF NaN
      <4>2. ASSUME NEW j \in 1..m
            PROVE  dX = d(j)[1].x * Width + (d(j)[Len(d(j))].x - d(j)[1].x) * pos
        BY <2>5 DEF DomainX
      <4>3. dX \in Int
        <5>1. d(1)[1] \in Points /\ d(1)[Len(d(1))] \in Points
          BY <2>5, <2>6, ElementOfSeq
        <5>2. d(1)[1].x \in Int /\ d(1)[Len(d(1))].x \in Int
          BY <5>1 DEF Points
        <5>3. PICK a \in Int, b \in Int : a = d(1)[1].x /\ b = d(1)[Len(d(1))].x
          BY <5>2
        <5>4. a * Width + (b - a) * pos \in Int
          BY <3>2, WidthAssumption
        <5>5. QED
          BY <2>6, <4>2, <5>3, <5>4
      <4> HIDE DEF dX
      <4>4. ASSUME NEW j \in 1..m
            PROVE  /\ \E t \in Nat : LastLeft(d(j), dX, t)
                   /\ at(j) + 1 \in DOMAIN d(j) /\ Nearest(d(j), dX, pos, p(j))
        BY <2>5, <3>2, <4>2, PointFound
      <4>5. at(i) = at(1)
        <5>1. PICK t \in Nat : LastLeft(d(1), dX, t)
          BY <2>6, <4>4
        <5>2. /\ d(1) \in Seq(Points) /\ d(i) \in Seq(Points) /\ Len(d(1)) >= 2
              /\ Len(d(i)) = Len(d(1)) /\ \A k \in 1..Len(d(1)) : d(i)[k].x = d(1)[k].x
          BY <2>5, <2>6
        <5>3. QED
          BY <3>2, <4>3, <5>1, <5>2, SameIndex
      <4> HIDE DEF at, p
      <4>6. at(i) + 1 \in DOMAIN d(i) /\ Nearest(d(i), dX, pos, p(i))
        BY <4>4
      <4>7. \A x : Distance(Graph, x, pos) = Gap(x * Width, dX)
        BY Zenon DEF Distance, Gap, dX
      <4>8. QED
        BY <4>1, <4>5, <4>6, <4>7 DEF Nearest
    <3>3. QED
      BY <2>2, <3>1, <3>2
  <2> HIDE DEF dX
  <2>8. \A i \in 1..m : p(i) \in Points /\ p(i).x = p(1).x
    <3>1. ASSUME NEW i \in 1..m
          PROVE  p(i) \in Points /\ p(i).x = p(1).x
      <4>1. /\ at(i) + 1 \in 1..Len(d(i)) /\ at(i) = at(1) /\ d(i) \in Seq(Points)
            /\ \A k \in 1..Len(d(i)) : d(i)[k].x = d(1)[k].x
        BY <2>5, <2>7
      <4> HIDE DEF at
      <4>2. p(i) \in Points
        BY <4>1, ElementOfSeq
      <4>3. QED
        BY <4>1, <4>2
    <3>2. QED
      BY <3>1
  <2> HIDE DEF p, at
  <2>9. /\ DOMAIN Graph.dots = 1..m /\ \A i \in 1..m : Graph.dots[i] = p(i)
        /\ Len(Graph.dots) = m
    <3>1. Graph.dots \in [1..m -> Points]
      BY <2>4, <2>8
    <3>2. Graph.dots \in Seq(Points)
      BY <2>3, <3>1, SeqDef
    <3>3. Len(Graph.dots) = m
      BY <2>3, <3>1, <3>2, LenProperties
    <3>4. QED
      BY <2>4, <3>3
  <2>10. Graph.legend.xs = {Graph.dots[1].x}
    <3>1. Graph.legend.xs = {Graph.dots[i].x : i \in DOMAIN Graph.dots}
      BY <2>1 DEF HoverInv
    <3>2. {Graph.dots[i].x : i \in DOMAIN Graph.dots} = {Graph.dots[1].x}
      BY <2>6, <2>8, <2>9
    <3>3. QED
      BY <3>1, <3>2
  <2>11. Graph.legend.lines =
           [i \in DOMAIN Graph.items |-> <<Graph.items[i].name, Graph.dots[i].y>>]
    <3>1. Graph.legend.lines = [i \in DOMAIN Graph.dots |-> <<Graph.items[i].name, Graph.dots[i].y>>]
      BY <2>1 DEF HoverInv
    <3>2. QED
      BY <2>3, <2>9, <3>1
  <2>12. ASSUME NEW i \in DOMAIN Graph.items
         PROVE  CASE pos = NaN   -> Graph.dots[i] = d(i)[1]
                  [] pos = Width -> Graph.dots[i] = d(i)[Len(d(i)) - 1]
                  [] OTHER       ->
                       /\ Graph.dots[i] \in Range(d(i))
                       /\ \A k \in DOMAIN d(i) :
                            Distance(Graph, Graph.dots[i].x, pos) <= Distance(Graph, d(i)[k].x, pos)
    <3>1. i \in 1..m /\ Graph.dots[i] = p(i)
      BY <2>3, <2>9
    <3>2. QED
      BY <2>7, <3>1, Zenon
  <2>13. QED
    BY <2>9, <2>10, <2>11, <2>12, Zenon DEF LegendIsCurrent, pos, d, m
<1>2. QED
  BY <1>1, GraphInvariant, PTL

\* A status message moves every series on by one point, and nothing else changes one.
THEOREM WindowSlides == Spec => SlidingWindow
<1>1. ASSUME GraphInv, [Next]_vars, phase = "live", phase' = "live", Graph'.items # Graph.items,
             NEW i \in DOMAIN Graph'.items
      PROVE  LET new == Graph'.items[i].data
             IN IF i \in DOMAIN Graph.items
                THEN LET old == Graph.items[i].data
                     IN Front(new) = IF Len(old) = MaxDataPoints THEN Tail(old) ELSE old
                ELSE \A k \in 1..(Len(new) - 1) : new[k].y = 0
  <2>1. GraphInv' /\ Slid(Graph', Graph)
    BY <1>1, StepFacts
  <2>2. PICK g, h : g = Graph /\ h = Graph'
    OBVIOUS
  <2>3. SeriesInv(g) /\ SeriesInv(h) /\ Slid(h, g)
    <3>1. SeriesInv(Graph)
      BY <1>1 DEF GraphInv
    <3>2. SeriesInv(Graph')
      BY <1>1, <2>1 DEF GraphInv
    <3>3. QED
      BY <2>1, <2>2, <3>1, <3>2, Zenon
  <2>4. /\ g.items \in Seq(Items) /\ DOMAIN g.items = 1..Len(g.items) /\ Len(g.items) \in Nat
        /\ h.items \in Seq(Items) /\ DOMAIN h.items = 1..Len(h.items) /\ Len(h.items) \in Nat
    BY <2>3, LenProperties DEF SeriesInv
  <2>5. i \in 1..Len(h.items)
    BY <1>1, <2>2, <2>4
  <2>6. Len(h.items[i].data) = h.currentSize
    BY <2>3, <2>5 DEF SeriesInv
  <2>7. CASE i <= Len(g.items)
    <3>1. i \in DOMAIN g.items
      BY <2>4, <2>5, <2>7
    <3>2. Len(g.items[i].data) = g.currentSize
      BY <2>3, <2>4, <3>1 DEF SeriesInv
    <3>3. Front(h.items[i].data) = IF g.currentSize = MaxDataPoints THEN Tail(g.items[i].data)
                                   ELSE g.items[i].data
      BY <2>3, <2>5, <2>7, Zenon DEF Slid
    <3>4. QED
      BY <2>2, <3>1, <3>2, <3>3, Zenon
  <2>8. CASE ~(i <= Len(g.items))
    <3>1. i \notin DOMAIN g.items
      BY <2>4, <2>5, <2>8
    <3>2. \A k \in 1..(h.currentSize - 1) : h.items[i].data[k].y = 0
      BY <2>3, <2>5, <2>8, Zenon DEF Slid
    <3>3. QED
      BY <2>2, <2>6, <3>1, <3>2, Zenon
  <2>9. QED
    BY <2>7, <2>8
<1>2. GraphInv /\ [Next]_vars =>
        [phase = "live" /\ phase' = "live" /\ Graph'.items # Graph.items =>
           \A i \in DOMAIN Graph'.items :
             LET new == Graph'.items[i].data
             IN IF i \in DOMAIN Graph.items
                THEN LET old == Graph.items[i].data
                     IN Front(new) = IF Len(old) = MaxDataPoints THEN Tail(old) ELSE old
                ELSE \A k \in 1..(Len(new) - 1) : new[k].y = 0]_vars
  BY <1>1, Zenon
<1>3. QED
  BY <1>2, GraphInvariant, PTL DEF Spec, SlidingWindow
=============================================================================
