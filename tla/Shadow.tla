------------------------------- MODULE Shadow -------------------------------
(***************************************************************************)
(* The shadow calculation of oak-does-javascript-and-canvas-tag: the part  *)
(* of a scene that a light reaches.  A scene is a list of edges, visible   *)
(* from their left side only; the end points of the visible ones are       *)
(* sorted by angle around the light and swept twice with a stack of the    *)
(* edges that cross the current ray, nearest first.                        *)
(*                                                                         *)
(* The pages build their scenes from rectangles, so every edge is parallel *)
(* to an axis.  Coordinates are integers (pixels); intersections are       *)
(* rational and are written [x, y, d] for the point (x/d, y/d).            *)
(***************************************************************************)
EXTENDS Integers, Sequences, SequencesExt, FiniteSetsExt, Lists

CONSTANTS
    Width, Height,   \* of the scene
    Scenes,          \* a scene is a sequence of rectangles <<x, y, w, h>>
    Lights           \* where the mouse can be, <<x, y>>, inside the scene

VARIABLES
    light,       \* the light whose polygon is calculated
    edges,       \* edge number -> [from, to]; the parts of the nearest last
    order,       \* the sorted end points, [edge, end]
    pass, pos,   \* which scan is running, and how far it is
    stack,       \* EdgeStack.edges: edge numbers, nearest first
    polygon,     \* LightPolygon.polygon: rational points
    thrown       \* a method of null has been called

vars == <<light, edges, order, pass, pos, stack, polygon, thrown>>

Null == [null |-> TRUE]
Point(x, y) == [x |-> x, y |-> y, d |-> 1]
EdgeBetween(p, q) == [from |-> p, to |-> q]
-----------------------------------------------------------------------------
(* Points.  A, B and the point itself may be rational: the result has the  *)
(* sign of the source's, which is all that is ever used of it.             *)

leftOfRaw(p, A, B) ==
    (B.x * A.d - A.x * B.d) * (p.y * A.d - A.y * p.d)
        - (B.y * A.d - A.y * B.d) * (p.x * A.d - A.x * p.d)

leftOf(p, A, B) == leftOfRaw(p, A, B) > 0

SamePoint(p, q) == p.x * q.d = q.x * p.d /\ p.y * q.d = q.y * p.d

Square(n) == n * n

\* distanceToSquared, times the square of p.d, from a point with q.d = 1
ScaledDistance(p, q) == Square(p.x - q.x * p.d) + Square(p.y - q.y * p.d)

NoFarther(p, q, l) ==
    ScaledDistance(p, l) * Square(q.d) <= ScaledDistance(q, l) * Square(p.d)
-----------------------------------------------------------------------------
(* Edges.                                                                  *)

lengthSquared(e) == Square(e.to.x - e.from.x) + Square(e.to.y - e.from.y)

\* u of the source times lengthSquared, clamped.  The division is exact for
\* an edge that is parallel to an axis.
nearestPoint(e, p) ==
    LET raw == (p.x - e.from.x) * (e.to.x - e.from.x)
                 + (p.y - e.from.y) * (e.to.y - e.from.y)
        u   == Max({0, Min({lengthSquared(e), raw})})
    IN  Point(e.from.x + (u * (e.to.x - e.from.x)) \div lengthSquared(e),
              e.from.y + (u * (e.to.y - e.from.y)) \div lengthSquared(e))

\* Where the line through p3 and p4 crosses the edge, or Null
intersection(e, p3, p4) ==
    LET p1  == e.from
        p2  == e.to
        den == (p4.y - p3.y) * (p2.x - p1.x) - (p4.x - p3.x) * (p2.y - p1.y)
        num == (p4.x - p3.x) * (p1.y - p3.y) - (p4.y - p3.y) * (p1.x - p3.x)
        D   == IF den < 0 THEN -den ELSE den
        N   == IF den < 0 THEN -num ELSE num
        g   == Max({k \in 1 .. D : D % k = 0 /\ N % k = 0})
        n   == N \div g
        d   == D \div g
    IN  IF den = 0 \/ N < 0 \/ N > D THEN Null
        ELSE [x |-> p1.x * d + n * (p2.x - p1.x),
              y |-> p1.y * d + n * (p2.y - p1.y), d |-> d]
-----------------------------------------------------------------------------
(* The scene.                                                              *)

LightBoundingBox ==
    << EdgeBetween(Point(0, Height), Point(0, 0)),
       EdgeBetween(Point(Width, Height), Point(0, Height)),
       EdgeBetween(Point(Width, 0), Point(Width, Height)),
       EdgeBetween(Point(0, 0), Point(Width, 0)) >>

Rectangle(x, y, w, h) ==
    << EdgeBetween(Point(x, y), Point(x, y + h)),
       EdgeBetween(Point(x, y + h), Point(x + w, y + h)),
       EdgeBetween(Point(x + w, y + h), Point(x + w, y)),
       EdgeBetween(Point(x + w, y), Point(x, y)) >>

SceneEdges(scene) ==
    LightBoundingBox \o [k \in 1 .. 4 * Len(scene) |->
        LET box == scene[(k - 1) \div 4 + 1]
        IN  Rectangle(box[1], box[2], box[3], box[4])[((k - 1) % 4) + 1]]

isVisible(e, l) == leftOf(l, e.from, e.to)

visibleEdges(scene, l) ==
    Without(SceneEdges(scene), {e \in ToSet(SceneEdges(scene)) : ~isVisible(e, l)})
-----------------------------------------------------------------------------
(* EdgeSorter.                                                             *)

EdgeDistance(e, l) == ScaledDistance(nearestPoint(e, l), l)

\* The first of the nearest edges
findNearestEdge(es, l) ==
    Min({i \in DOMAIN es :
            \A j \in DOMAIN es : EdgeDistance(es[i], l) <= EdgeDistance(es[j], l)})

\* Faulty: the two halves of the circle are not told apart
CompareByTurnOnly(p1, p2, l, start) == leftOfRaw(p1, l, p2)

\* The comparison function of the sort: negative when p1 comes first
ComparePoints(p1, p2, l, start) ==
    LET left(p) == IF leftOf(p, l, start) THEN 1 ELSE 0
    IN  IF left(p1) # left(p2) THEN left(p2) - left(p1)
        ELSE leftOfRaw(p1, l, p2)

End(i, w) == [edge |-> i, end |-> w]
PointOf(es, q) == IF q.end = "from" THEN es[q.edge].from ELSE es[q.edge].to

InsertPoint(es, l, start, sorted, p) ==
    LET k == Max({0} \union {j \in DOMAIN sorted :
                ComparePoints(PointOf(es, sorted[j]), PointOf(es, p), l, start) <= 0})
    IN  InsertAt(sorted, k + 1, p)

\* Array.sort, which sorts a short array by insertion from the right: the
\* first 0, 1, ... of the points, sorted
InsertedPoints(es, l, start, points) ==
    LET sorted[k \in 0 .. Len(points)] ==
            IF k = 0 THEN <<>> ELSE InsertPoint(es, l, start, sorted[k - 1], points[k])
    IN  sorted

\* The two parts into which the point nearest to the light cuts its edge:
\* part 1 begins the sweep and part 2 ends it
SplitEdges(es, l) ==
    LET e == es[findNearestEdge(es, l)]
        p == nearestPoint(e, l)
    IN  es \o <<EdgeBetween(p, e.to), EdgeBetween(e.from, p)>>

\* The ends of n edges but for those of the nearest, which is in parts
OtherEnds(n, nearest) ==
    Without([k \in 1 .. 2 * n |->
                End((k + 1) \div 2, IF k % 2 = 1 THEN "from" ELSE "to")],
            {End(nearest, "from"), End(nearest, "to")})

\* es is what SplitEdges returns for the n visible edges
InnerEnds(es, n, l) ==
    (IF lengthSquared(es[n + 1]) > 0 THEN <<End(n + 1, "to")>> ELSE <<>>)
      \o (IF lengthSquared(es[n + 2]) > 0 THEN <<End(n + 2, "from")>> ELSE <<>>)
      \o OtherEnds(n, findNearestEdge(SubSeq(es, 1, n), l))

sortEdgePoints(es, n, l) ==
    LET inner == InnerEnds(es, n, l)
    IN  (IF lengthSquared(es[n + 1]) > 0 THEN <<End(n + 1, "from")>> ELSE <<>>)
          \o InsertedPoints(es, l, es[n + 1].from, inner)[Len(inner)]
          \o (IF lengthSquared(es[n + 2]) > 0 THEN <<End(n + 2, "to")>> ELSE <<>>)
-----------------------------------------------------------------------------
(* LightPolygon.  Points closer than 0.00001 are the same here.            *)
addPoint(poly, p) ==
    IF poly # <<>> /\ SamePoint(Last(poly), p) THEN poly ELSE Append(poly, p)

addPoints(poly, p, q) == addPoint(addPoint(poly, p), q)
-----------------------------------------------------------------------------
(* EdgeStack.addEdgePoint, and the two scans of calculateLightPolygon.     *)

Current == order[pos]
CurrentPoint == PointOf(edges, Current)
Hit(i) == intersection(edges[stack[i]], light, CurrentPoint)

\* Faulty: a new edge always goes to the front
InsertInFront == 1

\* Faulty: the comparison of distances is the wrong way round
InsertFarthest ==
    LET stop == {i \in DOMAIN stack :
                    Hit(i) = Null \/ NoFarther(Hit(i), CurrentPoint, light)}
    IN  IF stop = {} THEN Len(stack) + 1 ELSE Min(stop)

\* The first edge of the stack that the new point is not behind, or which
\* the ray misses: the loop looks no further
InsertIndex ==
    LET stop == {i \in DOMAIN stack :
                    Hit(i) = Null \/ NoFarther(CurrentPoint, Hit(i), light)}
    IN  IF stop = {} THEN Len(stack) + 1 ELSE Min(stop)

\* Only the second scan keeps the points
Emit(poly) == polygon' = IF pass = 2 THEN poly ELSE polygon

Advance ==
    IF pos < Len(order) THEN pos' = pos + 1 /\ pass' = pass
    ELSE pos' = 1 /\ pass' = pass + 1

Sweeping == pass \in {1, 2} /\ ~thrown

AddEdge ==
    /\ Sweeping /\ Current.end = "from"
    /\ LET i == InsertIndex
       IN  /\ i \in DOMAIN stack => Hit(i) # Null
           /\ stack' = InsertAt(stack, i, Current.edge)
           /\ Emit(IF i # 1 THEN polygon
                   ELSE IF stack = <<>> THEN addPoint(polygon, CurrentPoint)
                   ELSE addPoints(polygon, Hit(1), CurrentPoint))
    /\ Advance
    /\ UNCHANGED <<light, edges, order, thrown>>

\* Faulty: only the front edge is looked at when an edge ends
FrontPlaces == {k \in DOMAIN stack : k = 1 /\ stack[k] = Current.edge}

\* Where the current edge is on the stack; an edge that is not there is
\* assumed not to have begun
Places == {k \in DOMAIN stack : stack[k] = Current.edge}

\* The front edge ends: does the ray meet the edge behind it?
NextHit == Hit(2)

RemoveEdge ==
    /\ Sweeping /\ Current.end = "to"
    /\ stack' = IF Places = {} THEN stack ELSE RemoveAt(stack, Min(Places))
    /\ IF 1 \notin Places THEN Emit(polygon)
       ELSE IF Len(stack) = 1 THEN Emit(addPoint(polygon, CurrentPoint))
       ELSE /\ pass = 2 => NextHit # Null
            /\ Emit(addPoints(polygon, CurrentPoint, NextHit))
    /\ Advance
    /\ UNCHANGED <<light, edges, order, thrown>>

\* A method of a null intersection is called: by the loop over the stack, or,
\* in the second scan, by addPoint
MissedEdge ==
    /\ Sweeping
    /\ \/ /\ Current.end = "from" /\ InsertIndex \in DOMAIN stack
          /\ Hit(InsertIndex) = Null
       \/ /\ Current.end = "to" /\ pass = 2 /\ 1 \in Places
          /\ Len(stack) > 1 /\ NextHit = Null
    /\ thrown' = TRUE
    /\ UNCHANGED <<light, edges, order, pass, pos, stack, polygon>>

\* calculateLightPolygon is called, once for every light and mouse move
Init ==
    \E scene \in Scenes, l \in Lights :
        /\ light = Point(l[1], l[2])
        /\ edges = SplitEdges(visibleEdges(scene, light), light)
        /\ order = sortEdgePoints(edges, Len(edges) - 2, light)
        /\ pass = 1 /\ pos = 1
        /\ stack = <<>> /\ polygon = <<>> /\ thrown = FALSE

Next == AddEdge \/ RemoveEdge \/ MissedEdge

Spec == Init /\ [][Next]_vars
-----------------------------------------------------------------------------
(* Properties.                                                             *)

TypeOK ==
    /\ light.x \in 0 .. Width /\ light.y \in 0 .. Height /\ light.d = 1
    /\ \A i \in DOMAIN order :
        order[i].edge \in DOMAIN edges /\ order[i].end \in {"from", "to"}
    /\ pass \in 1 .. 3 /\ pos \in 1 .. Len(order)
    /\ stack \in Seq(DOMAIN edges)
    /\ \A i \in DOMAIN polygon : polygon[i].d > 0
    /\ thrown \in BOOLEAN

Faces == 1 .. (Len(edges) - 2)          \* the visible edges, uncut
Start == edges[Len(edges) - 1].from     \* the point nearest to the light

\* How far p is in the direction of the nearest point, and to its left
Ahead(p) == (p.x - light.x) * (Start.x - light.x)
              + (p.y - light.y) * (Start.y - light.y)
Beside(p) == leftOfRaw(p, light, Start)

OnStartRay(p) == Beside(p) = 0 /\ Ahead(p) > 0

\* An end point lies straight behind the light, seen from the nearest point,
\* and another one beyond the nearest point: the case which the comparison
\* does not order.
Aligned ==
    LET points == {edges[i].from : i \in Faces} \union {edges[i].to : i \in Faces}
    IN  /\ \E p \in points : Beside(p) = 0 /\ Ahead(p) < 0
        /\ \E p \in points : OnStartRay(p)

\* Whether the ray to p comes later than the ray to q, turning
\* counter-clockwise from the ray to the nearest point
Later(p, q) ==
    LET half(r) == IF Beside(r) > 0 THEN 0 ELSE 1
    IN  \/ half(p) > half(q)
        \/ half(p) = half(q) /\ leftOfRaw(p, light, q) > 0

\* "This method will return a sorted (counter-clockwise) list of edges
\* (end/start-points)" (EdgeSorter.js).  The ray to the nearest point is both
\* the beginning and the end of the circle.
SortedCounterClockwise ==
    LET at(i) == PointOf(edges, order[i])
    IN  \A i, j \in DOMAIN order :
            i < j => \/ OnStartRay(at(i)) \/ OnStartRay(at(j))
                     \/ ~Later(at(i), at(j))

\* The comparison of sortEdgePoints is no order when end points lie on both
\* sides of the light in line with the nearest point; otherwise the sweep
\* turns counter-clockwise.
SortedUnlessAligned == Aligned \/ SortedCounterClockwise

\* No method of null is called: whenever an edge begins, the ray to its
\* first point meets every edge that is compared with it.  The same case is
\* the only exception.
ThrowsOnlyAligned == thrown => Aligned

\* The segment from p to q is cut by the segment from A to B
Cuts(A, B, p, q) ==
    LET s(r, C, D) == IF leftOfRaw(r, C, D) > 0 THEN 1
                      ELSE IF leftOfRaw(r, C, D) < 0 THEN -1 ELSE 0
    IN  s(A, p, q) * s(B, p, q) < 0 /\ s(p, A, B) * s(q, A, B) < 0

\* Points to test the result at, away from every ray through an end point
Samples ==
    {q \in {Point(x, y) : x \in 1 .. (Width - 1), y \in 1 .. (Height - 1)} :
        \A i \in DOMAIN edges : leftOfRaw(q, light, edges[i].from) # 0
                             /\ leftOfRaw(q, light, edges[i].to) # 0
                             /\ leftOfRaw(q, edges[i].from, edges[i].to) # 0}

\* What the light sees, by definition
Lit(q) ==
    \A i \in DOMAIN edges : ~Cuts(edges[i].from, edges[i].to, light, q)

\* Inside the polygon: the way from the light crosses its border evenly often
InPolygon(q) ==
    LET n == Len(polygon)
        crossed == {i \in 1 .. n : Cuts(polygon[i],
                        polygon[IF i = n THEN 1 ELSE i + 1], light, q)}
    IN  Cardinality(crossed) % 2 = 0

\* The polygon covers exactly what the light sees.
PolygonIsLit ==
    pass = 3 => \A q \in Samples : Lit(q) <=> InPolygon(q)

\* "A stack of edges sorted by their distance to the light-source" (EdgeStack.js):
\* along the ray to the current point, while the polygon is being built.
StackSorted ==
    pass = 2 /\ ~Aligned =>
        \A i, j \in DOMAIN stack :
            i < j /\ Hit(i) # Null /\ Hit(j) # Null =>
                NoFarther(Hit(i), Hit(j), light)

=============================================================================
