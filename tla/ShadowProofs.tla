----------------------------- MODULE ShadowProofs -----------------------------
(***************************************************************************)
(* Theorems about Shadow, for every list of scenes made of rectangles and  *)
(* every light inside the scene.                                           *)
(*                                                                         *)
(* A turn around the light orders the end points, but in the aligned case; *)
(* the edges that are open between their two ends are those that the ray to *)
(* the current point meets, so that no comparison finds a null.  When the  *)
(* rectangles do not meet either, no two visible edges change their order  *)
(* along the ray, so that a stack that is sorted when an edge is put on it *)
(* stays sorted as the ray goes on.                                        *)
(***************************************************************************)
EXTENDS Shadow, QueueFacts, FiniteSetTheorems

-----------------------------------------------------------------------------
(* The order of the sort.                                                  *)
Points == [x : Int, y : Int, d : {1}]
EdgeRecords == [from : Points, to : Points]

(* The turn at l from a to b, positive when it is counter-clockwise, and how *)
(* far b lies in the direction of a.                                       *)
Turn(l, a, b) == (a.x - l.x) * (b.y - l.y) - (a.y - l.y) * (b.x - l.x)
Along(l, a, b) == (a.x - l.x) * (b.x - l.x) + (a.y - l.y) * (b.y - l.y)

(* The ray to a comes no later than the ray to b, in a turn that begins at s. *)
Before(l, s, a, b) ==
    \/ Turn(l, s, a) > 0 /\ ~(Turn(l, s, b) > 0)
    \/ (Turn(l, s, a) > 0 <=> Turn(l, s, b) > 0) /\ Turn(l, a, b) >= 0

(* None of the points P is at l, and not both of the rays to s and away from s *)
(* go through one of them.                                                 *)
Clear(l, s, P) ==
    /\ P \subseteq Points /\ Along(l, s, s) > 0
    /\ \A p \in P : Along(l, p, p) > 0
    /\ \A p, q \in P : ~ /\ Turn(l, s, p) = 0 /\ Along(l, s, p) < 0
                         /\ Turn(l, s, q) = 0 /\ Along(l, s, q) > 0

(* The model's operators in these terms.                                   *)
LEMMA TurnIs ==
    ASSUME NEW l \in Points, NEW a \in Points, NEW b \in Points
    PROVE  /\ leftOfRaw(b, l, a) = Turn(l, a, b)
           /\ Turn(l, a, b) \in Int /\ Along(l, a, b) \in Int
           /\ Turn(l, b, a) = -Turn(l, a, b)
  BY DEF Points, Turn, Along, leftOfRaw

(* The model's test of the light against an edge is a turn, too, and       *)
(* points that make a turn are neither at the light nor the same.          *)
LEMMA SameTurn ==
    ASSUME NEW l \in Points, NEW a \in Points, NEW b \in Points
    PROVE  /\ Turn(l, a, a) = 0
           /\ leftOfRaw(l, a, b) = Turn(l, a, b)
           /\ Along(l, a, a) >= 0
           /\ Turn(l, a, b) # 0 => Along(l, a, a) > 0 /\ Along(l, b, b) > 0 /\ a # b
  <1> DEFINE ax == a.x - l.x
             ay == a.y - l.y
             bx == b.x - l.x
             by == b.y - l.y
  <1>1. ax \in Int /\ ay \in Int /\ bx \in Int /\ by \in Int
    BY DEF Points
  <1>2. Turn(l, a, a) = 0
    BY DEF Points, Turn
  <1>3. leftOfRaw(l, a, b) = Turn(l, a, b)
    BY DEF Points, Turn, leftOfRaw
  <1>4. Turn(l, a, b) = ax * by - ay * bx /\ Along(l, a, a) = ax * ax + ay * ay
        /\ Along(l, b, b) = bx * bx + by * by
    BY DEF Turn, Along
  <1> HIDE DEF ax, ay, bx, by
  <1>5. ax * ax >= 0 /\ ay * ay >= 0 /\ bx * bx >= 0 /\ by * by >= 0
    BY <1>1
  <1>6. ASSUME ax * by - ay * bx # 0
        PROVE  ax * ax + ay * ay > 0 /\ bx * bx + by * by > 0
    <2>1. ax # 0 \/ ay # 0
      BY <1>1, <1>6
    <2>2. bx # 0 \/ by # 0
      BY <1>1, <1>6
    <2>3. \A k \in Int : k # 0 => k * k > 0
      OBVIOUS
    <2>4. ax * ax > 0 \/ ay * ay > 0
      BY <1>1, <2>1, <2>3
    <2>5. bx * bx > 0 \/ by * by > 0
      BY <1>1, <2>2, <2>3
    <2>6. ax * ax \in Int /\ ay * ay \in Int /\ bx * bx \in Int /\ by * by \in Int
      BY <1>1
    <2> QED BY <1>5, <2>4, <2>5, <2>6
  <1>7. Along(l, a, a) >= 0
    <2>1. ax * ax \in Int /\ ay * ay \in Int
      BY <1>1
    <2> QED BY <1>4, <1>5, <2>1
  <1> QED BY <1>2, <1>3, <1>4, <1>6, <1>7

(* What the comparison of the sort says of two points.                     *)
LEMMA ComparisonIs ==
    ASSUME NEW l \in Points, NEW s \in Points, NEW a \in Points, NEW b \in Points
    PROVE  ComparePoints(a, b, l, s) <= 0 <=> Before(l, s, a, b)
  <1>1. /\ leftOf(a, l, s) <=> Turn(l, s, a) > 0
        /\ leftOf(b, l, s) <=> Turn(l, s, b) > 0
    BY TurnIs DEF leftOf
  <1>2. leftOfRaw(a, l, b) = -Turn(l, a, b) /\ Turn(l, a, b) \in Int
    <2>1. leftOfRaw(a, l, b) = Turn(l, b, a)
      BY TurnIs
    <2> QED BY <2>1, TurnIs
  <1>3. (-Turn(l, a, b) <= 0) <=> (Turn(l, a, b) >= 0)
    BY <1>2
  <1> QED BY <1>1, <1>2, <1>3 DEF ComparePoints, Before

(* Two identities: of the turns between four points, and of the projections. *)
LEMMA FourTurns ==
    ASSUME NEW l \in Points, NEW s \in Points, NEW a \in Points, NEW b \in Points,
           NEW c \in Points
    PROVE  Turn(l, s, b) * Turn(l, a, c)
            = Turn(l, s, a) * Turn(l, b, c) + Turn(l, s, c) * Turn(l, a, b)
  <1> DEFINE sx == s.x - l.x
             sy == s.y - l.y
             ax == a.x - l.x
             ay == a.y - l.y
             bx == b.x - l.x
             by == b.y - l.y
             cx == c.x - l.x
             cy == c.y - l.y
  <1>1. sx \in Int /\ sy \in Int /\ ax \in Int /\ ay \in Int
        /\ bx \in Int /\ by \in Int /\ cx \in Int /\ cy \in Int
    BY DEF Points
  <1>2. /\ Turn(l, s, b) = sx * by - sy * bx /\ Turn(l, a, c) = ax * cy - ay * cx
        /\ Turn(l, s, a) = sx * ay - sy * ax /\ Turn(l, b, c) = bx * cy - by * cx
        /\ Turn(l, s, c) = sx * cy - sy * cx /\ Turn(l, a, b) = ax * by - ay * bx
    BY DEF Turn
  <1> HIDE DEF sx, sy, ax, ay, bx, by, cx, cy
  <1>3. (sx * by - sy * bx) * (ax * cy - ay * cx)
         = (sx * ay - sy * ax) * (bx * cy - by * cx) + (sx * cy - sy * cx) * (ax * by - ay * bx)
    BY <1>1
  <1> QED BY <1>2, <1>3

(* The square of a length times a turn, or a projection, in terms of the   *)
(* turns and projections to a third point.                                 *)
LEMMA Projections ==
    ASSUME NEW l \in Points, NEW s \in Points, NEW a \in Points, NEW b \in Points
    PROVE  /\ Along(l, s, s) * Turn(l, a, b)
                = Along(l, s, a) * Turn(l, s, b) - Turn(l, s, a) * Along(l, s, b)
           /\ Along(l, s, s) * Along(l, a, a)
                = Along(l, s, a) * Along(l, s, a) + Turn(l, s, a) * Turn(l, s, a)
  <1> DEFINE sx == s.x - l.x
             sy == s.y - l.y
             ax == a.x - l.x
             ay == a.y - l.y
             bx == b.x - l.x
             by == b.y - l.y
  <1>1. sx \in Int /\ sy \in Int /\ ax \in Int /\ ay \in Int /\ bx \in Int /\ by \in Int
    BY DEF Points
  <1>2. /\ Turn(l, s, b) = sx * by - sy * bx /\ Turn(l, s, a) = sx * ay - sy * ax
        /\ Turn(l, a, b) = ax * by - ay * bx
        /\ Along(l, s, s) = sx * sx + sy * sy /\ Along(l, s, a) = sx * ax + sy * ay
        /\ Along(l, s, b) = sx * bx + sy * by /\ Along(l, a, a) = ax * ax + ay * ay
    BY DEF Turn, Along
  <1> HIDE DEF sx, sy, ax, ay, bx, by
  <1>3. (sx * sx + sy * sy) * (ax * by - ay * bx)
         = (sx * ax + sy * ay) * (sx * by - sy * bx) - (sx * ay - sy * ax) * (sx * bx + sy * by)
    BY <1>1
  <1>4. (sx * sx + sy * sy) * (ax * ax + ay * ay)
         = (sx * ax + sy * ay) * (sx * ax + sy * ay) + (sx * ay - sy * ax) * (sx * ay - sy * ax)
    BY <1>1
  <1> QED BY <1>2, <1>3, <1>4

(* The first of these as an opaque fact.                                   *)
Projected(l, s, a, b) ==
    Along(l, s, s) * Turn(l, a, b)
        = Along(l, s, a) * Turn(l, s, b) - Turn(l, s, a) * Along(l, s, b)

LEMMA TurnProjected ==
    ASSUME NEW l \in Points, NEW s \in Points, NEW a \in Points, NEW b \in Points
    PROVE  Projected(l, s, a, b)
  BY Projections DEF Projected

(* The sign of a product.                                                  *)
LEMMA Signs ==
    ASSUME NEW a \in Int, NEW b \in Int
    PROVE  /\ a * b \in Int
           /\ a > 0 /\ b > 0 => a * b > 0
           /\ a >= 0 /\ b >= 0 => a * b >= 0
           /\ a <= 0 /\ b <= 0 => a * b >= 0
           /\ a <= 0 /\ b >= 0 => a * b <= 0
           /\ a >= 0 /\ b <= 0 => a * b <= 0
           /\ a > 0 /\ b < 0 => a * b < 0
           /\ a < 0 /\ b > 0 => a * b < 0
           /\ a < 0 /\ b < 0 => a * b > 0
           /\ a = 0 => a * b = 0
  OBVIOUS

(* What is in line with s is on its ray or behind.                         *)
LEMMA InLine ==
    ASSUME NEW l \in Points, NEW s \in Points, NEW b \in Points, NEW c \in Points,
           Along(l, s, s) > 0, Along(l, b, b) > 0, Turn(l, s, b) = 0
    PROVE  /\ Along(l, s, b) # 0
           /\ Along(l, s, b) > 0 => /\ Turn(l, b, c) >= 0 <=> Turn(l, s, c) >= 0
                                    /\ Turn(l, b, c) > 0 <=> Turn(l, s, c) > 0
           /\ Along(l, s, b) < 0 => /\ Turn(l, b, c) >= 0 <=> Turn(l, s, c) <= 0
                                    /\ Turn(l, b, c) > 0 <=> Turn(l, s, c) < 0
  <1> DEFINE ss == Along(l, s, s)
             bb == Along(l, b, b)
             sb == Along(l, s, b)
             t == Turn(l, b, c)
             u == Turn(l, s, c)
  <1>1. ss \in Int /\ bb \in Int /\ sb \in Int /\ t \in Int /\ u \in Int
        /\ Along(l, s, c) \in Int
    BY TurnIs
  <1>2. ss * t = sb * u
    <2>1. ss * t = sb * u - Turn(l, s, b) * Along(l, s, c)
      BY Projections
    <2>2. 0 * Along(l, s, c) = 0 /\ sb * u \in Int
      BY <1>1
    <2> HIDE DEF ss, bb, sb, t, u
    <2> QED BY <2>1, <2>2
  <1>3. ss * bb = sb * sb
    <2>1. ss * bb = sb * sb + Turn(l, s, b) * Turn(l, s, b)
      BY Projections
    <2>2. 0 * 0 = 0 /\ sb * sb \in Int
      BY <1>1
    <2> HIDE DEF ss, bb, sb, t, u
    <2> QED BY <2>1, <2>2
  <1>4. ss > 0 /\ bb > 0
    OBVIOUS
  <1> HIDE DEF ss, bb, sb, t, u
  <1>5. sb # 0
    <2>1. ss * bb > 0
      BY <1>1, <1>4, Signs
    <2> QED BY <1>1, <1>3, <2>1
  <1>6. /\ ss * t \in Int /\ (ss * t > 0 <=> t > 0) /\ (ss * t < 0 <=> t < 0)
    <2>1. (t > 0 => ss * t > 0) /\ (t < 0 => ss * t < 0) /\ (t = 0 => ss * t = 0)
          /\ ss * t \in Int
      BY <1>1, <1>4
    <2> QED BY <1>1, <2>1
  <1>7. sb > 0 => (sb * u > 0 <=> u > 0) /\ (sb * u < 0 <=> u < 0)
    <2>1. sb > 0 => (u > 0 => sb * u > 0) /\ (u < 0 => sb * u < 0) /\ (u = 0 => sb * u = 0)
      BY <1>1
    <2>2. sb * u \in Int
      BY <1>1
    <2> QED BY <1>1, <2>1, <2>2
  <1>8. sb < 0 => (sb * u > 0 <=> u < 0) /\ (sb * u < 0 <=> u > 0)
    <2>1. sb < 0 => (u > 0 => sb * u < 0) /\ (u < 0 => sb * u > 0) /\ (u = 0 => sb * u = 0)
      BY <1>1
    <2>2. sb * u \in Int
      BY <1>1
    <2> QED BY <1>1, <2>1, <2>2
  <1>9. sb > 0 => (t > 0 <=> u > 0) /\ (t >= 0 <=> u >= 0)
    BY <1>1, <1>2, <1>6, <1>7
  <1>10. sb < 0 => (t > 0 <=> u < 0) /\ (t >= 0 <=> u <= 0)
    BY <1>1, <1>2, <1>6, <1>8
  <1> QED BY <1>5, <1>9, <1>10 DEF sb, t, u

(* Of any two points, one comes no later than the other,                   *)
LEMMA BeforeTotal ==
    ASSUME NEW l \in Points, NEW s \in Points, NEW a \in Points, NEW b \in Points
    PROVE  Before(l, s, a, b) \/ Before(l, s, b, a)
  <1>1. Turn(l, a, b) \in Int /\ Turn(l, b, a) = -Turn(l, a, b)
    BY TurnIs
  <1>2. Turn(l, a, b) >= 0 \/ Turn(l, b, a) >= 0
    BY <1>1
  <1> QED BY <1>2 DEF Before

(* Which side an inequality of products decides.                           *)
LEMMA Decides ==
    ASSUME NEW a \in Int, NEW b \in Int, NEW r \in Int, a * b = r
    PROVE  /\ a > 0 /\ r >= 0 => b >= 0
           /\ a < 0 /\ r <= 0 => b >= 0
  <1>1. a > 0 /\ b < 0 => r < 0
    BY Signs
  <1>2. a < 0 /\ b < 0 => r > 0
    BY Signs
  <1> QED BY <1>1, <1>2

(* and among clear points this is an order.  It is not when rays lie on    *)
(* both sides of the light: the aligned case.                              *)
LEMMA BeforeTransitive ==
    ASSUME NEW l \in Points, NEW s \in Points, NEW P, Clear(l, s, P),
           NEW a \in P, NEW b \in P, NEW c \in P, Before(l, s, a, b), Before(l, s, b, c)
    PROVE  Before(l, s, a, c)
  <1>1. a \in Points /\ b \in Points /\ c \in Points
    BY DEF Clear
  <1> DEFINE sa == Turn(l, s, a)
             sb == Turn(l, s, b)
             sc == Turn(l, s, c)
             ab == Turn(l, a, b)
             bc == Turn(l, b, c)
             ac == Turn(l, a, c)
  <1>2. sa \in Int /\ sb \in Int /\ sc \in Int /\ ab \in Int /\ bc \in Int /\ ac \in Int
    BY <1>1, TurnIs
  <1>3. sb * ac = sa * bc + sc * ab
    BY <1>1, FourTurns
  <1>4. /\ sa * bc \in Int /\ sc * ab \in Int
        /\ sa >= 0 /\ bc >= 0 => sa * bc >= 0
        /\ sa <= 0 /\ bc >= 0 => sa * bc <= 0
        /\ sc >= 0 /\ ab >= 0 => sc * ab >= 0
        /\ sc <= 0 /\ ab >= 0 => sc * ab <= 0
    BY <1>2, Signs
  <1>5. /\ sb > 0 /\ sa * bc + sc * ab >= 0 => ac >= 0
        /\ sb < 0 /\ sa * bc + sc * ab <= 0 => ac >= 0
    BY <1>2, <1>3, <1>4, Decides
  <1>6. /\ (sa > 0 /\ ~(sb > 0)) \/ ((sa > 0 <=> sb > 0) /\ ab >= 0)
        /\ (sb > 0 /\ ~(sc > 0)) \/ ((sb > 0 <=> sc > 0) /\ bc >= 0)
    BY DEF Before
  <1>7. ASSUME sa > 0, sc > 0
        PROVE  ac >= 0
    <2>1. sb > 0 /\ ab >= 0 /\ bc >= 0
      BY <1>6, <1>7
    <2> HIDE DEF sa, sb, sc, ab, bc, ac
    <2> QED BY <1>2, <1>4, <1>5, <1>7, <2>1
  <1>8. ASSUME ~(sa > 0), ~(sc > 0)
        PROVE  ac >= 0
    <2>1. ~(sb > 0) /\ ab >= 0 /\ bc >= 0
      BY <1>6, <1>8
    <2>2. CASE sb < 0
      <3> HIDE DEF sa, sb, sc, ab, bc, ac
      <3> QED BY <1>2, <1>4, <1>5, <1>8, <2>1, <2>2
    <2>3. CASE sb = 0
      <3>1. Along(l, s, s) > 0 /\ Along(l, b, b) > 0 /\ Along(l, a, a) > 0
            /\ Along(l, c, c) > 0
        BY DEF Clear
      <3>2. /\ Along(l, s, b) # 0
            /\ Along(l, s, b) > 0 => ((bc >= 0 <=> sc >= 0)
               /\ (Turn(l, b, a) >= 0 <=> sa >= 0))
            /\ Along(l, s, b) < 0 => ((bc >= 0 <=> sc <= 0)
               /\ (Turn(l, b, a) >= 0 <=> sa <= 0)
                                       /\ (Turn(l, b, a) > 0 <=> sa < 0))
        <4>1. /\ Along(l, s, b) # 0
              /\ Along(l, s, b) > 0 => (bc >= 0 <=> sc >= 0)
              /\ Along(l, s, b) < 0 => (bc >= 0 <=> sc <= 0)
          BY <1>1, <2>3, <3>1, InLine
        <4>2. /\ Along(l, s, b) > 0 => (Turn(l, b, a) >= 0 <=> sa >= 0)
              /\ Along(l, s, b) < 0 => (Turn(l, b, a) >= 0 <=> sa <= 0)
              /\ Along(l, s, b) < 0 => (Turn(l, b, a) > 0 <=> sa < 0)
          BY <1>1, <2>3, <3>1, InLine
        <4> QED BY <4>1, <4>2
      <3>3. Turn(l, b, a) = -ab /\ Along(l, s, b) \in Int
        BY <1>1, TurnIs
      <3>4. CASE Along(l, s, b) > 0
        <4>1. sc = 0
          BY <1>2, <1>8, <2>1, <3>2, <3>4
        <4>2. ~(Along(l, s, c) < 0)
          BY <2>3, <3>4, <4>1 DEF Clear
        <4>3. Along(l, s, c) # 0 /\ (Along(l, s, c) > 0 => (Turn(l, c, a) > 0 <=> sa > 0))
          BY <1>1, <3>1, <4>1, InLine
        <4>4. Along(l, s, c) \in Int /\ Turn(l, c, a) = -ac /\ Turn(l, c, a) \in Int
          BY <1>1, TurnIs
        <4>5. ~(Turn(l, c, a) > 0)
          BY <1>8, <4>2, <4>3, <4>4
        <4> HIDE DEF ac
        <4> QED BY <1>2, <4>4, <4>5
      <3>5. CASE Along(l, s, b) < 0
        <4>1. sa = 0
          BY <1>2, <1>8, <2>1, <3>2, <3>3, <3>5
        <4>2. ~(Along(l, s, a) > 0)
          BY <2>3, <3>5, <4>1 DEF Clear
        <4>3. Along(l, s, a) # 0 /\ (Along(l, s, a) < 0 => (ac >= 0 <=> sc <= 0))
          BY <1>1, <3>1, <4>1, InLine
        <4>4. Along(l, s, a) \in Int
          BY <1>1, TurnIs
        <4> QED BY <1>2, <1>8, <4>2, <4>3, <4>4
      <3> QED BY <3>2, <3>3, <3>4, <3>5
    <2> QED BY <1>2, <2>1, <2>2, <2>3
  <1> QED BY <1>6, <1>7, <1>8 DEF Before

(* The ray to c meets the edge from f to t: c comes between f and t.       *)
LEMMA MeetsBetween ==
    ASSUME NEW l \in Points, NEW s \in Points, NEW P, Clear(l, s, P),
           NEW f \in P, NEW t \in P, NEW c \in P, Turn(l, f, t) > 0,
           Before(l, s, f, c), Before(l, s, c, t)
    PROVE  Turn(l, f, c) >= 0 /\ Turn(l, c, t) >= 0
  <1>1. f \in Points /\ t \in Points /\ c \in Points
    BY DEF Clear
  <1> DEFINE sf == Turn(l, s, f)
             st == Turn(l, s, t)
             sc == Turn(l, s, c)
             fc == Turn(l, f, c)
             ct == Turn(l, c, t)
             ft == Turn(l, f, t)
  <1>2. sf \in Int /\ st \in Int /\ sc \in Int /\ fc \in Int /\ ct \in Int /\ ft \in Int
        /\ ft > 0
    BY <1>1, TurnIs
  <1>3. sc * ft = sf * ct + st * fc
    BY <1>1, FourTurns
  <1>4. /\ (sf > 0 /\ ~(sc > 0)) \/ ((sf > 0 <=> sc > 0) /\ fc >= 0)
        /\ (sc > 0 /\ ~(st > 0)) \/ ((sc > 0 <=> st > 0) /\ ct >= 0)
    BY DEF Before
  <1>5. CASE (sf > 0 <=> sc > 0) /\ (sc > 0 <=> st > 0)
    BY <1>4, <1>5
  <1>6. CASE sf > 0 /\ sc > 0 /\ ~(st > 0)
    <2>1. fc >= 0
      BY <1>4, <1>6
    <2> HIDE DEF sf, st, sc, fc, ct, ft
    <2>2. sc * ft > 0 /\ st * fc <= 0 /\ st * fc \in Int /\ sc * ft \in Int /\ sf * ct \in Int
      BY <1>2, <1>6, <2>1, Signs
    <2>3. sf * ct >= 0
      BY <1>3, <2>2
    <2>4. ct >= 0
      BY <1>2, <1>6, <2>2, <2>3, Decides
    <2> QED BY <2>1, <2>4 DEF fc, ct
  <1>7. CASE sf > 0 /\ ~(sc > 0) /\ ~(st > 0)
    <2>1. ct >= 0
      BY <1>4, <1>7
    <2>2. /\ sf * ct >= 0 /\ sf * ct \in Int /\ sc * ft <= 0 /\ sc * ft \in Int
             /\ st * fc \in Int
      BY <1>2, <1>7, <2>1, Signs
    <2>3. CASE st < 0
      <3> HIDE DEF sf, st, sc, fc, ct, ft
      <3>1. st * fc <= 0
        BY <1>3, <2>2
      <3>2. fc >= 0
        BY <1>2, <2>2, <2>3, <3>1, Decides
      <3> QED BY <2>1, <3>2 DEF fc, ct
    <2>4. CASE st = 0
      <3>1. Along(l, s, s) > 0 /\ Along(l, t, t) > 0 /\ Along(l, c, c) > 0
        BY DEF Clear
      <3>2. /\ Along(l, s, t) # 0 /\ Along(l, s, t) \in Int
            /\ Along(l, s, t) > 0 => (Turn(l, t, f) > 0 <=> sf > 0)
            /\ Along(l, s, t) < 0 => (Turn(l, t, c) > 0 <=> sc < 0)
        <4>1. Along(l, s, t) > 0 => (Turn(l, t, f) > 0 <=> sf > 0)
          BY <1>1, <2>4, <3>1, InLine
        <4>2. Along(l, s, t) # 0 /\ (Along(l, s, t) < 0 => (Turn(l, t, c) > 0 <=> sc < 0))
          BY <1>1, <2>4, <3>1, InLine
        <4>3. Along(l, s, t) \in Int
          BY <1>1, TurnIs
        <4> QED BY <4>1, <4>2, <4>3
      <3>3. Turn(l, t, f) = -ft /\ Turn(l, t, c) = -ct
        BY <1>1, TurnIs
      <3>4. Along(l, s, t) < 0
        BY <1>2, <1>7, <3>2, <3>3
      <3>5. sc = 0
        BY <1>2, <1>7, <2>1, <3>2, <3>3, <3>4
      <3>6. ~(Along(l, s, c) > 0)
        BY <2>4, <3>4, <3>5 DEF Clear
      <3>7. Along(l, s, c) # 0 /\ (Along(l, s, c) < 0 => (Turn(l, c, f) > 0 <=> sf < 0))
        BY <1>1, <3>1, <3>5, InLine
      <3>8. Along(l, s, c) \in Int /\ Turn(l, c, f) = -fc
        BY <1>1, TurnIs
      <3>9. fc >= 0
        BY <1>2, <1>7, <3>6, <3>7, <3>8
      <3> QED BY <2>1, <3>9
    <2> QED BY <1>2, <1>7, <2>3, <2>4
  <1> QED BY <1>4, <1>5, <1>6, <1>7

(* An edge that ends before it begins is met by the ray to s,              *)
LEMMA MeetsStart ==
    ASSUME NEW l \in Points, NEW s \in Points, NEW f \in Points, NEW t \in Points,
           Turn(l, f, t) > 0, Before(l, s, t, f)
    PROVE  Turn(l, s, t) > 0 /\ Turn(l, s, f) <= 0
  <1>1. Turn(l, t, f) = -Turn(l, f, t) /\ Turn(l, f, t) \in Int
        /\ Turn(l, s, t) \in Int /\ Turn(l, s, f) \in Int
    BY TurnIs
  <1>2. ~(Turn(l, t, f) >= 0)
    BY <1>1
  <1> QED BY <1>1, <1>2 DEF Before

(* and by the rays to points before its end or after its beginning.        *)
LEMMA MeetsAcross ==
    ASSUME NEW l \in Points, NEW s \in Points, NEW P, Clear(l, s, P),
           NEW f \in P, NEW t \in P, NEW c \in P, Turn(l, f, t) > 0,
           Before(l, s, t, f), Before(l, s, f, c) \/ Before(l, s, c, t)
    PROVE  Turn(l, f, c) >= 0 /\ Turn(l, c, t) >= 0
  <1>1. f \in Points /\ t \in Points /\ c \in Points
    BY DEF Clear
  <1> DEFINE sf == Turn(l, s, f)
             st == Turn(l, s, t)
             sc == Turn(l, s, c)
             fc == Turn(l, f, c)
             ct == Turn(l, c, t)
             ft == Turn(l, f, t)
  <1>2. sf \in Int /\ st \in Int /\ sc \in Int /\ fc \in Int /\ ct \in Int /\ ft \in Int
        /\ ft > 0
    BY <1>1, TurnIs
  <1>3. sc * ft = sf * ct + st * fc
    BY <1>1, FourTurns
  <1>4. st > 0 /\ sf <= 0
    BY <1>1, MeetsStart
  <1>5. CASE Before(l, s, f, c)
    <2>1. ~(sc > 0) /\ fc >= 0
      BY <1>2, <1>4, <1>5 DEF Before
    <2>2. st * fc >= 0 /\ st * fc \in Int /\ sc * ft <= 0 /\ sc * ft \in Int
          /\ sf * ct \in Int
      BY <1>2, <1>4, <2>1, Signs
    <2>3. CASE sf < 0
      <3> HIDE DEF sf, st, sc, fc, ct, ft
      <3>1. sf * ct <= 0
        BY <1>3, <2>2
      <3>2. ct >= 0
        BY <1>2, <2>2, <2>3, <3>1, Decides
      <3> QED BY <2>1, <3>2 DEF fc, ct
    <2>4. CASE sf = 0
      <3>1. Along(l, s, s) > 0 /\ Along(l, f, f) > 0 /\ Along(l, c, c) > 0
        BY DEF Clear
      <3>2. /\ Along(l, s, f) # 0 /\ Along(l, s, f) \in Int
            /\ Along(l, s, f) < 0 => (Turn(l, f, t) > 0 <=> st < 0)
            /\ Along(l, s, f) > 0 => (Turn(l, f, c) >= 0 <=> sc >= 0)
        <4>1. Along(l, s, f) < 0 => (Turn(l, f, t) > 0 <=> st < 0)
          BY <1>1, <2>4, <3>1, InLine
        <4>2. Along(l, s, f) # 0 /\ (Along(l, s, f) > 0 => (Turn(l, f, c) >= 0 <=> sc >= 0))
          BY <1>1, <2>4, <3>1, InLine
        <4>3. Along(l, s, f) \in Int
          BY <1>1, TurnIs
        <4> QED BY <4>1, <4>2, <4>3
      <3>3. Along(l, s, f) > 0
        BY <1>2, <1>4, <3>2
      <3>4. sc = 0
        BY <1>2, <2>1, <3>2, <3>3
      <3>5. ~(Along(l, s, c) < 0)
        BY <2>4, <3>3, <3>4 DEF Clear
      <3>6. Along(l, s, c) # 0 /\ (Along(l, s, c) > 0 => (ct > 0 <=> st > 0))
        BY <1>1, <3>1, <3>4, InLine
      <3>7. Along(l, s, c) \in Int
        BY <1>1, TurnIs
      <3>8. ct >= 0
        BY <1>2, <1>4, <3>5, <3>6, <3>7
      <3> QED BY <2>1, <3>8
    <2> QED BY <1>2, <1>4, <2>3, <2>4
  <1>6. CASE Before(l, s, c, t)
    <2>1. sc > 0 /\ ct >= 0
      BY <1>2, <1>4, <1>6 DEF Before
    <2> HIDE DEF sf, st, sc, fc, ct, ft
    <2>2. sf * ct <= 0 /\ sf * ct \in Int /\ sc * ft > 0 /\ sc * ft \in Int /\ st * fc \in Int
      BY <1>2, <1>4, <2>1, Signs
    <2>3. st * fc >= 0
      BY <1>3, <2>2
    <2>4. fc >= 0
      BY <1>2, <1>4, <2>2, <2>3, Decides
    <2> QED BY <2>1, <2>4 DEF fc, ct
  <1> QED BY <1>5, <1>6

-----------------------------------------------------------------------------
(* The sort.                                                               *)
EndsOf(es) == [edge : 1 .. Len(es), end : {"from", "to"}]

(* The list q of ends is sorted around l, from s on.                       *)
Ordered(es, l, s, q) ==
    \A i, j \in 1 .. Len(q) : i < j => Before(l, s, PointOf(es, q[i]), PointOf(es, q[j]))

(* An end of an edge is a point.                                           *)
LEMMA PointIs ==
    ASSUME NEW es \in Seq(EdgeRecords), NEW e \in EndsOf(es)
    PROVE  PointOf(es, e) \in Points
  <1>1. e.edge \in 1 .. Len(es) /\ es[e.edge] \in EdgeRecords
    BY DEF EndsOf
  <1>2. es[e.edge].from \in Points /\ es[e.edge].to \in Points
    BY <1>1 DEF EdgeRecords
  <1> QED BY <1>2 DEF PointOf

(* Where a point is inserted: after those that come no later.              *)
LEMMA PlaceFor ==
    ASSUME NEW l \in Points, NEW s \in Points, NEW es \in Seq(EdgeRecords),
           NEW q \in Seq(EndsOf(es)), NEW p \in EndsOf(es)
    PROVE  \E k \in 0 .. Len(q) :
              /\ InsertPoint(es, l, s, q, p) = InsertAt(q, k + 1, p)
              /\ k # 0 => Before(l, s, PointOf(es, q[k]), PointOf(es, p))
              /\ \A j \in 1 .. Len(q) : j > k => ~Before(l, s, PointOf(es, q[j]), PointOf(es, p))
  <1> DEFINE no(j) == ComparePoints(PointOf(es, q[j]), PointOf(es, p), l, s) <= 0
             S == {0} \union {j \in DOMAIN q : no(j)}
             k == Max(S)
  <1>1. DOMAIN q = 1 .. Len(q) /\ Len(q) \in Nat
    OBVIOUS
  <1>2. \A j \in 1 .. Len(q) : no(j) <=> Before(l, s, PointOf(es, q[j]), PointOf(es, p))
    <2> TAKE j \in 1 .. Len(q)
    <2>1. PointOf(es, q[j]) \in Points /\ PointOf(es, p) \in Points
      <3>1. q[j] \in EndsOf(es)
        BY <1>1
      <3> QED BY <3>1, PointIs
    <2> QED BY <2>1, ComparisonIs
  <1>3. k \in S /\ \A j \in S : j <= k
    <2>1. S \subseteq 0 .. Len(q) /\ S # {} /\ S \in SUBSET Nat
      BY <1>1
    <2>2. IsFiniteSet(0 .. Len(q))
      BY <1>1, FS_Interval
    <2>3. IsFiniteSet(S)
      BY <2>1, <2>2, FS_Subset
    <2> HIDE DEF S
    <2> QED BY <2>1, <2>3, GreatestFinite
  <1>4. InsertPoint(es, l, s, q, p) = InsertAt(q, k + 1, p)
    BY DEF InsertPoint
  <1>5. k \in 0 .. Len(q)
    BY <1>1, <1>3
  <1> HIDE DEF k, no
  <1>6. k # 0 => no(k) /\ k \in 1 .. Len(q)
    BY <1>1, <1>3
  <1>7. \A j \in 1 .. Len(q) : j > k => ~no(j)
    BY <1>1, <1>3, <1>5
  <1>8. \A j \in 1 .. Len(q) : j > k => ~Before(l, s, PointOf(es, q[j]), PointOf(es, p))
    BY <1>2, <1>7
  <1>9. k # 0 => Before(l, s, PointOf(es, q[k]), PointOf(es, p))
    BY <1>2, <1>6
  <1> QED BY <1>4, <1>5, <1>8, <1>9

(* An insertion into a sorted list leaves it sorted, when the points are   *)
(* clear.                                                                  *)
LEMMA InsertKeepsOrder ==
    ASSUME NEW l \in Points, NEW s \in Points, NEW es \in Seq(EdgeRecords),
           NEW q \in Seq(EndsOf(es)), NEW p \in EndsOf(es), NEW P, Clear(l, s, P),
           Ordered(es, l, s, q), PointOf(es, p) \in P,
           \A i \in 1 .. Len(q) : PointOf(es, q[i]) \in P
    PROVE  Ordered(es, l, s, InsertPoint(es, l, s, q, p))
  <1>1. PICK k \in 0 .. Len(q) :
              /\ InsertPoint(es, l, s, q, p) = InsertAt(q, k + 1, p)
              /\ k # 0 => Before(l, s, PointOf(es, q[k]), PointOf(es, p))
              /\ \A j \in 1 .. Len(q) : j > k => ~Before(l, s, PointOf(es, q[j]), PointOf(es, p))
    BY PlaceFor
  <1> DEFINE r == InsertAt(q, k + 1, p)
             at(i) == PointOf(es, q[i])
             x == PointOf(es, p)
  <1>2. Len(q) \in Nat /\ k + 1 \in 1 .. Len(q) + 1
    OBVIOUS
  <1>3. /\ Len(r) = Len(q) + 1 /\ r[k + 1] = p
        /\ \A j \in 1 .. Len(q) : r[IF j < k + 1 THEN j ELSE j + 1] = q[j]
    <2> DEFINE S == EndsOf(es)
               n == k + 1
    <2>1. q \in Seq(S) /\ p \in S /\ n \in 1 .. Len(q) + 1
      BY <1>2
    <2> HIDE DEF S, n
    <2>2. /\ Len(InsertAt(q, n, p)) = Len(q) + 1 /\ InsertAt(q, n, p)[n] = p
          /\ \A j \in 1 .. Len(q) : InsertAt(q, n, p)[IF j < n THEN j ELSE j + 1] = q[j]
      BY <2>1, Inserted
    <2> QED BY <2>2 DEF n
  <1>4. /\ \A j \in 1 .. k : r[j] = q[j]
        /\ \A j \in k + 2 .. Len(q) + 1 : r[j] = q[j - 1]
    <2>1. ASSUME NEW j \in 1 .. k PROVE r[j] = q[j]
      <3>1. j \in 1 .. Len(q) /\ j < k + 1
        BY <1>2
      <3> HIDE DEF r
      <3> QED BY <1>3, <3>1
    <2>2. ASSUME NEW j \in k + 2 .. Len(q) + 1 PROVE r[j] = q[j - 1]
      <3>1. j - 1 \in 1 .. Len(q) /\ ~(j - 1 < k + 1) /\ (j - 1) + 1 = j
        BY <1>2
      <3> HIDE DEF r
      <3> QED BY <1>3, <3>1
    <2> QED BY <2>1, <2>2
  <1>5. x \in Points /\ \A j \in 1 .. Len(q) : at(j) \in P /\ at(j) \in Points
    BY DEF Clear
  <1>6. \A i, j \in 1 .. Len(q) : i < j => Before(l, s, at(i), at(j))
    BY DEF Ordered
  <1> HIDE DEF r, at, x
  <1>7. \A j \in 1 .. k : Before(l, s, at(j), x)
    <2> TAKE j \in 1 .. k
    <2>1. k \in 1 .. Len(q) /\ j \in 1 .. Len(q) /\ k # 0
      BY <1>2
    <2>2. Before(l, s, at(k), x)
      BY <1>1, <2>1 DEF at, x
    <2>3. CASE j = k
      BY <2>2, <2>3
    <2>4. CASE j < k
      <3>1. Before(l, s, at(j), at(k))
        BY <1>6, <2>1, <2>4
      <3>2. at(j) \in P /\ at(k) \in P /\ x \in P
        BY <1>5, <2>1 DEF x
      <3> QED BY <2>2, <3>1, <3>2, BeforeTransitive
    <2> QED BY <2>1, <2>3, <2>4
  <1>8. \A j \in 1 .. Len(q) : j > k => Before(l, s, x, at(j))
    <2> TAKE j \in 1 .. Len(q)
    <2>1. j > k => ~Before(l, s, at(j), x)
      BY <1>1 DEF at, x
    <2> QED BY <1>5, <2>1, BeforeTotal
  <1>9. ASSUME NEW i \in 1 .. Len(r), NEW j \in 1 .. Len(r), i < j
        PROVE  Before(l, s, PointOf(es, r[i]), PointOf(es, r[j]))
    <2>1. i \in 1 .. Len(q) + 1 /\ j \in 1 .. Len(q) + 1
      BY <1>3
    <2>2. CASE i = k + 1
      <3>1. j \in k + 2 .. Len(q) + 1 /\ j - 1 \in 1 .. Len(q) /\ j - 1 > k
        BY <1>2, <1>9, <2>1, <2>2
      <3>2. PointOf(es, r[i]) = x /\ PointOf(es, r[j]) = at(j - 1)
        BY <1>3, <1>4, <2>2, <3>1 DEF at, x
      <3> QED BY <1>8, <3>1, <3>2
    <2>3. CASE j = k + 1
      <3>1. i \in 1 .. k
        BY <1>2, <1>9, <2>1, <2>3
      <3>2. PointOf(es, r[j]) = x /\ PointOf(es, r[i]) = at(i)
        BY <1>3, <1>4, <2>3, <3>1 DEF at, x
      <3> QED BY <1>7, <3>1, <3>2
    <2>4. CASE i # k + 1 /\ j # k + 1
      <3> DEFINE m(y) == IF y < k + 1 THEN y ELSE y - 1
      <3>1. m(i) \in 1 .. Len(q) /\ m(j) \in 1 .. Len(q) /\ m(i) < m(j)
        BY <1>2, <1>9, <2>1, <2>4
      <3>2. r[i] = q[m(i)] /\ r[j] = q[m(j)]
        <4>1. /\ i \in 1 .. k \/ i \in k + 2 .. Len(q) + 1
              /\ j \in 1 .. k \/ j \in k + 2 .. Len(q) + 1
          BY <1>2, <2>1, <2>4
        <4> QED BY <1>2, <1>4, <4>1
      <3> HIDE DEF m
      <3>3. PointOf(es, r[i]) = at(m(i)) /\ PointOf(es, r[j]) = at(m(j))
        BY <3>2 DEF at
      <3> QED BY <1>6, <3>1, <3>3
    <2> QED BY <2>2, <2>3, <2>4
  <1>10. Ordered(es, l, s, r)
    BY <1>9 DEF Ordered
  <1> QED BY <1>1, <1>10 DEF r

(* What an insertion adds.                                                 *)
LEMMA InsertAdds ==
    ASSUME NEW S, NEW q \in Seq(S), NEW i \in 1 .. Len(q) + 1, NEW c \in S
    PROVE  /\ InsertAt(q, i, c) \in Seq(S)
           /\ ToSet(InsertAt(q, i, c)) = ToSet(q) \union {c}
           /\ IsInjective(q) /\ c \notin ToSet(q) => IsInjective(InsertAt(q, i, c))
  <1> DEFINE r == InsertAt(q, i, c)
             n == Len(q)
  <1>1. /\ r \in Seq(S) /\ n \in Nat /\ Len(r) = n + 1 /\ r[i] = c
        /\ \A j \in 1 .. n : r[IF j < i THEN j ELSE j + 1] = q[j]
    BY Inserted
  <1>2. DOMAIN q = 1 .. n /\ DOMAIN r = 1 .. n + 1 /\ i \in 1 .. n + 1
    BY <1>1
  <1> HIDE DEF r, n
  <1> DEFINE m(y) == IF y < i THEN y ELSE y - 1
  <1>3. \A y \in 1 .. n + 1 : y # i => m(y) \in 1 .. n /\ r[y] = q[m(y)]
    <2> TAKE y \in 1 .. n + 1
    <2>1. CASE y < i
      <3>1. y \in 1 .. n
        BY <1>1, <1>2, <2>1
      <3>2. r[IF y < i THEN y ELSE y + 1] = q[y]
        BY <1>1, <3>1
      <3> QED BY <2>1, <3>1, <3>2
    <2>2. CASE y > i
      <3>1. y - 1 \in 1 .. n /\ ~(y - 1 < i) /\ (y - 1) + 1 = y /\ ~(y < i)
        BY <1>1, <1>2, <2>2
      <3>2. r[IF y - 1 < i THEN y - 1 ELSE (y - 1) + 1] = q[y - 1]
        BY <1>1, <3>1
      <3> QED BY <3>1, <3>2
    <2> QED BY <1>1, <1>2, <2>1, <2>2
  <1>4. \A y, z \in 1 .. n + 1 : y # i /\ z # i /\ m(y) = m(z) => y = z
    BY <1>1, <1>2
  <1>5. ToSet(r) \subseteq ToSet(q) \union {c}
    <2> SUFFICES ASSUME NEW y \in 1 .. n + 1 PROVE r[y] \in ToSet(q) \union {c}
      BY <1>2 DEF ToSet
    <2>1. CASE y = i
      BY <1>1, <2>1
    <2>2. CASE y # i
      <3> HIDE DEF m
      <3>1. m(y) \in DOMAIN q /\ r[y] = q[m(y)]
        BY <1>2, <1>3, <2>2
      <3> QED BY <3>1 DEF ToSet
    <2> QED BY <2>1, <2>2
  <1>6. ToSet(q) \union {c} \subseteq ToSet(r)
    <2>1. c \in ToSet(r)
      BY <1>1, <1>2 DEF ToSet
    <2>2. ASSUME NEW j \in 1 .. n PROVE q[j] \in ToSet(r)
      <3>1. (IF j < i THEN j ELSE j + 1) \in DOMAIN r
        BY <1>1, <1>2
      <3> QED BY <1>1, <3>1 DEF ToSet
    <2> QED BY <1>2, <2>1, <2>2 DEF ToSet
  <1>7. ASSUME IsInjective(q), c \notin ToSet(q)
        PROVE  IsInjective(r)
    <2>1. \A j \in 1 .. n : q[j] # c
      BY <1>2, <1>7 DEF ToSet
    <2>2. \A j, k \in 1 .. n : q[j] = q[k] => j = k
      BY <1>2, <1>7 DEF IsInjective
    <2> HIDE DEF m
    <2>3. ASSUME NEW y \in 1 .. n + 1, NEW z \in 1 .. n + 1, r[y] = r[z]
          PROVE  y = z
      <3>1. CASE y = i
        BY <1>1, <1>3, <2>1, <2>3, <3>1
      <3>2. CASE z = i
        BY <1>1, <1>3, <2>1, <2>3, <3>2
      <3>3. CASE y # i /\ z # i
        <4>1. m(y) \in 1 .. n /\ m(z) \in 1 .. n /\ q[m(y)] = q[m(z)]
          BY <1>3, <2>3, <3>3
        <4>2. m(y) = m(z)
          BY <2>2, <4>1
        <4> QED BY <1>4, <3>3, <4>2
      <3> QED BY <3>1, <3>2, <3>3
    <2> QED BY <1>2, <2>3 DEF IsInjective
  <1>8. ToSet(r) = ToSet(q) \union {c}
    BY <1>5, <1>6
  <1> QED BY <1>1, <1>7, <1>8 DEF r

(* f is the list of the first 0, 1, ... insertions: what the recursive     *)
(* function of the model is.                                               *)
AreInserted(es, l, s, ps, n, f) ==
    f = [k \in 0 .. n |-> IF k = 0 THEN <<>> ELSE InsertPoint(es, l, s, f[k - 1], ps[k])]

(* The recursive definition of the insertions has a solution.              *)
LEMMA InsertionsExist ==
    ASSUME NEW es, NEW l, NEW s, NEW S, NEW ps \in Seq(S)
    PROVE  \E f : AreInserted(es, l, s, ps, Len(ps), f)
  <1> DEFINE G == {n \in Nat : \E f : AreInserted(es, l, s, ps, n, f)}
  <1>1. 0 \in G
    <2> DEFINE g == [i \in 0 .. 0 |-> <<>>]
    <2>1. g = [k \in 0 .. 0 |-> IF k = 0 THEN <<>> ELSE InsertPoint(es, l, s, g[k - 1], ps[k])]
      OBVIOUS
    <2>2. AreInserted(es, l, s, ps, 0, g)
      BY <2>1 DEF AreInserted
    <2> QED BY <2>2
  <1>2. ASSUME NEW n \in Nat, n \in G
        PROVE  n + 1 \in G
    <2>1. PICK g : AreInserted(es, l, s, ps, n, g)
      BY <1>2
    <2>2. g = [k \in 0 .. n |-> IF k = 0 THEN <<>> ELSE InsertPoint(es, l, s, g[k - 1], ps[k])]
      BY <2>1 DEF AreInserted
    <2> DEFINE new == InsertPoint(es, l, s, g[n], ps[n + 1])
    <2> HIDE DEF new
    <2> DEFINE h == [i \in 0 .. n + 1 |-> IF i = n + 1 THEN new ELSE g[i]]
    <2>3. \A i \in 0 .. n : h[i] = g[i]
      OBVIOUS
    <2>4. ASSUME NEW i \in 0 .. n + 1
          PROVE  h[i] = IF i = 0 THEN <<>> ELSE InsertPoint(es, l, s, h[i - 1], ps[i])
      <3>1. CASE i = 0
        <4>1. g[0] = <<>>
          BY <2>2
        <4> QED BY <2>3, <3>1, <4>1
      <3>2. CASE i \in 1 .. n
        <4>1. i - 1 \in 0 .. n /\ i \in 0 .. n /\ i # 0
          BY <3>2
        <4>2. g[i] = InsertPoint(es, l, s, g[i - 1], ps[i])
          BY <2>2, <4>1
        <4> HIDE DEF h
        <4>3. h[i] = g[i] /\ h[i - 1] = g[i - 1]
          BY <2>3, <4>1
        <4> QED BY <4>1, <4>2, <4>3
      <3>3. CASE i = n + 1
        <4>1. h[i] = new
          BY <3>3
        <4>2. h[n] = g[n] /\ i # 0 /\ i - 1 = n
          BY <2>3, <3>3
        <4> HIDE DEF h
        <4> QED BY <3>3, <4>1, <4>2 DEF new
      <3> QED BY <3>1, <3>2, <3>3
    <2>5. h = [i \in 0 .. n + 1 |-> h[i]]
      OBVIOUS
    <2> HIDE DEF h
    <2>6. h = [i \in 0 .. n + 1 |-> IF i = 0 THEN <<>> ELSE InsertPoint(es, l, s, h[i - 1], ps[i])]
      BY <2>4, <2>5
    <2>7. AreInserted(es, l, s, ps, n + 1, h)
      BY <2>6 DEF AreInserted
    <2> QED BY <2>7
  <1> HIDE DEF G
  <1>3. Nat \subseteq G
    BY <1>1, <1>2, NatInd
  <1>4. Len(ps) \in G
    BY <1>3
  <1> QED BY <1>4 DEF G

(* So the function of the model is that solution.                          *)
LEMMA InsertionsAre ==
    ASSUME NEW es, NEW l, NEW s, NEW S, NEW ps \in Seq(S)
    PROVE  \A k \in 0 .. Len(ps) : InsertedPoints(es, l, s, ps)[k] =
              IF k = 0 THEN <<>>
              ELSE InsertPoint(es, l, s, InsertedPoints(es, l, s, ps)[k - 1], ps[k])
  <1> DEFINE f == InsertedPoints(es, l, s, ps)
  <1>1. \E g : AreInserted(es, l, s, ps, Len(ps), g)
    BY InsertionsExist
  <1>2. f = CHOOSE g : AreInserted(es, l, s, ps, Len(ps), g)
    BY DEF InsertedPoints, AreInserted
  <1> HIDE DEF f
  <1>3. AreInserted(es, l, s, ps, Len(ps), f)
    <2>1. AreInserted(es, l, s, ps, Len(ps), CHOOSE g : AreInserted(es, l, s, ps, Len(ps), g))
      BY <1>1
    <2> QED BY <1>2, <2>1
  <1>4. f = [k \in 0 .. Len(ps) |-> IF k = 0 THEN <<>> ELSE InsertPoint(es, l, s, f[k - 1], ps[k])]
    BY <1>3 DEF AreInserted
  <1>5. \A k \in 0 .. Len(ps) : f[k] = IF k = 0 THEN <<>> ELSE InsertPoint(es, l, s, f[k - 1], ps[k])
    BY <1>4
  <1> QED BY <1>5 DEF f

(* The first k of the points, sorted.                                      *)
IsSorting(es, l, s, ps, k, q) ==
    /\ q \in Seq(EndsOf(es)) /\ IsInjective(q)
    /\ ToSet(q) = {ps[i] : i \in 1 .. k}
    /\ \A P : Clear(l, s, P) /\ (\A i \in 1 .. Len(ps) : PointOf(es, ps[i]) \in P)
              => Ordered(es, l, s, q)

(* No points are sorted,                                                   *)
LEMMA SortingStarts ==
    ASSUME NEW es, NEW l, NEW s, NEW ps
    PROVE  IsSorting(es, l, s, ps, 0, << >>)
  <1> DEFINE q == << >>
  <1>1. q \in Seq(EndsOf(es)) /\ Len(q) = 0
    OBVIOUS
  <1>2. IsInjective(q)
    BY DEF IsInjective
  <1>3. ToSet(q) = {}
    BY ElementsOf
  <1>4. {ps[i] : i \in 1 .. 0} = {}
    OBVIOUS
  <1> HIDE DEF q
  <1>5. Ordered(es, l, s, q)
    BY <1>1 DEF Ordered
  <1>6. IsSorting(es, l, s, ps, 0, q)
    BY <1>1, <1>2, <1>3, <1>4, <1>5 DEF IsSorting
  <1> QED BY <1>6 DEF q

(* the next one is put where it belongs,                                   *)
LEMMA SortingGoesOn ==
    ASSUME NEW l \in Points, NEW s \in Points, NEW es \in Seq(EdgeRecords),
           NEW ps \in Seq(EndsOf(es)), IsInjective(ps), NEW k \in 1 .. Len(ps),
           NEW q, IsSorting(es, l, s, ps, k - 1, q)
    PROVE  IsSorting(es, l, s, ps, k, InsertPoint(es, l, s, q, ps[k]))
  <1> DEFINE p == ps[k]
             r == InsertPoint(es, l, s, q, p)
             S == EndsOf(es)
  <1>1. /\ q \in Seq(S) /\ IsInjective(q) /\ ToSet(q) = {ps[i] : i \in 1 .. k - 1}
        /\ p \in S /\ DOMAIN ps = 1 .. Len(ps) /\ Len(ps) \in Nat
    BY DEF IsSorting
  <1>2. p \notin ToSet(q)
    <2>1. ASSUME NEW i \in 1 .. k - 1 PROVE ps[i] # ps[k]
      <3>1. i \in DOMAIN ps /\ k \in DOMAIN ps /\ i # k
        BY <1>1
      <3> QED BY <3>1 DEF IsInjective
    <2> QED BY <1>1, <2>1
  <1>3. PICK n \in 0 .. Len(q) : r = InsertAt(q, n + 1, p)
    BY <1>1, PlaceFor
  <1>4. n + 1 \in 1 .. Len(q) + 1
    BY <1>1
  <1>5. r \in Seq(S) /\ ToSet(r) = ToSet(q) \union {p} /\ IsInjective(r)
    <2> DEFINE m == n + 1
    <2>1. /\ m \in 1 .. Len(q) + 1 /\ q \in Seq(S) /\ p \in S /\ r = InsertAt(q, m, p)
          /\ IsInjective(q) /\ p \notin ToSet(q)
      BY <1>1, <1>2, <1>3, <1>4
    <2> HIDE DEF m, S, r, p
    <2>2. InsertAt(q, m, p) \in Seq(S) /\ ToSet(InsertAt(q, m, p)) = ToSet(q) \union {p}
          /\ IsInjective(InsertAt(q, m, p))
      BY <2>1, InsertAdds
    <2> QED BY <2>1, <2>2
  <1>6. ToSet(r) = {ps[i] : i \in 1 .. k}
    <2>1. 1 .. k = (1 .. k - 1) \union {k}
      OBVIOUS
    <2> HIDE DEF r
    <2>2. {ps[i] : i \in 1 .. k} = {ps[i] : i \in 1 .. k - 1} \union {ps[k]}
      BY <2>1
    <2> QED BY <1>1, <1>5, <2>2
  <1>7. ASSUME NEW P, Clear(l, s, P), \A i \in 1 .. Len(ps) : PointOf(es, ps[i]) \in P
        PROVE  Ordered(es, l, s, r)
    <2>1. Ordered(es, l, s, q)
      BY <1>7 DEF IsSorting
    <2>2. PointOf(es, p) \in P
      BY <1>7
    <2>3. \A i \in 1 .. Len(q) : PointOf(es, q[i]) \in P
      <3> TAKE i \in 1 .. Len(q)
      <3>1. q[i] \in ToSet(q)
        BY <1>1 DEF ToSet
      <3>2. PICK j \in 1 .. k - 1 : q[i] = ps[j]
        BY <1>1, <3>1
      <3>3. j \in 1 .. Len(ps)
        BY <1>1
      <3> QED BY <1>7, <3>2, <3>3
    <2> HIDE DEF p, r, S
    <2>4. q \in Seq(EndsOf(es)) /\ p \in EndsOf(es)
      BY <1>1 DEF S
    <2> QED BY <1>7, <2>1, <2>2, <2>3, <2>4, InsertKeepsOrder DEF r
  <1> HIDE DEF r
  <1>8. IsSorting(es, l, s, ps, k, r)
    BY <1>5, <1>6, <1>7 DEF IsSorting
  <1> QED BY <1>8 DEF r

(* and so all of them are.                                                 *)
LEMMA SortIs ==
    ASSUME NEW l \in Points, NEW s \in Points, NEW es \in Seq(EdgeRecords),
           NEW ps \in Seq(EndsOf(es)), IsInjective(ps)
    PROVE  IsSorting(es, l, s, ps, Len(ps), InsertedPoints(es, l, s, ps)[Len(ps)])
  <1> DEFINE f == InsertedPoints(es, l, s, ps)
             N == {k \in Nat : k <= Len(ps) => IsSorting(es, l, s, ps, k, f[k])}
  <1>1. \A k \in 0 .. Len(ps) : f[k] = IF k = 0 THEN <<>> ELSE InsertPoint(es, l, s, f[k - 1], ps[k])
    BY InsertionsAre
  <1>2. Len(ps) \in Nat
    OBVIOUS
  <1> HIDE DEF f
  <1>3. 0 \in N
    <2>1. f[0] = << >>
      BY <1>1, <1>2
    <2> QED BY <2>1, SortingStarts
  <1>4. ASSUME NEW k \in Nat, k \in N
        PROVE  k + 1 \in N
    <2>1. ASSUME k + 1 <= Len(ps)
          PROVE  IsSorting(es, l, s, ps, k + 1, f[k + 1])
      <3> DEFINE n == k + 1
      <3>1. n \in 1 .. Len(ps) /\ n \in 0 .. Len(ps) /\ n # 0 /\ n - 1 = k /\ k <= Len(ps)
        BY <1>2, <2>1
      <3> HIDE DEF n
      <3>2. f[n] = InsertPoint(es, l, s, f[k], ps[n])
        BY <1>1, <3>1
      <3>3. IsSorting(es, l, s, ps, n - 1, f[k])
        BY <1>4, <3>1
      <3>4. IsSorting(es, l, s, ps, n, InsertPoint(es, l, s, f[k], ps[n]))
        BY <3>1, <3>3, SortingGoesOn
      <3> QED BY <3>2, <3>4 DEF n
    <2> QED BY <2>1
  <1> HIDE DEF N
  <1>5. Nat \subseteq N
    BY <1>3, <1>4, NatInd
  <1>6. Len(ps) \in N
    BY <1>2, <1>5
  <1> QED BY <1>2, <1>6 DEF N, f

-----------------------------------------------------------------------------
(* Which end points are sorted.                                            *)
Both(i) == {End(i, "from"), End(i, "to")}

(* An end is told by its edge and its side.                                *)
LEMMA EndIs ==
    ASSUME NEW i, NEW w, NEW j, NEW v
    PROVE  /\ End(i, w).edge = i /\ End(i, w).end = w
           /\ End(i, w) = End(j, v) <=> i = j /\ w = v
  BY DEF End

(* The ends of n edges are those that End builds.                          *)
LEMMA EndsAre ==
    ASSUME NEW n \in Nat, NEW e \in [edge : 1 .. n, end : {"from", "to"}]
    PROVE  e = End(e.edge, e.end) /\ e \in Both(e.edge) /\ e.edge \in 1 .. n
  BY DEF End, Both

(* A list of one or none, and of two lists, one after the other.           *)
LEMMA OneOrNone ==
    ASSUME NEW S, NEW x \in S, NEW c \in BOOLEAN, NEW q, q = IF c THEN <<x>> ELSE <<>>
    PROVE  /\ q \in Seq(S) /\ IsInjective(q) /\ ToSet(q) = (IF c THEN {x} ELSE {})
           /\ Len(q) \in 0 .. 1 /\ \A i \in 1 .. Len(q) : i = 1 /\ q[i] = x
  <1>1. CASE c
    <2>1. q = <<x>>
      BY <1>1
    <2>2. /\ q \in Seq(S) /\ Len(q) = 1 /\ DOMAIN q = {1} /\ q[1] = x
      BY <2>1
    <2> QED BY <1>1, <2>2 DEF IsInjective, ToSet
  <1>2. CASE ~c
    <2>1. q = << >>
      BY <1>2
    <2>2. /\ q \in Seq(S) /\ Len(q) = 0 /\ DOMAIN q = {}
      BY <2>1
    <2> QED BY <1>2, <2>2 DEF IsInjective, ToSet
  <1> QED BY <1>1, <1>2

(* Two lists, one after the other: what they hold, and that nothing is     *)
(* twice.                                                                  *)
LEMMA Joined ==
    ASSUME NEW S, NEW a \in Seq(S), NEW b \in Seq(S)
    PROVE  /\ a \o b \in Seq(S) /\ ToSet(a \o b) = ToSet(a) \union ToSet(b)
           /\ IsInjective(a) /\ IsInjective(b)
              /\ ToSet(a) \cap ToSet(b) = {} => IsInjective(a \o b)
  <1> DEFINE r == a \o b
             m == Len(a)
             n == Len(b)
  <1>1. /\ r \in Seq(S) /\ m \in Nat /\ n \in Nat /\ Len(r) = m + n
        /\ \A j \in 1 .. m : r[j] = a[j]
        /\ \A j \in 1 .. n : r[m + j] = b[j]
    BY Concatenated
  <1>2. DOMAIN r = 1 .. m + n /\ DOMAIN a = 1 .. m /\ DOMAIN b = 1 .. n
    BY <1>1
  <1> HIDE DEF r, m, n
  <1>3. \A i \in 1 .. m + n : i \in 1 .. m \/ (i - m \in 1 .. n /\ m + (i - m) = i)
    BY <1>1
  <1>4. \A i \in 1 .. m + n : (i \in 1 .. m /\ r[i] = a[i]) \/ (i - m \in 1 .. n
        /\ r[i] = b[i - m])
    BY <1>1, <1>3
  <1>5. ToSet(r) = ToSet(a) \union ToSet(b)
    <2>1. ToSet(r) \subseteq ToSet(a) \union ToSet(b)
      <3> SUFFICES ASSUME NEW i \in 1 .. m + n PROVE r[i] \in ToSet(a) \union ToSet(b)
        BY <1>2 DEF ToSet
      <3> QED BY <1>2, <1>4 DEF ToSet
    <2>2. ASSUME NEW i \in 1 .. m PROVE a[i] \in ToSet(r)
      <3>1. i \in 1 .. m + n /\ r[i] = a[i]
        BY <1>1
      <3> QED BY <1>2, <3>1 DEF ToSet
    <2>3. ASSUME NEW i \in 1 .. n PROVE b[i] \in ToSet(r)
      <3>1. m + i \in 1 .. m + n /\ r[m + i] = b[i]
        BY <1>1
      <3> QED BY <1>2, <3>1 DEF ToSet
    <2> QED BY <1>2, <2>1, <2>2, <2>3 DEF ToSet
  <1>6. ASSUME IsInjective(a), IsInjective(b), ToSet(a) \cap ToSet(b) = {}
        PROVE  IsInjective(r)
    <2>1. \A i \in 1 .. m, j \in 1 .. n : a[i] # b[j]
      BY <1>2, <1>6 DEF ToSet
    <2>2. /\ \A i, j \in 1 .. m : a[i] = a[j] => i = j
          /\ \A i, j \in 1 .. n : b[i] = b[j] => i = j
      BY <1>2, <1>6 DEF IsInjective
    <2>3. ASSUME NEW i \in 1 .. m + n, NEW j \in 1 .. m + n, r[i] = r[j]
          PROVE  i = j
      <3>1. CASE i \in 1 .. m /\ r[i] = a[i]
        <4>1. j \in 1 .. m /\ r[j] = a[j]
          BY <1>4, <2>1, <2>3, <3>1
        <4> QED BY <2>2, <2>3, <3>1, <4>1
      <3>2. CASE i - m \in 1 .. n /\ r[i] = b[i - m]
        <4>1. j - m \in 1 .. n /\ r[j] = b[j - m]
          BY <1>4, <2>1, <2>3, <3>2
        <4>2. i - m = j - m
          BY <2>2, <2>3, <3>2, <4>1
        <4> QED BY <1>1, <4>2
      <3> QED BY <1>4, <3>1, <3>2
    <2> QED BY <1>2, <2>3 DEF IsInjective
  <1> QED BY <1>1, <1>5, <1>6 DEF r

(* OtherEnds lists the ends of all edges but the nearest one, each once.   *)
LEMMA OtherEndsAre ==
    ASSUME NEW n \in Nat, NEW m
    PROVE  /\ OtherEnds(n, m) \in Seq([edge : 1 .. n, end : {"from", "to"}])
           /\ IsInjective(OtherEnds(n, m))
           /\ ToSet(OtherEnds(n, m)) = [edge : 1 .. n, end : {"from", "to"}] \ Both(m)
  <1> DEFINE S == [edge : 1 .. n, end : {"from", "to"}]
             b == [k \in 1 .. 2 * n |->
                     End((k + 1) \div 2, IF k % 2 = 1 THEN "from" ELSE "to")]
  <1>1. \A k \in 1 .. 2 * n : (k + 1) \div 2 \in 1 .. n
    OBVIOUS
  <1>2. \A k \in 1 .. 2 * n : b[k] \in S
    BY <1>1 DEF End
  <1>3. b \in Seq(S) /\ DOMAIN b = 1 .. 2 * n
    <2>1. b \in [1 .. 2 * n -> S]
      BY <1>2
    <2>2. 2 * n \in Nat
      OBVIOUS
    <2> HIDE DEF S, b
    <2> QED BY <2>1, <2>2
  <1>4. IsInjective(b)
    <2>1. ASSUME NEW k \in 1 .. 2 * n, NEW j \in 1 .. 2 * n, b[k] = b[j]
          PROVE  k = j
      <3>1. (k + 1) \div 2 = (j + 1) \div 2
        BY <2>1, EndIs
      <3>2. k % 2 = 1 <=> j % 2 = 1
        <4>1. (IF k % 2 = 1 THEN "from" ELSE "to") = (IF j % 2 = 1 THEN "from" ELSE "to")
          BY <2>1, EndIs
        <4> QED BY <4>1
      <3> QED BY <3>1, <3>2
    <2> QED BY <1>3, <2>1 DEF IsInjective
  <1>5. ToSet(b) = S
    <2>1. ToSet(b) \subseteq S
      BY <1>2, <1>3 DEF ToSet
    <2>2. ASSUME NEW e \in S PROVE e \in ToSet(b)
      <3> DEFINE i == e.edge
                 k == IF e.end = "from" THEN 2 * i - 1 ELSE 2 * i
      <3>1. i \in 1 .. n /\ e = End(i, e.end) /\ e.end \in {"from", "to"}
        BY DEF End
      <3>2. k \in 1 .. 2 * n /\ (k + 1) \div 2 = i /\ (k % 2 = 1 <=> e.end = "from")
        BY <3>1
      <3>3. (IF k % 2 = 1 THEN "from" ELSE "to") = e.end
        BY <3>1, <3>2
      <3> HIDE DEF k
      <3>4. b[k] = e
        BY <3>1, <3>2, <3>3
      <3> HIDE DEF b
      <3> QED BY <1>3, <3>2, <3>4 DEF ToSet
    <2> QED BY <2>1, <2>2
  <1>6. OtherEnds(n, m) = Without(b, Both(m))
    BY DEF OtherEnds, Both
  <1> HIDE DEF b, S
  <1>7. Without(b, Both(m)) \in Seq(S) /\ ToSet(Without(b, Both(m))) = ToSet(b) \ Both(m)
    BY <1>3, WithoutLeaves
  <1>8. IsInjective(Without(b, Both(m)))
    BY <1>3, <1>4, WithoutInjective
  <1> QED BY <1>5, <1>6, <1>7, <1>8 DEF S

(* The end that the sweep begins with, and the one that it ends with.      *)
First(n) == End(n + 1, "from")
Final(n) == End(n + 2, "to")

(* Whether edge i has its ends in the order: not the nearest, nor a part of *)
(* it that is a point.                                                     *)
Swept(es, n, m, i) ==
    \/ i \in 1 .. n /\ i # m
    \/ i \in n + 1 .. n + 2 /\ lengthSquared(es[i]) > 0

(* The ends between them,                                                  *)
InnerOf(es, n, m) ==
    {e \in EndsOf(es) : Swept(es, n, m, e.edge) /\ e # First(n) /\ e # Final(n)}

(* which are what InnerEnds lists, each once.                              *)
LEMMA InnerEndsAre ==
    ASSUME NEW l, NEW n \in Nat, NEW es, Len(es) = n + 2, NEW m,
           m = findNearestEdge(SubSeq(es, 1, n), l)
    PROVE  /\ InnerEnds(es, n, l) \in Seq(EndsOf(es))
           /\ IsInjective(InnerEnds(es, n, l))
           /\ ToSet(InnerEnds(es, n, l)) = InnerOf(es, n, m)
  <1> DEFINE S == EndsOf(es)
             c == lengthSquared(es[n + 1]) > 0
             d == lengthSquared(es[n + 2]) > 0
             x == End(n + 1, "to")
             y == End(n + 2, "from")
             p == IF c THEN <<x>> ELSE <<>>
             q == IF d THEN <<y>> ELSE <<>>
             o == OtherEnds(n, m)
  <1>1. S = [edge : 1 .. n + 2, end : {"from", "to"}]
    BY DEF EndsOf
  <1>2. x \in S /\ y \in S /\ x # y /\ c \in BOOLEAN /\ d \in BOOLEAN
    BY <1>1 DEF End
  <1>3. InnerEnds(es, n, l) = (p \o q) \o o
    BY DEF InnerEnds
  <1> DEFINE En == [edge : 1 .. n, end : {"from", "to"}]
  <1>4. o \in Seq(En) /\ IsInjective(o) /\ ToSet(o) = En \ Both(m)
    BY OtherEndsAre
  <1>5. o \in Seq(S) /\ x \notin ToSet(o) /\ y \notin ToSet(o)
    <2>1. En \subseteq S
      BY <1>1
    <2>2. x \notin En /\ y \notin En
      BY EndIs
    <2>3. o \in Seq(S)
      <3>1. o \in Seq(En)
        BY <1>4
      <3> HIDE DEF o, S, En
      <3>2. Len(o) \in Nat /\ \A i \in 1 .. Len(o) : o[i] \in En
        BY <3>1
      <3>3. \A i \in 1 .. Len(o) : o[i] \in S
        BY <2>1, <3>2
      <3> QED BY <3>1, <3>2, <3>3
    <2> QED BY <1>4, <2>2, <2>3
  <1> HIDE DEF S, c, d, x, y, o
  <1>6. p \in Seq(S) /\ IsInjective(p) /\ ToSet(p) = IF c THEN {x} ELSE {}
    BY <1>2, OneOrNone
  <1>7. q \in Seq(S) /\ IsInjective(q) /\ ToSet(q) = IF d THEN {y} ELSE {}
    BY <1>2, OneOrNone
  <1> HIDE DEF p, q, En
  <1>8. p \o q \in Seq(S) /\ ToSet(p \o q) = ToSet(p) \union ToSet(q) /\ IsInjective(p \o q)
    <2>1. ToSet(p) \cap ToSet(q) = {}
      BY <1>2, <1>6, <1>7
    <2> QED BY <1>6, <1>7, <2>1, Joined
  <1> DEFINE pq == p \o q
             r == pq \o o
  <1>9. r \in Seq(S) /\ ToSet(r) = ToSet(pq) \union ToSet(o) /\ IsInjective(r)
    <2>1. ToSet(pq) \cap ToSet(o) = {}
      BY <1>5, <1>6, <1>7, <1>8
    <2>2. pq \in Seq(S) /\ IsInjective(pq)
      BY <1>8
    <2> HIDE DEF pq
    <2> QED BY <1>4, <1>5, <2>1, <2>2, Joined
  <1>10. ToSet(r) = InnerOf(es, n, m)
    <2>1. ToSet(r) = (IF c THEN {x} ELSE {}) \union (IF d THEN {y} ELSE {}) \union (En \ Both(m))
      BY <1>4, <1>6, <1>7, <1>8, <1>9
    <2> HIDE DEF r
    <2>2. ASSUME NEW e \in S
          PROVE  e \in ToSet(r) <=> e \in InnerOf(es, n, m)
      <3>1. e.edge \in 1 .. n + 2 /\ e.end \in {"from", "to"} /\ e = End(e.edge, e.end)
        BY <1>1 DEF End
      <3>2. CASE e.edge \in 1 .. n
        <4>1. e \in En /\ e # x /\ e # y /\ e # First(n) /\ e # Final(n)
          <5>1. e \in En
            BY <1>1, <3>2 DEF En
          <5>2. x.edge = n + 1 /\ y.edge = n + 2 /\ First(n).edge = n + 1
                /\ Final(n).edge = n + 2
            BY EndIs DEF x, y, First, Final
          <5>3. e.edge # n + 1 /\ e.edge # n + 2
            BY <3>2
          <5> QED BY <5>1, <5>2, <5>3
        <4>2. e \in Both(m) <=> e.edge = m
          BY <3>1, EndIs DEF Both
        <4>3. Swept(es, n, m, e.edge) <=> e.edge # m
          BY <3>2 DEF Swept
        <4> QED BY <2>1, <4>1, <4>2, <4>3 DEF InnerOf, S
      <3>3. CASE e.edge = n + 1
        <4>1. e \notin En /\ e # y /\ e # Final(n)
          BY <3>1, <3>3, EndIs DEF En, y, Final
        <4>2. e = x <=> e # First(n)
          BY <3>1, <3>3, EndIs DEF x, First
        <4>3. Swept(es, n, m, e.edge) <=> c
          BY <3>3 DEF Swept, c
        <4> QED BY <2>1, <4>1, <4>2, <4>3 DEF InnerOf, S
      <3>4. CASE e.edge = n + 2
        <4>1. e \notin En /\ e # x /\ e # First(n)
          BY <3>1, <3>4, EndIs DEF En, x, First
        <4>2. e = y <=> e # Final(n)
          BY <3>1, <3>4, EndIs DEF y, Final
        <4>3. Swept(es, n, m, e.edge) <=> d
          BY <3>4 DEF Swept, d
        <4> QED BY <2>1, <4>1, <4>2, <4>3 DEF InnerOf, S
      <3> QED BY <3>1, <3>2, <3>3, <3>4
    <2>3. ToSet(r) \subseteq S /\ InnerOf(es, n, m) \subseteq S
      BY <1>9, ElementsOf DEF InnerOf, S
    <2> QED BY <2>2, <2>3
  <1> QED BY <1>3, <1>9, <1>10 DEF S, pq, r

(* The sorted end points: each swept edge begins and ends once, the nearest *)
(* point comes first and last, and what is between is sorted when the points *)
(* are clear.                                                              *)
IsOrder(es, l, n, m, o) ==
    /\ o \in Seq(EndsOf(es)) /\ IsInjective(o)
    /\ ToSet(o) = {e \in EndsOf(es) : Swept(es, n, m, e.edge)}
    /\ \A i \in 1 .. Len(o) : /\ o[i] = First(n) => i = 1
                              /\ o[i] = Final(n) => i = Len(o)
    /\ \A P : /\ Clear(l, es[n + 1].from, P)
              /\ \A e \in InnerOf(es, n, m) : PointOf(es, e) \in P
              => \A i, j \in 1 .. Len(o) : i < j /\ o[i] # First(n) /\ o[j] # Final(n)
                    => Before(l, es[n + 1].from, PointOf(es, o[i]), PointOf(es, o[j]))

(* What sortEdgePoints returns is such an order.                           *)
LEMMA OrderIs ==
    ASSUME NEW l \in Points, NEW n \in Nat, NEW es \in Seq(EdgeRecords), Len(es) = n + 2,
           NEW m,
           m = findNearestEdge(SubSeq(es, 1, n), l)
    PROVE  IsOrder(es, l, n, m, sortEdgePoints(es, n, l))
  <1> DEFINE S == EndsOf(es)
             c == lengthSquared(es[n + 1]) > 0
             d == lengthSquared(es[n + 2]) > 0
             x == First(n)
             y == Final(n)
             p == IF c THEN <<x>> ELSE <<>>
             q == IF d THEN <<y>> ELSE <<>>
             inner == InnerEnds(es, n, l)
             s == es[n + 1].from
             b == InsertedPoints(es, l, s, inner)[Len(inner)]
             pb == p \o b
             o == pb \o q
  <1>1. S = [edge : 1 .. n + 2, end : {"from", "to"}]
    BY DEF EndsOf
  <1>2. x \in S /\ y \in S /\ x # y /\ c \in BOOLEAN /\ d \in BOOLEAN
    BY <1>1 DEF End, First, Final
  <1>3. s \in Points
    <2>1. n + 1 \in 1 .. Len(es)
      OBVIOUS
    <2>2. es[n + 1] \in EdgeRecords
      BY <2>1
    <2> QED BY <2>2 DEF EdgeRecords
  <1>4. sortEdgePoints(es, n, l) = o
    BY DEF sortEdgePoints, First, Final
  <1>5. inner \in Seq(S) /\ IsInjective(inner) /\ ToSet(inner) = InnerOf(es, n, m)
    BY InnerEndsAre
  <1> HIDE DEF inner, s
  <1>6. IsSorting(es, l, s, inner, Len(inner), b)
    BY <1>3, <1>5, SortIs
  <1>7. b \in Seq(S) /\ IsInjective(b) /\ ToSet(b) = InnerOf(es, n, m)
    <2>1. b \in Seq(S) /\ IsInjective(b) /\ ToSet(b) = {inner[i] : i \in 1 .. Len(inner)}
      BY <1>6 DEF IsSorting
    <2>2. ToSet(inner) = {inner[i] : i \in 1 .. Len(inner)}
      BY <1>5 DEF ToSet
    <2> QED BY <1>5, <2>1, <2>2
  <1>8. x \notin ToSet(b) /\ y \notin ToSet(b)
    BY <1>7 DEF InnerOf
  <1> HIDE DEF S, c, d, x, y, b
  <1>9. /\ p \in Seq(S) /\ IsInjective(p) /\ ToSet(p) = (IF c THEN {x} ELSE {})
        /\ Len(p) \in 0 .. 1 /\ \A i \in 1 .. Len(p) : i = 1 /\ p[i] = x
    BY <1>2, OneOrNone
  <1>10. /\ q \in Seq(S) /\ IsInjective(q) /\ ToSet(q) = (IF d THEN {y} ELSE {})
         /\ Len(q) \in 0 .. 1 /\ \A i \in 1 .. Len(q) : i = 1 /\ q[i] = y
    BY <1>2, OneOrNone
  <1> HIDE DEF p, q
  <1>11. pb \in Seq(S) /\ ToSet(pb) = ToSet(p) \union ToSet(b) /\ IsInjective(pb)
    <2>1. ToSet(p) \cap ToSet(b) = {}
      BY <1>8, <1>9
    <2> QED BY <1>7, <1>9, <2>1, Joined
  <1>12. /\ Len(pb) = Len(p) + Len(b) /\ Len(p) \in Nat /\ Len(b) \in Nat
         /\ \A j \in 1 .. Len(p) : pb[j] = p[j]
         /\ \A j \in 1 .. Len(b) : pb[Len(p) + j] = b[j]
    BY <1>7, <1>9, Concatenated
  <1> HIDE DEF pb
  <1>13. o \in Seq(S) /\ ToSet(o) = ToSet(pb) \union ToSet(q) /\ IsInjective(o)
    <2>1. ToSet(pb) \cap ToSet(q) = {}
      BY <1>2, <1>8, <1>9, <1>10, <1>11
    <2> QED BY <1>10, <1>11, <2>1, Joined
  <1>14. /\ Len(o) = Len(pb) + Len(q) /\ Len(q) \in Nat
         /\ \A j \in 1 .. Len(pb) : o[j] = pb[j]
         /\ \A j \in 1 .. Len(q) : o[Len(pb) + j] = q[j]
    BY <1>10, <1>11, Concatenated
  <1> HIDE DEF o
  (* Where the three parts of the order are.                                  *)
  <1>15. ASSUME NEW i \in 1 .. Len(o)
         PROVE  \/ i = 1 /\ o[i] = x
                \/ i - Len(p) \in 1 .. Len(b) /\ o[i] = b[i - Len(p)]
                \/ i = Len(o) /\ o[i] = y
    <2>1. CASE i <= Len(p)
      <3>1. i \in 1 .. Len(p) /\ i \in 1 .. Len(pb)
        BY <1>12, <2>1
      <3> QED BY <1>9, <1>12, <1>14, <3>1
    <2>2. CASE i > Len(p) /\ i <= Len(pb)
      <3>1. i - Len(p) \in 1 .. Len(b) /\ Len(p) + (i - Len(p)) = i /\ i \in 1 .. Len(pb)
        BY <1>12, <2>2
      <3>2. pb[Len(p) + (i - Len(p))] = b[i - Len(p)]
        BY <1>12, <3>1
      <3> QED BY <1>14, <3>1, <3>2
    <2>3. CASE i > Len(pb)
      <3>1. i - Len(pb) \in 1 .. Len(q) /\ Len(pb) + (i - Len(pb)) = i
        BY <1>12, <1>14, <2>3
      <3>2. o[Len(pb) + (i - Len(pb))] = q[i - Len(pb)]
        BY <1>14, <3>1
      <3>3. i - Len(pb) = 1 /\ q[i - Len(pb)] = y
        BY <1>10, <3>1
      <3>4. i = Len(o)
        BY <1>10, <1>12, <1>14, <3>1, <3>3
      <3> QED BY <3>1, <3>2, <3>3, <3>4
    <2> QED BY <1>12, <2>1, <2>2, <2>3
  <1>16. \A j \in 1 .. Len(b) : b[j] # x /\ b[j] # y
    BY <1>7, <1>8 DEF ToSet
  <1>17. \A i \in 1 .. Len(o) : (o[i] = x => i = 1) /\ (o[i] = y => i = Len(o))
    BY <1>2, <1>15, <1>16
  <1>18. ASSUME NEW P, Clear(l, s, P), \A e \in InnerOf(es, n, m) : PointOf(es, e) \in P,
                NEW i \in 1 .. Len(o), NEW j \in 1 .. Len(o), i < j, o[i] # x, o[j] # y
         PROVE  Before(l, s, PointOf(es, o[i]), PointOf(es, o[j]))
    <2>1. Ordered(es, l, s, b)
      <3>1. \A k \in 1 .. Len(inner) : PointOf(es, inner[k]) \in P
        BY <1>5, <1>18 DEF ToSet
      <3> QED BY <1>6, <1>18, <3>1 DEF IsSorting
    <2>2. Len(o) \in Nat
      BY <1>13
    <2>3. i - Len(p) \in 1 .. Len(b) /\ o[i] = b[i - Len(p)]
      <3>1. i # Len(o)
        BY <1>18, <2>2
      <3> QED BY <1>15, <1>18, <3>1
    <2>4. j - Len(p) \in 1 .. Len(b) /\ o[j] = b[j - Len(p)]
      <3>1. j # 1
        BY <1>18, <2>2
      <3> QED BY <1>15, <1>18, <3>1
    <2>5. i - Len(p) < j - Len(p)
      BY <1>12, <1>18, <2>2
    <2> QED BY <2>1, <2>3, <2>4, <2>5 DEF Ordered
  <1>19. ToSet(o) = {e \in EndsOf(es) : Swept(es, n, m, e.edge)}
    <2>1. ToSet(o) = (IF c THEN {x} ELSE {}) \union (IF d THEN {y} ELSE {}) \union InnerOf(es, n, m)
      BY <1>7, <1>9, <1>10, <1>11, <1>13
    <2>2. Swept(es, n, m, x.edge) <=> c
      BY EndIs DEF Swept, x, First, c
    <2>3. Swept(es, n, m, y.edge) <=> d
      BY EndIs DEF Swept, y, Final, d
    <2> QED BY <1>2, <2>1, <2>2, <2>3 DEF InnerOf, S, x, y
  <1>20. IsOrder(es, l, n, m, o)
    <2>1. o \in Seq(EndsOf(es))
      BY <1>13 DEF S
    <2>2. \A i \in 1 .. Len(o) : (o[i] = First(n) => i = 1) /\ (o[i] = Final(n) => i = Len(o))
      BY <1>17 DEF x, y
    <2>3. ASSUME NEW P, Clear(l, es[n + 1].from, P),
                 \A e \in InnerOf(es, n, m) : PointOf(es, e) \in P
          PROVE  \A i, j \in 1 .. Len(o) : i < j /\ o[i] # First(n) /\ o[j] # Final(n)
                    => Before(l, es[n + 1].from, PointOf(es, o[i]), PointOf(es, o[j]))
      BY <1>18, <2>3 DEF x, y, s
    <2> QED BY <1>13, <1>19, <2>1, <2>2, <2>3 DEF IsOrder
  <1> QED BY <1>4, <1>20

-----------------------------------------------------------------------------
(* The nearest point of an edge.                                           *)

(* Edges are parallel to an axis.                                          *)
Straight(e) == e.from.x = e.to.x \/ e.from.y = e.to.y
StraightEdges == {e \in EdgeRecords : Straight(e)}

(* Whether a light at l sees edge e: it is turned towards it.              *)
Facing(l) == {e \in StraightEdges : Turn(l, e.from, e.to) > 0}

(* The greater and the smaller of two numbers.                             *)
LEMMA TwoOf ==
    ASSUME NEW a \in Int, NEW b \in Int
    PROVE  /\ Max({a, b}) = (IF a >= b THEN a ELSE b)
           /\ Min({a, b}) = (IF a <= b THEN a ELSE b)
  <1>1. CASE a >= b
    <2>1. \A m \in {a, b} : (\A y \in {a, b} : m >= y) => m = a
      BY <1>1
    <2>2. a \in {a, b} /\ \A y \in {a, b} : a >= y
      BY <1>1
    <2>3. Max({a, b}) = a
      BY <2>1, <2>2 DEF Max
    <2>4. b \in {a, b} /\ \A y \in {a, b} : b <= y
      BY <1>1
    <2>5. \A m \in {a, b} : (\A y \in {a, b} : m <= y) => m = b
      BY <1>1
    <2>6. Min({a, b}) = b
      BY <2>4, <2>5 DEF Min
    <2> QED BY <1>1, <2>3, <2>6
  <1>2. CASE a < b
    <2>1. \A m \in {a, b} : (\A y \in {a, b} : m >= y) => m = b
      BY <1>2
    <2>2. b \in {a, b} /\ \A y \in {a, b} : b >= y
      BY <1>2
    <2>3. Max({a, b}) = b
      BY <2>1, <2>2 DEF Max
    <2>4. a \in {a, b} /\ \A y \in {a, b} : a <= y
      BY <1>2
    <2>5. \A m \in {a, b} : (\A y \in {a, b} : m <= y) => m = a
      BY <1>2
    <2>6. Min({a, b}) = a
      BY <2>4, <2>5 DEF Min
    <2> QED BY <1>2, <2>3, <2>6
  <1> QED BY <1>1, <1>2

(* A product is divided by its factor without a rest.                      *)
LEMMA ExactQuotient ==
    ASSUME NEW j \in Int, NEW m \in Nat, m > 0
    PROVE  (j * m) \div m = j
  OBVIOUS

(* How far along an edge of length k, with r from its start, the nearest point is. *)
LEMMA PartOf ==
    ASSUME NEW k \in Int, k # 0, NEW r \in Int, NEW u, u = Max({0, Min({k * k, r * k})})
    PROVE  \E j \in Int : /\ u \in Int /\ (u * k) \div (k * k) = j
                          /\ j * k >= 0 /\ (k - j) * k >= 0
  <1>1. k * k \in Int /\ k * k > 0 /\ r * k \in Int
    <2>1. k > 0 \/ k < 0
      OBVIOUS
    <2> QED BY <2>1, Signs
  <1>2. u = IF r * k >= k * k THEN k * k ELSE IF r * k <= 0 THEN 0 ELSE r * k
    <2> DEFINE a == k * k
               b == r * k
    <2>1. a \in Int /\ b \in Int /\ a > 0 /\ u = Max({0, Min({a, b})})
      BY <1>1
    <2> HIDE DEF a, b
    <2>2. Min({a, b}) = (IF a <= b THEN a ELSE b)
      BY <2>1, TwoOf
    <2> DEFINE c == Min({a, b})
    <2>3. c \in Int
      BY <2>1, <2>2
    <2> HIDE DEF c
    <2>4. Max({0, c}) = IF 0 >= c THEN 0 ELSE c
      BY <2>3, TwoOf
    <2>5. u = IF b >= a THEN a ELSE IF b <= 0 THEN 0 ELSE b
      BY <2>1, <2>2, <2>4 DEF c
    <2> QED BY <2>5 DEF a, b
  <1> DEFINE j == IF r * k >= k * k THEN k ELSE IF r * k <= 0 THEN 0 ELSE r
  <1>3. j \in Int /\ u = j * k
    <2>1. 0 * k = 0
      OBVIOUS
    <2> QED BY <1>2, <2>1
  <1>4. j * k >= 0 /\ (k - j) * k >= 0
    <2>1. CASE r * k >= k * k
      <3>1. j = k /\ (k - k) * k = 0
        BY <2>1
      <3> QED BY <1>1, <3>1
    <2>2. CASE ~(r * k >= k * k) /\ r * k <= 0
      <3>1. j = 0 /\ (k - 0) * k = k * k /\ 0 * k = 0
        BY <2>2
      <3> QED BY <1>1, <3>1
    <2>3. CASE ~(r * k >= k * k) /\ ~(r * k <= 0)
      <3>1. j = r /\ (k - r) * k = k * k - r * k
        BY <2>3
      <3> QED BY <1>1, <2>3, <3>1
    <2> QED BY <2>1, <2>2, <2>3
  <1> HIDE DEF j
  <1>5. (u * k) \div (k * k) = j
    <2>1. u * k = j * (k * k)
      BY <1>3
    <2> DEFINE m == k * k
    <2>2. m \in Nat /\ m > 0
      BY <1>1
    <2> HIDE DEF m
    <2>3. (j * m) \div m = j
      BY <1>3, <2>2, ExactQuotient
    <2> QED BY <2>1, <2>3 DEF m
  <1>6. u \in Int
    BY <1>3
  <1> QED BY <1>3, <1>4, <1>5, <1>6

(* The two parts j and k - j of a length k are turned the same way as the  *)
(* whole, and are nothing only if they are empty.                          *)
LEMMA Parts ==
    ASSUME NEW a \in Int, NEW k \in Int, NEW j \in Int, a * k > 0, j * k >= 0,
           (k - j) * k >= 0
    PROVE  /\ a * j >= 0 /\ a * (k - j) >= 0
           /\ a * j > 0 <=> j * j > 0
           /\ a * (k - j) > 0 <=> (k - j) * (k - j) > 0
  <1>1. CASE k > 0
    <2>1. a > 0
      BY <1>1, Signs
    <2>2. j >= 0
      <3>1. j < 0 => j * k < 0
        BY <1>1, Signs
      <3> QED BY <3>1
    <2>3. k - j >= 0
      <3>1. k - j < 0 => (k - j) * k < 0
        BY <1>1, Signs
      <3> QED BY <3>1
    <2> DEFINE i == k - j
    <2>4. i \in Int /\ i >= 0
      BY <2>3
    <2> HIDE DEF i
    <2>5. a * j >= 0 /\ a * i >= 0 /\ (j = 0 \/ (a * j > 0 /\ j * j > 0))
          /\ (i = 0 \/ (a * i > 0 /\ i * i > 0))
      BY <2>1, <2>2, <2>4
    <2>6. (j = 0 => a * j = 0 /\ j * j = 0) /\ (i = 0 => a * i = 0 /\ i * i = 0)
      OBVIOUS
    <2>7. a * j > 0 <=> j * j > 0
      BY <2>5, <2>6
    <2>8. a * i > 0 <=> i * i > 0
      BY <2>5, <2>6
    <2> QED BY <2>5, <2>7, <2>8 DEF i
  <1>2. CASE k < 0
    <2>1. a < 0
      <3>1. a >= 0 => a * k <= 0
        BY <1>2, Signs
      <3> QED BY <3>1
    <2>2. j <= 0
      <3>1. j > 0 => j * k < 0
        BY <1>2, Signs
      <3> QED BY <3>1
    <2>3. k - j <= 0
      <3>1. k - j > 0 => (k - j) * k < 0
        BY <1>2, Signs
      <3> QED BY <3>1
    <2> DEFINE i == k - j
    <2>4. i \in Int /\ i <= 0
      BY <2>3
    <2> HIDE DEF i
    <2>5. a * j >= 0 /\ a * i >= 0 /\ (j = 0 \/ (a * j > 0 /\ j * j > 0))
          /\ (i = 0 \/ (a * i > 0 /\ i * i > 0))
      BY <2>1, <2>2, <2>4
    <2>6. (j = 0 => a * j = 0 /\ j * j = 0) /\ (i = 0 => a * i = 0 /\ i * i = 0)
      OBVIOUS
    <2>7. a * j > 0 <=> j * j > 0
      BY <2>5, <2>6
    <2>8. a * i > 0 <=> i * i > 0
      BY <2>5, <2>6
    <2> QED BY <2>5, <2>7, <2>8 DEF i
  <1>3. k # 0
    OBVIOUS
  <1> QED BY <1>1, <1>2, <1>3

(* They lie between the ends of the whole.                                 *)
LEMMA PartWithin ==
    ASSUME NEW k \in Int, NEW j \in Int, k # 0, j * k >= 0, (k - j) * k >= 0
    PROVE  (0 <= j /\ j <= k) \/ (k <= j /\ j <= 0)
  <1>1. /\ k > 0 /\ j < 0 => j * k < 0
        /\ k > 0 /\ k - j < 0 => (k - j) * k < 0
    BY Signs
  <1>2. /\ k < 0 /\ j > 0 => j * k < 0
        /\ k < 0 /\ k - j > 0 => (k - j) * k < 0
    BY Signs
  <1> QED BY <1>1, <1>2

(* Point s of an edge lies between its ends.                               *)
OnEdge(e, s) ==
    /\ (e.from.x <= s.x /\ s.x <= e.to.x) \/ (e.to.x <= s.x /\ s.x <= e.from.x)
    /\ (e.from.y <= s.y /\ s.y <= e.to.y) \/ (e.to.y <= s.y /\ s.y <= e.from.y)

(* The point s cuts an edge that faces the light into two parts that do, or are *)
(* points.                                                                 *)
CutAt(l, e, s) ==
    /\ s \in Points /\ OnEdge(e, s)
    /\ Turn(l, e.from, s) >= 0 /\ Turn(l, s, e.to) >= 0
    /\ Turn(l, e.from, s) + Turn(l, s, e.to) = Turn(l, e.from, e.to)
    /\ lengthSquared(EdgeBetween(s, e.to)) > 0 <=> Turn(l, s, e.to) > 0
    /\ lengthSquared(EdgeBetween(e.from, s)) > 0 <=> Turn(l, e.from, s) > 0

(* The point of an edge that is nearest to a light that sees it cuts it in *)
(* this way: the division that finds it is exact.                          *)
LEMMA NearestCuts ==
    ASSUME NEW l \in Points, NEW e \in Facing(l)
    PROVE  CutAt(l, e, nearestPoint(e, l))
  <1> DEFINE f == e.from
             t == e.to
             s == nearestPoint(e, l)
             lx == l.x
             ly == l.y
             fx == f.x
             fy == f.y
             tx == t.x
             ty == t.y
             u == Max({0, Min({lengthSquared(e), (lx - fx) * (tx - fx) + (ly - fy) * (ty - fy)})})
             sx == fx + (u * (tx - fx)) \div lengthSquared(e)
             sy == fy + (u * (ty - fy)) \div lengthSquared(e)
  <1>1. /\ lx \in Int /\ ly \in Int /\ fx \in Int /\ fy \in Int /\ tx \in Int /\ ty \in Int
        /\ e \in EdgeRecords /\ (fx = tx \/ fy = ty) /\ f \in Points /\ t \in Points
        /\ f.d = 1 /\ t.d = 1
    BY DEF Facing, StraightEdges, Straight, EdgeRecords, Points
  <1>2. s = Point(sx, sy)
    BY DEF nearestPoint
  <1>3. Turn(l, f, t) = (fx - lx) * (ty - ly) - (fy - ly) * (tx - lx) /\ Turn(l, f, t) > 0
    BY DEF Turn, Facing
  <1>4. s.x = sx /\ s.y = sy
    BY <1>2 DEF Point
  <1>5. /\ Turn(l, f, s) = (fx - lx) * (sy - ly) - (fy - ly) * (sx - lx)
        /\ Turn(l, s, t) = (sx - lx) * (ty - ly) - (sy - ly) * (tx - lx)
    BY <1>4 DEF Turn
  <1>6. /\ lengthSquared(EdgeBetween(s, t)) = (tx - sx) * (tx - sx) + (ty - sy) * (ty - sy)
        /\ lengthSquared(EdgeBetween(f, s)) = (sx - fx) * (sx - fx) + (sy - fy) * (sy - fy)
        /\ lengthSquared(e) = (tx - fx) * (tx - fx) + (ty - fy) * (ty - fy)
    BY <1>4 DEF lengthSquared, EdgeBetween, Square
  <1> DEFINE N == lengthSquared(e)
             r == (lx - fx) * (tx - fx) + (ly - fy) * (ty - fy)
             ts == lengthSquared(EdgeBetween(s, t))
             fs == lengthSquared(EdgeBetween(f, s))
             v == Turn(l, f, t)
             v1 == Turn(l, f, s)
             v2 == Turn(l, s, t)
             goal == /\ (fx <= sx /\ sx <= tx) \/ (tx <= sx /\ sx <= fx)
                     /\ (fy <= sy /\ sy <= ty) \/ (ty <= sy /\ sy <= fy)
                     /\ sx \in Int /\ sy \in Int /\ v1 >= 0 /\ v2 >= 0 /\ v1 + v2 = v
                     /\ ts > 0 <=> v2 > 0
                     /\ fs > 0 <=> v1 > 0
  <1>7. u = Max({0, Min({N, r})}) /\ sx = fx + (u * (tx - fx)) \div N
        /\ sy = fy + (u * (ty - fy)) \div N
    OBVIOUS
  <1> HIDE DEF f, t, s, lx, ly, fx, fy, tx, ty, u, sx, sy, N, r, ts, fs, v, v1, v2
  <1>8. ASSUME fx = tx
        PROVE  goal
    <2> DEFINE a == fx - lx
               k == ty - fy
               c == ly - fy
    <2>1. a \in Int /\ k \in Int /\ c \in Int /\ v = a * k
      <3>1. (fx - lx) * (ty - ly) - (fy - ly) * (tx - lx) = (fx - lx) * (ty - fy)
        BY <1>1, <1>8
      <3> QED BY <1>1, <1>3, <3>1 DEF v
    <2>2. k # 0
      BY <1>1, <1>3, <2>1 DEF v
    <2>3. N = k * k /\ r = c * k
      <3>1. tx - fx = 0 /\ 0 * 0 = 0 /\ (lx - fx) * 0 = 0
        BY <1>1, <1>8
      <3> HIDE DEF k, c
      <3>2. N = 0 + k * k /\ r = 0 + c * k
        BY <1>6, <3>1 DEF N, r, k, c
      <3>3. k * k \in Int /\ c * k \in Int
        BY <2>1
      <3> QED BY <3>2, <3>3
    <2> HIDE DEF a, k, c
    <2>4. PICK j \in Int : u \in Int /\ (u * k) \div (k * k) = j /\ j * k >= 0
                           /\ (k - j) * k >= 0
      BY <1>7, <2>1, <2>2, <2>3, PartOf
    <2>5. sy = fy + j
      BY <1>7, <2>3, <2>4 DEF k
    <2>6. sx = fx
      <3>1. tx - fx = 0 /\ u * 0 = 0
        BY <1>1, <1>8, <2>4
      <3>2. k * k > 0 /\ k * k \in Int
        BY <2>1, <2>2, Signs
      <3>3. 0 \div (k * k) = 0
        <4>1. k * k \in Nat /\ 0 * (k * k) = 0
          BY <3>2
        <4> QED BY <3>2, <4>1, ExactQuotient
      <3> QED BY <1>1, <1>7, <2>3, <3>1, <3>3
    <2>7. v1 = a * j /\ v2 = a * (k - j)
      <3>1. (fx - lx) * ((fy + j) - ly) - (fy - ly) * (fx - lx) = (fx - lx) * j
        BY <1>1, <2>4
      <3>2. (fx - lx) * (ty - ly) - ((fy + j) - ly) * (fx - lx) = (fx - lx) * ((ty - fy) - j)
        BY <1>1, <2>4
      <3> QED BY <1>5, <1>8, <2>5, <2>6, <3>1, <3>2 DEF v1, v2, a, k
    <2>8. ts = (k - j) * (k - j) /\ fs = j * j
      <3>1. tx - sx = 0 /\ sx - fx = 0 /\ ty - sy = k - j /\ sy - fy = j /\ 0 * 0 = 0
        BY <1>1, <1>8, <2>4, <2>5, <2>6 DEF k
      <3>2. (k - j) * (k - j) \in Int /\ j * j \in Int
        BY <2>1, <2>4
      <3>3. ts = 0 + (k - j) * (k - j) /\ fs = 0 + j * j
        BY <1>6, <3>1 DEF ts, fs
      <3> QED BY <3>2, <3>3
    <2>9. /\ a * j >= 0 /\ a * (k - j) >= 0
          /\ a * j > 0 <=> j * j > 0
          /\ a * (k - j) > 0 <=> (k - j) * (k - j) > 0
      <3>1. a * k > 0
        BY <1>3, <2>1 DEF v
      <3> QED BY <2>1, <2>4, <3>1, Parts
    <2>10. v1 + v2 = v
      BY <2>1, <2>4, <2>7
    <2>11. sx \in Int /\ sy \in Int
      BY <1>1, <2>4, <2>5, <2>6
    <2>12. (fy <= sy /\ sy <= ty) \/ (ty <= sy /\ sy <= fy)
      <3>1. (0 <= j /\ j <= k) \/ (k <= j /\ j <= 0)
        BY <2>1, <2>2, <2>4, PartWithin
      <3> QED BY <1>1, <2>4, <2>5, <3>1 DEF k
    <2>13. fx <= sx /\ sx <= tx
      BY <1>1, <1>8, <2>6
    <2> QED BY <2>7, <2>8, <2>9, <2>10, <2>11, <2>12, <2>13
  <1>9. ASSUME fy = ty
        PROVE  goal
    <2> DEFINE a == ly - fy
               k == tx - fx
               c == lx - fx
    <2>1. a \in Int /\ k \in Int /\ c \in Int /\ v = a * k
      <3>1. (fx - lx) * (ty - ly) - (fy - ly) * (tx - lx) = (ly - fy) * (tx - fx)
        BY <1>1, <1>9
      <3> QED BY <1>1, <1>3, <3>1 DEF v
    <2>2. k # 0
      BY <1>1, <1>3, <2>1 DEF v
    <2>3. N = k * k /\ r = c * k
      <3>1. ty - fy = 0 /\ 0 * 0 = 0 /\ (ly - fy) * 0 = 0
        BY <1>1, <1>9
      <3> HIDE DEF k, c
      <3>2. N = k * k + 0 /\ r = c * k + 0
        BY <1>6, <3>1 DEF N, r, k, c
      <3>3. k * k \in Int /\ c * k \in Int
        BY <2>1
      <3> QED BY <3>2, <3>3
    <2> HIDE DEF a, k, c
    <2>4. PICK j \in Int : u \in Int /\ (u * k) \div (k * k) = j /\ j * k >= 0
                           /\ (k - j) * k >= 0
      BY <1>7, <2>1, <2>2, <2>3, PartOf
    <2>5. sx = fx + j
      BY <1>7, <2>3, <2>4 DEF k
    <2>6. sy = fy
      <3>1. ty - fy = 0 /\ u * 0 = 0
        BY <1>1, <1>9, <2>4
      <3>2. k * k > 0 /\ k * k \in Int
        BY <2>1, <2>2, Signs
      <3>3. 0 \div (k * k) = 0
        <4>1. k * k \in Nat /\ 0 * (k * k) = 0
          BY <3>2
        <4> QED BY <3>2, <4>1, ExactQuotient
      <3> QED BY <1>1, <1>7, <2>3, <3>1, <3>3
    <2>7. v1 = a * j /\ v2 = a * (k - j)
      <3>1. (fx - lx) * (fy - ly) - (fy - ly) * ((fx + j) - lx) = (ly - fy) * j
        BY <1>1, <2>4
      <3>2. ((fx + j) - lx) * (fy - ly) - (fy - ly) * (tx - lx) = (ly - fy) * ((tx - fx) - j)
        BY <1>1, <2>4
      <3> QED BY <1>5, <1>9, <2>5, <2>6, <3>1, <3>2 DEF v1, v2, a, k
    <2>8. ts = (k - j) * (k - j) /\ fs = j * j
      <3>1. ty - sy = 0 /\ sy - fy = 0 /\ tx - sx = k - j /\ sx - fx = j /\ 0 * 0 = 0
        BY <1>1, <1>9, <2>4, <2>5, <2>6 DEF k
      <3>2. (k - j) * (k - j) \in Int /\ j * j \in Int
        BY <2>1, <2>4
      <3>3. ts = (k - j) * (k - j) + 0 /\ fs = j * j + 0
        BY <1>6, <3>1 DEF ts, fs
      <3> QED BY <3>2, <3>3
    <2>9. /\ a * j >= 0 /\ a * (k - j) >= 0
          /\ a * j > 0 <=> j * j > 0
          /\ a * (k - j) > 0 <=> (k - j) * (k - j) > 0
      <3>1. a * k > 0
        BY <1>3, <2>1 DEF v
      <3> QED BY <2>1, <2>4, <3>1, Parts
    <2>10. v1 + v2 = v
      BY <2>1, <2>4, <2>7
    <2>11. sx \in Int /\ sy \in Int
      BY <1>1, <2>4, <2>5, <2>6
    <2>12. (fx <= sx /\ sx <= tx) \/ (tx <= sx /\ sx <= fx)
      <3>1. (0 <= j /\ j <= k) \/ (k <= j /\ j <= 0)
        BY <2>1, <2>2, <2>4, PartWithin
      <3> QED BY <1>1, <2>4, <2>5, <3>1 DEF k
    <2>13. fy <= sy /\ sy <= ty
      BY <1>1, <1>9, <2>6
    <2> QED BY <2>7, <2>8, <2>9, <2>10, <2>11, <2>12, <2>13
  <1>10. goal
    BY <1>1, <1>8, <1>9
  <1>11. s \in Points
    BY <1>2, <1>10 DEF Points, Point
  <1>12. OnEdge(e, s)
    BY <1>4, <1>10 DEF OnEdge, f, t, fx, fy, tx, ty
  <1> QED BY <1>10, <1>11, <1>12 DEF CutAt, f, t, s, ts, fs, v, v1, v2

-----------------------------------------------------------------------------
(* The scenes.                                                             *)

(* What the scenes and the lights are.                                     *)
Scenery ==
    /\ Width \in Nat /\ Height \in Nat
    /\ Scenes \subseteq Seq(Int \X Int \X Int \X Int)
    /\ Lights \subseteq (1 .. Width - 1) \X (1 .. Height - 1)

(* The points of a scene,                                                  *)
LEMMA PointsAre ==
    ASSUME NEW x \in Int, NEW y \in Int
    PROVE  Point(x, y) \in Points /\ Point(x, y).x = x /\ Point(x, y).y = y
  BY DEF Point, Points

(* the edges between them,                                                 *)
LEMMA StraightIs ==
    ASSUME NEW a \in Int, NEW b \in Int, NEW c \in Int, NEW d \in Int, a = c \/ b = d
    PROVE  EdgeBetween(Point(a, b), Point(c, d)) \in StraightEdges
  <1> DEFINE p == Point(a, b)
             q == Point(c, d)
  <1>1. p \in Points /\ q \in Points /\ p.x = a /\ p.y = b /\ q.x = c /\ q.y = d
    BY PointsAre
  <1> HIDE DEF p, q
  <1>2. EdgeBetween(p, q) \in EdgeRecords /\ EdgeBetween(p, q).from = p
        /\ EdgeBetween(p, q).to = q
    BY <1>1 DEF EdgeBetween, EdgeRecords
  <1>3. EdgeBetween(p, q) \in StraightEdges
    BY <1>1, <1>2 DEF StraightEdges, Straight
  <1> QED BY <1>3 DEF p, q

(* all edges of a scene,                                                   *)
LEMMA SceneEdgesAre ==
    ASSUME Scenery, NEW scene \in Scenes
    PROVE  /\ SceneEdges(scene) \in Seq(StraightEdges) /\ Len(SceneEdges(scene)) >= 4
           /\ SceneEdges(scene)[1] = EdgeBetween(Point(0, Height), Point(0, 0))
  <1> DEFINE edge(k) == LET box == scene[(k - 1) \div 4 + 1]
                        IN  Rectangle(box[1], box[2], box[3], box[4])[((k - 1) % 4) + 1]
             s == [k \in 1 .. 4 * Len(scene) |-> edge(k)]
             b == LightBoundingBox
             E == StraightEdges
  <1>1. scene \in Seq(Int \X Int \X Int \X Int) /\ Len(scene) \in Nat
    BY DEF Scenery
  <1>2. ASSUME NEW x \in Int, NEW y \in Int, NEW w \in Int, NEW h \in Int, NEW i \in 1 .. 4
        PROVE  Rectangle(x, y, w, h)[i] \in E
    <2>1. x + w \in Int /\ y + h \in Int
      OBVIOUS
    <2>2. Rectangle(x, y, w, h)[1] \in E
      <3>1. Rectangle(x, y, w, h)[1] = EdgeBetween(Point(x, y), Point(x, y + h))
        BY DEF Rectangle
      <3> QED BY <2>1, <3>1, StraightIs
    <2>3. Rectangle(x, y, w, h)[2] \in E
      <3>1. Rectangle(x, y, w, h)[2] = EdgeBetween(Point(x, y + h), Point(x + w, y + h))
        BY DEF Rectangle
      <3> QED BY <2>1, <3>1, StraightIs
    <2>4. Rectangle(x, y, w, h)[3] \in E
      <3>1. Rectangle(x, y, w, h)[3] = EdgeBetween(Point(x + w, y + h), Point(x + w, y))
        BY DEF Rectangle
      <3> QED BY <2>1, <3>1, StraightIs
    <2>5. Rectangle(x, y, w, h)[4] \in E
      <3>1. Rectangle(x, y, w, h)[4] = EdgeBetween(Point(x + w, y), Point(x, y))
        BY DEF Rectangle
      <3> QED BY <2>1, <3>1, StraightIs
    <2> QED BY <1>2, <2>2, <2>3, <2>4, <2>5
  <1>3. ASSUME NEW k \in 1 .. 4 * Len(scene)
        PROVE  edge(k) \in E
    <2> DEFINE j == (k - 1) \div 4 + 1
               i == ((k - 1) % 4) + 1
               box == scene[j]
    <2>1. j \in 1 .. Len(scene) /\ i \in 1 .. 4
      BY <1>1
    <2> HIDE DEF i, j
    <2>2. box \in Int \X Int \X Int \X Int
      BY <1>1, <2>1
    <2>3. box[1] \in Int /\ box[2] \in Int /\ box[3] \in Int /\ box[4] \in Int
      BY <2>2
    <2> HIDE DEF box
    <2>4. Rectangle(box[1], box[2], box[3], box[4])[i] \in E
      BY <1>2, <2>1, <2>3
    <2> QED BY <2>4 DEF box, i, j
  <1> HIDE DEF edge, E
  <1>4. s \in Seq(E)
    BY <1>1, <1>3
  <1>5. b \in Seq(E) /\ Len(b) = 4 /\ b[1] = EdgeBetween(Point(0, Height), Point(0, 0))
    <2> DEFINE b1 == EdgeBetween(Point(0, Height), Point(0, 0))
               b2 == EdgeBetween(Point(Width, Height), Point(0, Height))
               b3 == EdgeBetween(Point(Width, 0), Point(Width, Height))
               b4 == EdgeBetween(Point(0, 0), Point(Width, 0))
    <2>1. b = <<b1, b2, b3, b4>>
      BY DEF LightBoundingBox
    <2>2. Width \in Int /\ Height \in Int
      BY DEF Scenery
    <2>3. b1 \in E /\ b2 \in E /\ b3 \in E /\ b4 \in E
      BY <2>2, StraightIs DEF E
    <2> HIDE DEF b2, b3, b4, b, b1
    <2> QED BY <2>1, <2>3 DEF b1
  <1>6. SceneEdges(scene) = b \o s
    BY DEF SceneEdges, edge
  <1> HIDE DEF b, s
  <1>7. b \o s \in Seq(E) /\ Len(b \o s) = 4 + Len(s) /\ Len(s) \in Nat /\ (b \o s)[1] = b[1]
    <2>1. /\ b \o s \in Seq(E) /\ Len(s) \in Nat /\ Len(b \o s) = Len(b) + Len(s)
          /\ \A j \in 1 .. Len(b) : (b \o s)[j] = b[j]
      BY <1>4, <1>5, Concatenated
    <2>2. 1 \in 1 .. Len(b)
      BY <1>5
    <2>3. (b \o s)[1] = b[1]
      BY <2>1, <2>2
    <2> QED BY <1>5, <2>1, <2>3
  <1> QED BY <1>5, <1>6, <1>7 DEF E

(* and those that the light sees.  One side of the border is always among  *)
(* them.                                                                   *)
LEMMA VisibleEdgesAre ==
    ASSUME Scenery, NEW scene \in Scenes, NEW p \in Lights, NEW l, l = Point(p[1], p[2])
    PROVE  /\ l \in Points /\ l.x \in 0 .. Width /\ l.y \in 0 .. Height
           /\ visibleEdges(scene, l) \in Seq(Facing(l))
              /\ Len(visibleEdges(scene, l)) \in Nat \ {0}
  <1> DEFINE s == SceneEdges(scene)
             W == {e \in ToSet(s) : ~isVisible(e, l)}
             v == visibleEdges(scene, l)
             b == EdgeBetween(Point(0, Height), Point(0, 0))
  <1>1. p[1] \in 1 .. Width - 1 /\ p[2] \in 1 .. Height - 1 /\ Width \in Nat /\ Height \in Nat
    BY DEF Scenery
  <1>2. l \in Points /\ l.x = p[1] /\ l.y = p[2] /\ l.d = 1
    BY <1>1, PointsAre DEF Point
  <1>3. s \in Seq(StraightEdges) /\ Len(s) >= 4 /\ s[1] = b
    BY SceneEdgesAre
  <1>4. v = Without(s, W)
    BY DEF visibleEdges
  <1> HIDE DEF s, v
  <1>5. v \in Seq(StraightEdges) /\ ToSet(v) = ToSet(s) \ W
    BY <1>3, <1>4, WithoutLeaves
  <1>6. ASSUME NEW e \in ToSet(v)
        PROVE  e \in Facing(l)
    <2>1. e \in StraightEdges /\ isVisible(e, l)
      BY <1>3, <1>5, ElementsOf
    <2>2. e.from \in Points /\ e.to \in Points
      BY <2>1 DEF StraightEdges, EdgeRecords
    <2>3. Turn(l, e.from, e.to) > 0
      BY <1>2, <2>1, <2>2, SameTurn DEF isVisible, leftOf
    <2> QED BY <2>1, <2>3 DEF Facing
  <1>7. v \in Seq(Facing(l))
    <2>1. Len(v) \in Nat /\ v \in [1 .. Len(v) -> StraightEdges]
      BY <1>5
    <2>2. \A i \in 1 .. Len(v) : v[i] \in ToSet(v)
      BY <2>1 DEF ToSet
    <2>3. v \in [1 .. Len(v) -> Facing(l)]
      BY <1>6, <2>1, <2>2
    <2> QED BY <2>1, <2>3
  <1>8. b \in ToSet(v)
    <2>1. b \in ToSet(s)
      <3>1. 1 \in DOMAIN s
        BY <1>3
      <3> QED BY <1>3, <3>1 DEF ToSet
    <2>2. Turn(l, b.from, b.to) > 0
      <3>1. b.from = Point(0, Height) /\ b.to = Point(0, 0)
        BY DEF EdgeBetween
      <3>2. b.from.x = 0 /\ b.from.y = Height /\ b.to.x = 0 /\ b.to.y = 0
        BY <1>1, <3>1, PointsAre
      <3> DEFINE lx == l.x
                 ly == l.y
      <3>3. lx \in Int /\ ly \in Int /\ lx > 0 /\ Height > 0 /\ Height \in Int
        BY <1>1, <1>2
      <3>4. Turn(l, b.from, b.to) = (0 - lx) * (0 - ly) - (Height - ly) * (0 - lx)
        BY <3>2 DEF Turn
      <3> HIDE DEF lx, ly
      <3>5. (0 - lx) * (0 - ly) - (Height - ly) * (0 - lx) = Height * lx
        BY <3>3
      <3>6. Height * lx > 0
        BY <3>3, Signs
      <3> QED BY <3>4, <3>5, <3>6
    <2>3. b.from \in Points /\ b.to \in Points
      BY <1>1, PointsAre DEF EdgeBetween
    <2>4. isVisible(b, l)
      BY <1>2, <2>2, <2>3, SameTurn DEF isVisible, leftOf
    <2> HIDE DEF b
    <2> QED BY <1>5, <2>1, <2>4
  <1>9. Len(v) \in Nat \ {0}
    <2>1. Len(v) \in Nat /\ DOMAIN v = 1 .. Len(v)
      BY <1>5
    <2> HIDE DEF b
    <2>2. DOMAIN v # {}
      BY <1>8 DEF ToSet
    <2> QED BY <2>1, <2>2
  <1>10. l.x \in 0 .. Width /\ l.y \in 0 .. Height
    BY <1>1, <1>2
  <1> QED BY <1>2, <1>7, <1>9, <1>10 DEF v

-----------------------------------------------------------------------------
(* The parts of the nearest edge.                                          *)

(* The least of some numbers.                                              *)
LEMMA MinIs ==
    ASSUME NEW S \in SUBSET Nat, S # {}
    PROVE  Min(S) \in S /\ \A k \in S : Min(S) <= k
  <1>1. PICK m \in S : \A k \in S : m <= k
    BY LeastOf
  <1>2. \A x \in S : (\A y \in S : x <= y) => x = m
    BY <1>1
  <1> QED BY <1>1, <1>2 DEF Min

(* The distance of an edge is a number,                                    *)
LEMMA DistanceIs ==
    ASSUME NEW l \in Points, NEW e \in Facing(l)
    PROVE  EdgeDistance(e, l) \in Nat
  <1> DEFINE s == nearestPoint(e, l)
             a == s.x - l.x * s.d
             b == s.y - l.y * s.d
  <1>1. s \in Points
    BY NearestCuts DEF CutAt
  <1>2. a \in Int /\ b \in Int
    <2> HIDE DEF s
    <2>1. s.x \in Int /\ s.y \in Int /\ s.d = 1 /\ l.x \in Int /\ l.y \in Int
      BY <1>1 DEF Points
    <2> QED BY <2>1
  <1>3. EdgeDistance(e, l) = a * a + b * b
    BY DEF EdgeDistance, ScaledDistance, Square
  <1> HIDE DEF a, b
  <1>4. a * a >= 0 /\ b * b >= 0 /\ a * a \in Int /\ b * b \in Int
    BY <1>2
  <1> QED BY <1>3, <1>4

(* so there is a nearest edge.                                             *)
LEMMA NearestEdgeIs ==
    ASSUME NEW l \in Points, NEW v \in Seq(Facing(l)), Len(v) \in Nat \ {0}
    PROVE  findNearestEdge(v, l) \in 1 .. Len(v)
  <1> DEFINE d(i) == EdgeDistance(v[i], l)
             D == {d(i) : i \in 1 .. Len(v)}
             M == {i \in 1 .. Len(v) : \A j \in 1 .. Len(v) : d(i) <= d(j)}
  <1>1. DOMAIN v = 1 .. Len(v)
    OBVIOUS
  <1>2. \A i \in 1 .. Len(v) : d(i) \in Nat
    BY DistanceIs
  <1>3. findNearestEdge(v, l) = Min(M)
    BY <1>1 DEF findNearestEdge
  <1> HIDE DEF d
  <1>4. M # {}
    <2>1. D \in SUBSET Nat /\ D # {}
      <3>1. 1 \in 1 .. Len(v)
        OBVIOUS
      <3> QED BY <1>2, <3>1
    <2>2. PICK k \in D : \A x \in D : k <= x
      BY <2>1, LeastOf
    <2>3. PICK i \in 1 .. Len(v) : k = d(i)
      BY <2>2
    <2> QED BY <2>2, <2>3
  <1>5. M \in SUBSET Nat /\ M \subseteq 1 .. Len(v)
    OBVIOUS
  <1> HIDE DEF M
  <1> QED BY <1>3, <1>4, <1>5, MinIs

(* What the sweep starts from: the n visible edges, all facing the light, and *)
(* the two parts of the m-th one, which is cut at s.                       *)
Prepared(l, es, n, m) ==
    /\ l \in Points /\ n \in Nat \ {0} /\ m \in 1 .. n
    /\ es \in Seq(EdgeRecords) /\ Len(es) = n + 2
    /\ m = findNearestEdge(SubSeq(es, 1, n), l)
    /\ es[n + 1].to = es[m].to /\ es[n + 2].from = es[m].from
    /\ es[n + 2].to = es[n + 1].from
    /\ \A i \in 1 .. n : es[i] \in Facing(l)
    /\ \A i \in 1 .. n + 2 : Swept(es, n, m, i) => Turn(l, es[i].from, es[i].to) > 0
    /\ \E i \in n + 1 .. n + 2 : Swept(es, n, m, i)

(* SplitEdges prepares the sweep.                                          *)
LEMMA SplitIs ==
    ASSUME NEW l \in Points, NEW v \in Seq(Facing(l)), NEW n \in Nat \ {0}, n = Len(v)
    PROVE  Prepared(l, SplitEdges(v, l), n, findNearestEdge(v, l))
  <1> DEFINE m == findNearestEdge(v, l)
             e == v[m]
             s == nearestPoint(e, l)
             a == EdgeBetween(s, e.to)
             b == EdgeBetween(e.from, s)
             ab == <<a, b>>
             es == SplitEdges(v, l)
  <1>1. m \in 1 .. n
    BY NearestEdgeIs
  <1>2. e \in Facing(l) /\ CutAt(l, e, s)
    BY <1>1, NearestCuts
  <1>3. a \in EdgeRecords /\ b \in EdgeRecords
    BY <1>2 DEF CutAt, EdgeBetween, EdgeRecords, Facing, StraightEdges
  <1>4. a.from = s /\ a.to = e.to /\ b.from = e.from /\ b.to = s
    BY DEF EdgeBetween
  <1>5. es = v \o ab
    BY DEF SplitEdges
  <1>6. v \in Seq(EdgeRecords)
    <2>1. Facing(l) \subseteq EdgeRecords
      BY DEF Facing, StraightEdges
    <2> HIDE DEF m
    <2> QED BY <2>1
  <1>7. /\ es \in Seq(EdgeRecords) /\ Len(es) = n + 2
        /\ \A i \in 1 .. n : es[i] = v[i]
        /\ es[n + 1] = a /\ es[n + 2] = b
    <2>1. ab \in Seq(EdgeRecords) /\ Len(ab) = 2 /\ ab[1] = a /\ ab[2] = b
      <3> HIDE DEF a, b
      <3> QED BY <1>3
    <2> HIDE DEF ab, es
    <2> HIDE DEF a, b
    <2>2. /\ v \o ab \in Seq(EdgeRecords) /\ Len(v \o ab) = Len(v) + Len(ab)
          /\ \A i \in 1 .. Len(v) : (v \o ab)[i] = v[i]
          /\ \A i \in 1 .. Len(ab) : (v \o ab)[Len(v) + i] = ab[i]
      <3> DEFINE R == EdgeRecords
      <3>1. v \in Seq(R) /\ ab \in Seq(R)
        BY <1>6, <2>1
      <3> HIDE DEF R
      <3>2. /\ v \o ab \in Seq(R) /\ Len(v \o ab) = Len(v) + Len(ab)
            /\ \A i \in 1 .. Len(v) : (v \o ab)[i] = v[i]
            /\ \A i \in 1 .. Len(ab) : (v \o ab)[Len(v) + i] = ab[i]
        BY <3>1, Concatenated
      <3> QED BY <3>2 DEF R
    <2>3. 1 \in 1 .. Len(ab) /\ 2 \in 1 .. Len(ab)
      BY <2>1
    <2>4. (v \o ab)[Len(v) + 1] = ab[1] /\ (v \o ab)[Len(v) + 2] = ab[2]
      BY <2>2, <2>3
    <2> QED BY <1>5, <2>1, <2>2, <2>4
  <1>8. SubSeq(es, 1, n) = v
    <2> HIDE DEF es, m
    <2>1. SubSeq(es, 1, n) = [i \in 1 .. n |-> es[i]]
      BY <1>7
    <2>2. v = [i \in 1 .. n |-> v[i]]
      OBVIOUS
    <2> QED BY <1>7, <2>1, <2>2
  <1> HIDE DEF es, m, s
  <1>9. ASSUME NEW i \in 1 .. n
        PROVE  es[i] \in Facing(l)
    BY <1>7
  <1>10. es[m] = e
    BY <1>1, <1>7
  <1> HIDE DEF e
  <1>11. /\ lengthSquared(a) > 0 <=> Turn(l, s, e.to) > 0
         /\ lengthSquared(b) > 0 <=> Turn(l, e.from, s) > 0
         /\ Turn(l, s, e.to) \in Int /\ Turn(l, e.from, s) \in Int
         /\ Turn(l, e.from, s) + Turn(l, s, e.to) > 0
    <2>1. e.from \in Points /\ e.to \in Points /\ Turn(l, e.from, e.to) > 0 /\ s \in Points
      BY <1>2 DEF Facing, StraightEdges, EdgeRecords, CutAt
    <2>2. Turn(l, s, e.to) \in Int /\ Turn(l, e.from, s) \in Int
      BY <2>1, TurnIs
    <2> QED BY <1>2, <2>1, <2>2 DEF CutAt
  <1> HIDE DEF a, b
  <1>12. ASSUME NEW i \in 1 .. n + 2, Swept(es, n, m, i)
         PROVE  Turn(l, es[i].from, es[i].to) > 0
    <2>1. CASE i \in 1 .. n
      BY <1>9, <2>1 DEF Facing
    <2>2. CASE i = n + 1
      <3>1. lengthSquared(a) > 0
        BY <1>7, <1>12, <2>2 DEF Swept
      <3> QED BY <1>4, <1>7, <1>11, <2>2, <3>1
    <2>3. CASE i = n + 2
      <3>1. lengthSquared(b) > 0
        BY <1>7, <1>12, <2>3 DEF Swept
      <3> QED BY <1>4, <1>7, <1>11, <2>3, <3>1
    <2> QED BY <2>1, <2>2, <2>3
  <1>13. \E i \in n + 1 .. n + 2 : Swept(es, n, m, i)
    <2>1. lengthSquared(a) > 0 \/ lengthSquared(b) > 0
      BY <1>11
    <2>2. lengthSquared(a) > 0 => Swept(es, n, m, n + 1)
      BY <1>7 DEF Swept
    <2>3. lengthSquared(b) > 0 => Swept(es, n, m, n + 2)
      BY <1>7 DEF Swept
    <2> QED BY <2>1, <2>2, <2>3
  <1>14. m = findNearestEdge(SubSeq(es, 1, n), l)
    BY <1>8 DEF m
  <1>15. Prepared(l, es, n, m)
    BY <1>1, <1>4, <1>7, <1>9, <1>10, <1>12, <1>13, <1>14 DEF Prepared
  <1> QED BY <1>15 DEF es, m

-----------------------------------------------------------------------------
(* Intersections.                                                          *)

(* Points of the polygon.                                                  *)
Rationals == [x : Int, y : Int, d : Nat \ {0}]

(* No point is null.                                                       *)
LEMMA NoNull ==
    ASSUME NEW x, NEW y, NEW d
    PROVE  [x |-> x, y |-> y, d |-> d] # Null
  <1>1. DOMAIN [x |-> x, y |-> y, d |-> d] = {"x", "y", "d"} /\ DOMAIN Null = {"null"}
    BY DEF Null
  <1> QED BY <1>1

(* There is a greatest common divisor.                                     *)
LEMMA DivisorIs ==
    ASSUME NEW D \in Nat \ {0}, NEW N \in Int
    PROVE  Max({k \in 1 .. D : D % k = 0 /\ N % k = 0}) \in 1 .. D
  <1> DEFINE S == {k \in 1 .. D : D % k = 0 /\ N % k = 0}
  <1>1. 1 \in S
    OBVIOUS
  <1>2. IsFiniteSet(S)
    <2>1. IsFiniteSet(1 .. D)
      BY FS_Interval
    <2>2. S \subseteq 1 .. D
      OBVIOUS
    <2> HIDE DEF S
    <2> QED BY <2>1, <2>2, FS_Subset
  <1>3. S \in SUBSET Nat /\ S \subseteq 1 .. D
    OBVIOUS
  <1> HIDE DEF S
  <1>4. Max(S) \in S
    BY <1>1, <1>2, <1>3, GreatestFinite
  <1> QED BY <1>3, <1>4 DEF S

(* When an edge and a ray intersect, by the turns to the ends of the edge. *)
LEMMA IntersectionIs ==
    ASSUME NEW l \in Points, NEW c \in Points, NEW e \in EdgeRecords
    PROVE  /\ intersection(e, l, c) \in Rationals \union {Null}
           /\ /\ Turn(l, e.from, c) >= 0 /\ Turn(l, c, e.to) >= 0
              /\ Turn(l, e.from, c) + Turn(l, c, e.to) > 0
              => intersection(e, l, c) # Null
  <1> DEFINE p1x == e.from.x
             p1y == e.from.y
             p2x == e.to.x
             p2y == e.to.y
             lx == l.x
             ly == l.y
             cx == c.x
             cy == c.y
             den == (cy - ly) * (p2x - p1x) - (cx - lx) * (p2y - p1y)
             num == (cx - lx) * (p1y - ly) - (cy - ly) * (p1x - lx)
             D == IF den < 0 THEN -den ELSE den
             N == IF den < 0 THEN -num ELSE num
             g == Max({k \in 1 .. D : D % k = 0 /\ N % k = 0})
             n == N \div g
             d == D \div g
             h == [x |-> p1x * d + n * (p2x - p1x), y |-> p1y * d + n * (p2y - p1y), d |-> d]
             A == Turn(l, e.from, c)
             B == Turn(l, c, e.to)
  <1>1. intersection(e, l, c) = IF den = 0 \/ N < 0 \/ N > D THEN Null ELSE h
    BY DEF intersection
  <1>2. /\ p1x \in Int /\ p1y \in Int /\ p2x \in Int /\ p2y \in Int
        /\ lx \in Int /\ ly \in Int /\ cx \in Int /\ cy \in Int
    BY DEF EdgeRecords, Points
  <1>3. /\ A = (p1x - lx) * (cy - ly) - (p1y - ly) * (cx - lx)
        /\ B = (cx - lx) * (p2y - ly) - (cy - ly) * (p2x - lx)
    BY DEF Turn
  <1> HIDE DEF p1x, p1y, p2x, p2y, lx, ly, cx, cy, A, B
  <1>4. den \in Int /\ num \in Int /\ A \in Int /\ B \in Int
    <2>1. (cy - ly) * (p2x - p1x) \in Int /\ (cx - lx) * (p2y - p1y) \in Int
          /\ (cx - lx) * (p1y - ly) \in Int /\ (cy - ly) * (p1x - lx) \in Int
      BY <1>2
    <2>2. (p1x - lx) * (cy - ly) \in Int /\ (p1y - ly) * (cx - lx) \in Int
          /\ (cx - lx) * (p2y - ly) \in Int /\ (cy - ly) * (p2x - lx) \in Int
      BY <1>2
    <2> QED BY <1>3, <2>1, <2>2
  <1>5. den = -(A + B) /\ num = -A
    BY <1>2, <1>3
  <1> HIDE DEF den, num
  <1>6. D \in Nat /\ N \in Int /\ (den # 0 => D \in Nat \ {0})
    BY <1>4
  <1>7. A >= 0 /\ B >= 0 /\ A + B > 0 => ~(den = 0 \/ N < 0 \/ N > D)
    BY <1>4, <1>5
  <1> HIDE DEF D, N
  <1>8. ASSUME den # 0
        PROVE  h \in Rationals
    <2>1. g \in 1 .. D
      BY <1>6, <1>8, DivisorIs
    <2> HIDE DEF g
    <2>2. n \in Int /\ d \in Nat /\ d > 0
      <3>1. D \in Nat /\ N \in Int /\ g \in Nat /\ g > 0 /\ g <= D
        BY <1>6, <1>8, <2>1
      <3> QED BY <3>1
    <2> HIDE DEF n, d
    <2>3. p1x * d + n * (p2x - p1x) \in Int /\ p1y * d + n * (p2y - p1y) \in Int
      <3>1. p1x * d \in Int /\ n * (p2x - p1x) \in Int /\ p1y * d \in Int
            /\ n * (p2y - p1y) \in Int
        BY <1>2, <2>2
      <3> QED BY <3>1
    <2> QED BY <2>2, <2>3 DEF Rationals
  <1>9. h # Null
    BY NoNull
  <1> HIDE DEF h
  <1>10. intersection(e, l, c) \in Rationals \union {Null}
    BY <1>1, <1>8
  <1>11. A >= 0 /\ B >= 0 /\ A + B > 0 => intersection(e, l, c) # Null
    BY <1>1, <1>7, <1>9
  <1> QED BY <1>10, <1>11 DEF A, B

(* Edge e faces the light, and the ray to c meets it: it cuts the edge in the *)
(* ratio of the two turns, at Size / Depth of the way to c.                *)
Size(l, e) == Turn(l, e.from, e.to)
Depth(l, e, c) == Turn(l, e.from, c) + Turn(l, c, e.to)

Met(l, e, c) ==
    /\ Size(l, e) > 0 /\ Along(l, c, c) > 0
    /\ Turn(l, e.from, c) >= 0 /\ Turn(l, c, e.to) >= 0

(* A ray that does not leave the edge on one side meets it.                *)
LEMMA RayMeets ==
    ASSUME NEW l \in Points, NEW c \in Points, NEW e \in EdgeRecords,
           Turn(l, e.from, e.to) > 0, Along(l, c, c) > 0,
           Turn(l, e.from, c) >= 0, Turn(l, c, e.to) >= 0
    PROVE  intersection(e, l, c) # Null
  <1> DEFINE f == e.from
             t == e.to
             cc == Along(l, c, c)
             ft == Turn(l, f, t)
             fc == Turn(l, f, c)
             ct == Turn(l, c, t)
             cf == Turn(l, c, f)
             u == Along(l, c, f)
             v == Along(l, c, t)
  <1>1. f \in Points /\ t \in Points
    BY DEF EdgeRecords
  <1>2. cc * ft = u * ct - cf * v /\ cf = -fc
    <2>1. Projected(l, c, f, t)
      BY <1>1, TurnProjected
    <2>2. cc * ft = u * ct - cf * v
      BY <2>1 DEF Projected
    <2>3. cf = -fc
      BY <1>1, TurnIs
    <2> QED BY <2>2, <2>3
  <1>3. cc \in Int /\ ft \in Int /\ fc \in Int /\ ct \in Int /\ cf \in Int /\ u \in Int
        /\ v \in Int
    BY <1>1, TurnIs
  <1>4. cc > 0 /\ ft > 0 /\ fc >= 0 /\ ct >= 0
    OBVIOUS
  <1> HIDE DEF f, t, cc, ft, fc, ct, cf, u, v
  <1>5. fc + ct > 0
    <2>1. ASSUME fc = 0, ct = 0
          PROVE  FALSE
      <3>1. cf = 0 /\ u * 0 = 0 /\ 0 * v = 0
        <4>1. cf = 0 - fc
          BY <1>2, <1>3
        <4>2. \A k \in Int : k * 0 = 0 /\ 0 * k = 0
          OBVIOUS
        <4>3. cf = 0
          <5>1. fc = 0
            BY <2>1
          <5>2. 0 - 0 = 0
            OBVIOUS
          <5> QED BY <4>1, <5>1, <5>2, Zenon
        <4>4. u * 0 = 0
          BY <1>3, <4>2
        <4>5. 0 * v = 0
          BY <1>3, <4>2
        <4> QED BY <4>3, <4>4, <4>5
      <3>2. cc * ft > 0
        BY <1>3, <1>4, Signs
      <3> QED BY <1>2, <2>1, <3>1, <3>2
    <2> QED BY <1>3, <1>4, <2>1
  <1> QED BY <1>4, <1>5, IntersectionIs DEF f, t, fc, ct

-----------------------------------------------------------------------------
(* The ends in their order.                                                *)
FacePoints(es, n) == {es[i].from : i \in 1 .. n} \union {es[i].to : i \in 1 .. n}

(* The ends of the swept edges: the nearest point at the beginning and the end, *)
(* and ends of visible edges between.                                      *)
LEMMA SweptEnds ==
    ASSUME NEW l, NEW es, NEW n, NEW m, NEW o, Prepared(l, es, n, m), IsOrder(es, l, n, m, o),
           NEW k \in 1 .. Len(o)
    PROVE  /\ o[k] \in EndsOf(es) /\ Swept(es, n, m, o[k].edge)
              /\ PointOf(es, o[k]) \in Points
           /\ o[k].edge \in 1 .. n + 2 /\ o[k] = End(o[k].edge, o[k].end)
           /\ o[k].end \in {"from", "to"}
           /\ es[o[k].edge] \in EdgeRecords
           /\ o[k] = First(n) => k = 1 /\ PointOf(es, o[k]) = es[n + 1].from
           /\ o[k] = Final(n) => k = Len(o) /\ PointOf(es, o[k]) = es[n + 1].from
           /\ o[k] # First(n) /\ o[k] # Final(n) =>
                o[k] \in InnerOf(es, n, m) /\ PointOf(es, o[k]) \in FacePoints(es, n)
  <1> DEFINE q == o[k]
             i == q.edge
  <1>1. n \in Nat /\ m \in 1 .. n /\ es \in Seq(EdgeRecords) /\ Len(es) = n + 2
    BY DEF Prepared
  <1>2. o \in Seq(EndsOf(es)) /\ q \in ToSet(o) /\ q \in EndsOf(es)
    <2>1. o \in Seq(EndsOf(es))
      BY DEF IsOrder
    <2> HIDE DEF q
    <2>2. o[k] \in ToSet(o) /\ o[k] \in EndsOf(es)
      <3>1. DOMAIN o = 1 .. Len(o)
        BY <2>1
      <3>2. o[k] \in ToSet(o)
        BY <3>1 DEF ToSet
      <3>3. o[k] \in EndsOf(es)
        BY <2>1
      <3> QED BY <3>2, <3>3
    <2> QED BY <2>1, <2>2 DEF q
  <1>3. Swept(es, n, m, i)
    BY <1>2 DEF IsOrder
  <1>4. q \in [edge : 1 .. n + 2, end : {"from", "to"}]
    BY <1>1, <1>2 DEF EndsOf
  <1>5. i \in 1 .. n + 2 /\ q.end \in {"from", "to"} /\ q = End(i, q.end)
    <2>1. n + 2 \in Nat
      BY <1>1
    <2> HIDE DEF q
    <2> QED BY <1>4, <2>1, EndsAre DEF i
  <1>6. PointOf(es, q) \in Points /\ es[i] \in EdgeRecords
    <2>1. es[i] \in EdgeRecords
      BY <1>1, <1>5
    <2> HIDE DEF q
    <2> QED BY <1>1, <1>2, <2>1, PointIs
  <1>7. q = First(n) => k = 1 /\ PointOf(es, q) = es[n + 1].from
    BY EndIs DEF IsOrder, First, PointOf
  <1>8. q = Final(n) => k = Len(o) /\ PointOf(es, q) = es[n + 1].from
    <2>1. q = Final(n) => k = Len(o)
      BY DEF IsOrder
    <2>2. Final(n).edge = n + 2 /\ Final(n).end = "to"
      BY EndIs DEF Final
    <2>3. es[n + 2].to = es[n + 1].from
      BY DEF Prepared
    <2> QED BY <2>1, <2>2, <2>3 DEF PointOf
  <1>9. ASSUME q # First(n), q # Final(n)
        PROVE  q \in InnerOf(es, n, m) /\ PointOf(es, q) \in FacePoints(es, n)
    <2>1. q \in InnerOf(es, n, m)
      BY <1>2, <1>3, <1>9 DEF InnerOf
    <2>2. PointOf(es, q) = IF q.end = "from" THEN es[i].from ELSE es[i].to
      BY DEF PointOf
    <2>a. \A j \in 1 .. n : es[j].from \in FacePoints(es, n) /\ es[j].to \in FacePoints(es, n)
      BY DEF FacePoints
    <2>3. CASE i \in 1 .. n
      <3> HIDE DEF q
      <3> QED BY <2>a, <2>1, <2>2, <2>3
    <2>4. CASE i = n + 1
      <3>1. q.end = "to"
        BY <1>5, <1>9, <2>4 DEF First
      <3>2. PointOf(es, q) = es[m].to
        BY <2>2, <2>4, <3>1 DEF Prepared
      <3> HIDE DEF q
      <3> QED BY <1>1, <2>1, <2>a, <3>2
    <2>5. CASE i = n + 2
      <3>1. q.end = "from"
        BY <1>5, <1>9, <2>5 DEF Final
      <3>2. PointOf(es, q) = es[m].from
        BY <2>2, <2>5, <3>1 DEF Prepared
      <3> HIDE DEF q
      <3> QED BY <1>1, <2>1, <2>a, <3>2
    <2> QED BY <1>1, <1>5, <2>1, <2>3, <2>4, <2>5
  <1> QED BY <1>2, <1>3, <1>5, <1>6, <1>7, <1>8, <1>9

(* No end of a swept edge is where the light is.                           *)
LEMMA AwayFromLight ==
    ASSUME NEW l, NEW es, NEW n, NEW m, Prepared(l, es, n, m)
    PROVE  /\ es[n + 1].from \in Points /\ Along(l, es[n + 1].from, es[n + 1].from) > 0
           /\ FacePoints(es, n) \subseteq Points
           /\ \A p \in FacePoints(es, n) : Along(l, p, p) > 0
  <1> DEFINE s == es[n + 1].from
  <1>1. n \in Nat /\ l \in Points /\ es \in Seq(EdgeRecords) /\ Len(es) = n + 2
    BY DEF Prepared
  <1>2. \A i \in 1 .. n + 2 : es[i].from \in Points /\ es[i].to \in Points
    <2>1. \A i \in 1 .. n + 2 : es[i] \in EdgeRecords
      BY <1>1
    <2> QED BY <2>1 DEF EdgeRecords
  <1>3. ASSUME NEW i \in 1 .. n + 2, Turn(l, es[i].from, es[i].to) > 0
        PROVE  Along(l, es[i].from, es[i].from) > 0 /\ Along(l, es[i].to, es[i].to) > 0
    <2>1. Turn(l, es[i].from, es[i].to) # 0
      BY <1>3
    <2> QED BY <1>1, <1>2, <2>1, SameTurn
  <1>4. \A i \in 1 .. n : Along(l, es[i].from, es[i].from) > 0
        /\ Along(l, es[i].to, es[i].to) > 0
    <2>1. \A i \in 1 .. n : Turn(l, es[i].from, es[i].to) > 0 /\ i \in 1 .. n + 2
      BY <1>1 DEF Prepared, Facing
    <2> QED BY <1>3, <2>1
  <1>5. s \in Points /\ Along(l, s, s) > 0
    <2>1. n + 1 \in 1 .. n + 2 /\ n + 2 \in 1 .. n + 2
      BY <1>1
    <2>2. PICK i \in n + 1 .. n + 2 : Swept(es, n, m, i)
      BY DEF Prepared
    <2>3. i \in 1 .. n + 2 /\ (i = n + 1 \/ i = n + 2)
      BY <1>1
    <2>4. Turn(l, es[i].from, es[i].to) > 0
      BY <2>2, <2>3 DEF Prepared
    <2>5. Along(l, es[i].from, es[i].from) > 0 /\ Along(l, es[i].to, es[i].to) > 0
      BY <1>3, <2>3, <2>4
    <2>6. es[n + 2].to = s
      BY DEF Prepared
    <2> QED BY <1>2, <2>1, <2>3, <2>5, <2>6
  <1>6. \A p \in FacePoints(es, n) : \E i \in 1 .. n : p = es[i].from \/ p = es[i].to
    BY DEF FacePoints
  <1>7. \A i \in 1 .. n : i \in 1 .. n + 2
    BY <1>1
  <1> QED BY <1>2, <1>4, <1>5, <1>6, <1>7

(* The ends of the order but for its first and last point are sorted.      *)
LEMMA EndsSorted ==
    ASSUME NEW l, NEW es, NEW n, NEW m, NEW o, Prepared(l, es, n, m), IsOrder(es, l, n, m, o),
           Clear(l, es[n + 1].from, FacePoints(es, n)),
           NEW i \in 1 .. Len(o), NEW j \in 1 .. Len(o), i < j,
           o[i] # First(n), o[j] # Final(n)
    PROVE  Before(l, es[n + 1].from, PointOf(es, o[i]), PointOf(es, o[j]))
  <1> DEFINE P == FacePoints(es, n)
  <1>1. ASSUME NEW e \in InnerOf(es, n, m)
        PROVE  PointOf(es, e) \in P
    <2>1. e \in ToSet(o) /\ e # First(n) /\ e # Final(n)
      BY DEF IsOrder, InnerOf
    <2>2. o \in Seq(EndsOf(es))
      BY DEF IsOrder
    <2>3. PICK k \in 1 .. Len(o) : e = o[k]
      BY <2>1, <2>2 DEF ToSet
    <2> QED BY <2>1, <2>3, SweptEnds
  <1> HIDE DEF P
  <1>2. Clear(l, es[n + 1].from, P)
    BY DEF P
  <1> QED BY <1>1, <1>2 DEF IsOrder

-----------------------------------------------------------------------------
(* Which edges are open.                                                   *)

(* An edge between its two ends in the sweep ps, which is at k: one that begins *)
(* before it ends is open between them, and the others across the start.   *)
Between(o, e, ps, k, f, t) ==
    /\ o[f] = End(e, "from") /\ o[t] = End(e, "to")
    /\ \/ f < k /\ k <= t
       \/ t < f /\ f < k
       \/ t < f /\ ps = 2 /\ k <= t

Open(o, e, ps, k) == \E f, t \in 1 .. Len(o) : Between(o, e, ps, k, f, t)

(* While the ends are clear, the ray to the current point meets every open edge. *)
LEMMA OpenMeets ==
    ASSUME NEW l, NEW es, NEW n, NEW m, NEW o, Prepared(l, es, n, m), IsOrder(es, l, n, m, o),
           Clear(l, es[n + 1].from, FacePoints(es, n)),
           NEW k \in 1 .. Len(o), NEW e, NEW ps, Open(o, e, ps, k), e # o[k].edge
    PROVE  /\ intersection(es[e], l, PointOf(es, o[k])) # Null
           /\ Met(l, es[e], PointOf(es, o[k]))
           /\ e \in 1 .. n + 2
  <1> DEFINE s == es[n + 1].from
             c == PointOf(es, o[k])
             F == es[e].from
             T == es[e].to
             P == FacePoints(es, n)
             ft == Turn(l, F, T)
             fc == Turn(l, F, c)
             ct == Turn(l, c, T)
             sc == Turn(l, s, c)
  <1>1. PICK f \in 1 .. Len(o), t \in 1 .. Len(o) : Between(o, e, ps, k, f, t)
    BY DEF Open
  <1>2. o[f] = End(e, "from") /\ o[t] = End(e, "to")
    BY <1>1 DEF Between
  <1>3. o[f].edge = e /\ o[t].edge = e /\ o[f].end = "from" /\ o[t].end = "to"
    BY <1>2, EndIs
  <1>4. e \in 1 .. n + 2 /\ Swept(es, n, m, e) /\ es[e] \in EdgeRecords
    BY <1>3, SweptEnds
  <1>5. PointOf(es, o[f]) = F /\ PointOf(es, o[t]) = T
    BY <1>3 DEF PointOf
  <1>6. f # k /\ t # k
    BY <1>3
  <1>7. l \in Points /\ n \in Nat /\ Len(o) \in Nat
    <2>1. o \in Seq(EndsOf(es))
      BY DEF IsOrder
    <2> QED BY <2>1 DEF Prepared
  <1>8. F \in Points /\ T \in Points /\ c \in Points /\ s \in Points
    BY <1>4, SweptEnds, AwayFromLight DEF EdgeRecords
  <1>9. ft > 0
    BY <1>4 DEF Prepared
  <1>10. ft \in Int /\ fc \in Int /\ ct \in Int /\ sc \in Int
         /\ Turn(l, F, s) = -Turn(l, s, F) /\ Turn(l, c, s) = -sc
         /\ Turn(l, s, F) \in Int /\ Turn(l, s, T) \in Int
    BY <1>7, <1>8, TurnIs
  <1>11. o[f] # Final(n) /\ o[t] # First(n)
    BY <1>2, EndIs DEF First, Final
  <1>12. /\ o[f] = First(n) => f = 1 /\ F = s
         /\ o[t] = Final(n) => t = Len(o) /\ T = s
         /\ o[k] = First(n) => k = 1 /\ c = s
         /\ o[k] = Final(n) => k = Len(o) /\ c = s
         /\ o[f] # First(n) => F \in P
         /\ o[t] # Final(n) => T \in P
         /\ o[k] # First(n) /\ o[k] # Final(n) => c \in P
    <2>1. /\ o[k] = First(n) => k = 1 /\ c = s
          /\ o[k] = Final(n) => k = Len(o) /\ c = s
          /\ o[k] # First(n) /\ o[k] # Final(n) => c \in P
      BY SweptEnds
    <2>2. /\ o[f] = First(n) => f = 1 /\ F = s
          /\ o[f] # First(n) /\ o[f] # Final(n) => F \in P
      BY <1>5, SweptEnds
    <2>3. /\ o[t] = Final(n) => t = Len(o) /\ T = s
          /\ o[t] # First(n) /\ o[t] # Final(n) => T \in P
      BY <1>5, SweptEnds
    <2> QED BY <1>11, <2>1, <2>2, <2>3
  <1>13. /\ f < k /\ o[f] # First(n) /\ o[k] # Final(n) => Before(l, s, F, c)
         /\ k < t /\ o[k] # First(n) /\ o[t] # Final(n) => Before(l, s, c, T)
         /\ t < f => Before(l, s, T, F)
    <2>1. f < k /\ o[f] # First(n) /\ o[k] # Final(n) => Before(l, s, F, c)
      BY <1>5, EndsSorted
    <2>2. k < t /\ o[k] # First(n) /\ o[t] # Final(n) => Before(l, s, c, T)
      BY <1>5, EndsSorted
    <2>3. t < f => Before(l, s, T, F)
      BY <1>5, <1>11, EndsSorted
    <2> QED BY <2>1, <2>2, <2>3
  <1>14. First(n) # Final(n) /\ ~(o[f] = First(n) /\ o[t] = Final(n))
    <2>1. First(n).edge = n + 1 /\ Final(n).edge = n + 2
      BY EndIs DEF First, Final
    <2> QED BY <1>3, <1>7, <2>1
  <1>15. Along(l, c, c) > 0
    BY <1>12, AwayFromLight
  <1> HIDE DEF F, T, c, s, P
  <1>16. fc >= 0 /\ ct >= 0
    <2>1. CASE f < k /\ k < t
      <3>1. o[k] # First(n) /\ o[k] # Final(n)
        BY <1>7, <1>12, <2>1
      <3>2. CASE o[f] = First(n)
        <4>1. F = s /\ o[t] # Final(n)
          BY <1>12, <1>14, <3>2
        <4>2. Before(l, s, c, T)
          BY <1>13, <2>1, <3>1, <4>1
        <4>3. Turn(l, s, T) > 0
          BY <1>9, <4>1
        <4>4. sc > 0 /\ ct >= 0
          BY <4>2, <4>3 DEF Before
        <4> QED BY <1>10, <4>1, <4>4
      <3>3. CASE o[t] = Final(n)
        <4>1. T = s /\ o[f] # First(n)
          BY <1>12, <1>14, <3>3
        <4>2. Before(l, s, F, c)
          BY <1>13, <2>1, <3>1, <4>1
        <4>3. Turn(l, F, s) > 0
          BY <1>9, <4>1
        <4>4. ~(Turn(l, s, F) > 0)
          BY <1>10, <4>3
        <4>5. ~(sc > 0) /\ fc >= 0
          BY <4>2, <4>4 DEF Before
        <4>6. Turn(l, c, s) >= 0
          <5> HIDE DEF sc
          <5> QED BY <1>10, <4>5
        <4> QED BY <4>1, <4>5, <4>6
      <3>4. CASE o[f] # First(n) /\ o[t] # Final(n)
        <4>1. Before(l, s, F, c) /\ Before(l, s, c, T) /\ F \in P /\ T \in P /\ c \in P
          BY <1>12, <1>13, <2>1, <3>1, <3>4
        <4>2. Clear(l, s, P)
          BY DEF s, P
        <4> QED BY <1>7, <1>8, <1>9, <4>1, <4>2, MeetsBetween
      <3> QED BY <3>2, <3>3, <3>4
    <2>2. CASE t < f /\ (f < k \/ k < t)
      <3>1. o[f] # First(n) /\ o[t] # Final(n)
        BY <1>7, <1>12, <2>2
      <3>2. F \in P /\ T \in P /\ Before(l, s, T, F)
        BY <1>12, <1>13, <2>2, <3>1
      <3>3. CASE o[k] = First(n) \/ o[k] = Final(n)
        <4>1. c = s
          BY <1>12, <3>3
        <4>2. Turn(l, s, T) > 0 /\ Turn(l, s, F) <= 0
          BY <1>7, <1>8, <1>9, <3>2, MeetsStart
        <4>3. Turn(l, F, s) >= 0
          BY <1>10, <4>2
        <4> QED BY <4>1, <4>2, <4>3, <1>10
      <3>4. CASE o[k] # First(n) /\ o[k] # Final(n)
        <4>1. c \in P /\ (Before(l, s, F, c) \/ Before(l, s, c, T))
          BY <1>12, <1>13, <2>2, <3>1, <3>4
        <4>2. Clear(l, s, P)
          BY DEF s, P
        <4> QED BY <1>7, <1>8, <1>9, <3>2, <4>1, <4>2, MeetsAcross
      <3> QED BY <3>3, <3>4
    <2>3. (f < k /\ k < t) \/ (t < f /\ (f < k \/ k < t))
      BY <1>1, <1>6 DEF Between
    <2> QED BY <2>1, <2>2, <2>3
  <1>17. intersection(es[e], l, c) # Null
    BY <1>4, <1>7, <1>8, <1>9, <1>15, <1>16, RayMeets DEF F, T
  <1>18. Met(l, es[e], c)
    BY <1>9, <1>15, <1>16 DEF Met, Size, F, T
  <1> QED BY <1>4, <1>17, <1>18 DEF c

(* The sweep goes on by one end of an edge, and starts again after the last. *)
LEMMA OpenGoesOn ==
    ASSUME NEW es, NEW o \in Seq(EndsOf(es)), IsInjective(o), NEW k \in 1 .. Len(o), NEW e,
           NEW ps \in {1, 2},
           \/ Open(o, e, ps, k) /\ o[k] # End(e, "to")
           \/ o[k] = End(e, "from") /\ End(e, "to") \in ToSet(o)
    PROVE  /\ k < Len(o) => Open(o, e, ps, k + 1)
           /\ k = Len(o) => Open(o, e, ps + 1, 1) \/ ps = 2
  <1>1. PICK f \in 1 .. Len(o), t \in 1 .. Len(o) :
            /\ o[f] = End(e, "from") /\ o[t] = End(e, "to") /\ k # t
            /\ \/ f <= k /\ k <= t
               \/ t < f /\ f <= k
               \/ t < f /\ ps = 2 /\ k <= t
    <2>1. CASE Open(o, e, ps, k) /\ o[k] # End(e, "to")
      BY <2>1 DEF Open, Between
    <2>2. CASE o[k] = End(e, "from") /\ End(e, "to") \in ToSet(o)
      <3>1. PICK t \in 1 .. Len(o) : o[t] = End(e, "to")
        BY <2>2 DEF ToSet
      <3>2. o[k] # o[t]
        BY <2>2, <3>1, EndIs
      <3> QED BY <2>2, <3>1, <3>2
    <2> QED BY <2>1, <2>2
  <1>2. Len(o) \in Nat
    OBVIOUS
  <1>3. k < Len(o) => Between(o, e, ps, k + 1, f, t)
    BY <1>1, <1>2 DEF Between
  <1>4. k = Len(o) /\ ps = 1 => Between(o, e, ps + 1, 1, f, t)
    BY <1>1, <1>2 DEF Between
  <1> QED BY <1>3, <1>4 DEF Open

(* An edge that begins or ends here is not open before it begins.          *)
LEMMA NotYetOpen ==
    ASSUME NEW es, NEW o \in Seq(EndsOf(es)), IsInjective(o), NEW k \in 1 .. Len(o), NEW e,
           NEW ps,
           o[k] = End(e, "from")
    PROVE  ~Open(o, e, ps, k)
  <1>1. ASSUME NEW f \in 1 .. Len(o), NEW t \in 1 .. Len(o), Between(o, e, ps, k, f, t)
        PROVE  FALSE
    <2>1. o[f] = o[k] /\ (f < k \/ (t < f /\ k <= t))
      BY <1>1 DEF Between
    <2>2. DOMAIN o = 1 .. Len(o)
      OBVIOUS
    <2>3. f = k
      BY <2>1, <2>2 DEF IsInjective
    <2> QED BY <2>1, <2>3
  <1> QED BY <1>1 DEF Open

-----------------------------------------------------------------------------
(* The sweep.                                                              *)

(* The visible edges before they are cut, and the one that is.             *)
Visible == Len(edges) - 2
Nearest == findNearestEdge(SubSeq(edges, 1, Visible), light)

(* What the sweep is given and never changes.                              *)
Ready ==
    /\ light.x \in 0 .. Width /\ light.y \in 0 .. Height
    /\ Prepared(light, edges, Visible, Nearest)
    /\ IsOrder(edges, light, Visible, Nearest, order)

(* The sweep: each edge on the stack is there once, and open.              *)
OpenStack ==
    /\ pass \in 1 .. 3 /\ pos \in 1 .. Len(order)
    /\ stack \in Seq(DOMAIN edges) /\ IsInjective(stack)
    /\ pass # 3 => \A i \in 1 .. Len(stack) : Open(order, stack[i], pass, pos)

SweepInv ==
    /\ Ready /\ OpenStack
    /\ polygon \in Seq(Rationals)
    /\ thrown \in BOOLEAN /\ ThrowsOnlyAligned

(* What Ready means, in the terms of the lemmas above.                     *)
LEMMA ReadyIs ==
    ASSUME Ready
    PROVE  /\ Visible \in Nat /\ light \in Points
           /\ edges \in Seq(EdgeRecords) /\ DOMAIN edges = 1 .. Visible + 2
           /\ order \in Seq(EndsOf(edges)) /\ IsInjective(order) /\ Len(order) \in Nat
           /\ Start = edges[Visible + 1].from
  <1>1. Visible \in Nat /\ light \in Points /\ edges \in Seq(EdgeRecords)
    BY DEF Ready, Prepared
  <1>2. order \in Seq(EndsOf(edges)) /\ IsInjective(order)
    BY DEF Ready, IsOrder
  <1>3. DOMAIN edges = 1 .. Visible + 2 /\ Len(edges) - 1 = Visible + 1
    BY <1>1 DEF Visible
  <1> QED BY <1>1, <1>2, <1>3 DEF Start

(* The aligned case is the only one in which the ends are not clear.       *)
LEMMA ClearUnlessAligned ==
    ASSUME Ready, ~Aligned
    PROVE  Clear(light, edges[Visible + 1].from, FacePoints(edges, Visible))
  <1> DEFINE s == edges[Visible + 1].from
             P == FacePoints(edges, Visible)
  <1>1. light \in Points /\ Start = s /\ s \in Points /\ Along(light, s, s) > 0
        /\ P \subseteq Points
        /\ \A p \in P : Along(light, p, p) > 0
    BY ReadyIs, AwayFromLight DEF Ready
  <1>2. P = {edges[i].from : i \in Faces} \union {edges[i].to : i \in Faces}
    BY DEF FacePoints, Faces, Visible
  <1> HIDE DEF s, P
  <1>3. ASSUME NEW p \in P
        PROVE  Beside(p) = Turn(light, s, p) /\ Ahead(p) = Along(light, s, p)
    <2>1. p \in Points
      BY <1>1
    <2>2. Beside(p) = Turn(light, s, p)
      BY <1>1, <2>1, TurnIs DEF Beside
    <2>3. Ahead(p) = Along(light, s, p)
      BY <1>1, <2>1 DEF Ahead, Along, Points
    <2> QED BY <2>2, <2>3
  <1>4. \/ ~\E p \in P : Turn(light, s, p) = 0 /\ Along(light, s, p) < 0
        \/ ~\E p \in P : Turn(light, s, p) = 0 /\ Along(light, s, p) > 0
    BY <1>2, <1>3 DEF Aligned, OnStartRay
  <1>5. Clear(light, s, P)
    BY <1>1, <1>4 DEF Clear
  <1> QED BY <1>5 DEF s, P

(* The order is sorted, but in the aligned case.                           *)
LEMMA SortedIs ==
    ASSUME Ready
    PROVE  SortedUnlessAligned
  <1> DEFINE s == edges[Visible + 1].from
             n == Visible
             at(i) == PointOf(edges, order[i])
  <1>1. light \in Points /\ Start = s /\ s \in Points /\ Along(light, s, s) > 0
        /\ DOMAIN order = 1 .. Len(order)
    BY ReadyIs, AwayFromLight DEF Ready
  <1>2. ASSUME ~Aligned, NEW i \in DOMAIN order, NEW j \in DOMAIN order, i < j
        PROVE  OnStartRay(at(i)) \/ OnStartRay(at(j)) \/ ~Later(at(i), at(j))
    <2>1. i \in 1 .. Len(order) /\ j \in 1 .. Len(order)
      BY <1>1
    <2>2. /\ at(i) \in Points /\ at(j) \in Points
          /\ order[i] = First(n) => at(i) = s
          /\ order[j] = Final(n) => at(j) = s
      BY <2>1, SweptEnds DEF Ready
    <2>3. OnStartRay(s)
      <3>1. Beside(s) = 0
        BY <1>1, TurnIs, SameTurn DEF Beside
      <3>2. Ahead(s) = Along(light, s, s)
        BY <1>1 DEF Ahead, Along
      <3> QED BY <1>1, <3>1, <3>2 DEF OnStartRay
    <2>4. CASE order[i] # First(n) /\ order[j] # Final(n)
      <3>1. Clear(light, s, FacePoints(edges, n))
        BY <1>2, ClearUnlessAligned
      <3>2. Before(light, s, at(i), at(j))
        BY <1>2, <2>1, <2>4, <3>1, EndsSorted DEF Ready
      <3> DEFINE p == at(i)
                 q == at(j)
      <3>3. p \in Points /\ q \in Points /\ Before(light, s, p, q)
        BY <2>2, <3>2
      <3> HIDE DEF p, q, s
      <3>4. /\ Beside(p) = Turn(light, s, p) /\ Beside(q) = Turn(light, s, q)
            /\ leftOfRaw(p, light, q) = -Turn(light, p, q) /\ Turn(light, p, q) \in Int
        <4>1. Beside(p) = Turn(light, s, p) /\ Beside(q) = Turn(light, s, q)
          BY <1>1, <3>3, TurnIs DEF Beside
        <4>2. leftOfRaw(p, light, q) = Turn(light, q, p)
          BY <1>1, <3>3, TurnIs
        <4>3. Turn(light, q, p) = -Turn(light, p, q) /\ Turn(light, p, q) \in Int
          BY <1>1, <3>3, TurnIs
        <4> QED BY <4>1, <4>2, <4>3
      <3>5. ~Later(p, q)
        <4>1. \/ Beside(p) > 0 /\ ~(Beside(q) > 0)
              \/ (Beside(p) > 0 <=> Beside(q) > 0) /\ ~(leftOfRaw(p, light, q) > 0)
          BY <3>3, <3>4 DEF Before
        <4> QED BY <4>1 DEF Later
      <3> QED BY <3>5 DEF p, q
    <2> QED BY <2>2, <2>3, <2>4
  <1> QED BY <1>2 DEF SortedUnlessAligned, SortedCounterClockwise

(* The loop over the stack ends within it or behind it.                    *)
LEMMA InsertIndexIs ==
    ASSUME NEW S, stack \in Seq(S)
    PROVE  InsertIndex \in 1 .. Len(stack) + 1
  <1> DEFINE stop == {i \in DOMAIN stack :
                    Hit(i) = Null \/ NoFarther(CurrentPoint, Hit(i), light)}
  <1>1. DOMAIN stack = 1 .. Len(stack) /\ Len(stack) \in Nat
    OBVIOUS
  <1>2. stop \subseteq 1 .. Len(stack) /\ stop \in SUBSET Nat
    BY <1>1
  <1>3. InsertIndex = IF stop = {} THEN Len(stack) + 1 ELSE Min(stop)
    BY DEF InsertIndex
  <1> HIDE DEF stop
  <1>4. stop # {} => Min(stop) \in stop
    BY <1>2, MinIs
  <1> QED BY <1>1, <1>2, <1>3, <1>4

(* A hit is a point or null.                                               *)
LEMMA HitIs ==
    ASSUME SweepInv, NEW i \in 1 .. Len(stack)
    PROVE  Hit(i) \in Rationals \union {Null} /\ CurrentPoint \in Points
  <1>1. pos \in 1 .. Len(order) /\ stack \in Seq(DOMAIN edges) /\ Ready
    BY DEF SweepInv, OpenStack
  <1>2. CurrentPoint \in Points
    BY <1>1, SweptEnds DEF CurrentPoint, Current, Ready
  <1>3. edges[stack[i]] \in EdgeRecords /\ light \in Points
    BY <1>1, ReadyIs
  <1> QED BY <1>2, <1>3, IntersectionIs DEF Hit

(* addPoint adds a point at most.                                          *)
LEMMA PointsAdded ==
    ASSUME NEW poly \in Seq(Rationals), NEW p \in Rationals
    PROVE  addPoint(poly, p) \in Seq(Rationals)
  BY DEF addPoint

(* The first state of the sweep.                                           *)
LEMMA SweepBegins ==
    ASSUME Scenery, Init
    PROVE  SweepInv
  <1>1. PICK scene \in Scenes, p \in Lights :
            /\ light = Point(p[1], p[2])
            /\ edges = SplitEdges(visibleEdges(scene, light), light)
            /\ order = sortEdgePoints(edges, Len(edges) - 2, light)
            /\ pass = 1 /\ pos = 1
            /\ stack = <<>> /\ polygon = <<>> /\ thrown = FALSE
    BY DEF Init
  <1> DEFINE v == visibleEdges(scene, light)
             n == Len(v)
             m == findNearestEdge(v, light)
  <1>2. light \in Points /\ light.x \in 0 .. Width /\ light.y \in 0 .. Height
        /\ v \in Seq(Facing(light)) /\ n \in Nat \ {0}
    BY <1>1, VisibleEdgesAre
  <1> HIDE DEF v
  <1>3. edges = SplitEdges(v, light)
    BY <1>1 DEF v
  <1>4. Prepared(light, edges, n, m)
    BY <1>2, <1>3, SplitIs
  <1> HIDE DEF m, n
  <1>5. n = Visible /\ m = Nearest
    <2>1. n \in Nat /\ Len(edges) = n + 2 /\ m = findNearestEdge(SubSeq(edges, 1, n), light)
      BY <1>4 DEF Prepared
    <2>2. n = Visible
      BY <2>1 DEF Visible
    <2> QED BY <2>1, <2>2 DEF Nearest
  <1>6. IsOrder(edges, light, n, m, order)
    <2>1. light \in Points /\ n \in Nat /\ edges \in Seq(EdgeRecords) /\ Len(edges) = n + 2
          /\ m = findNearestEdge(SubSeq(edges, 1, n), light)
      BY <1>4 DEF Prepared
    <2>2. order = sortEdgePoints(edges, n, light)
      BY <1>1, <1>5 DEF Visible
    <2> QED BY <2>1, <2>2, OrderIs
  <1>7. Ready
    BY <1>2, <1>4, <1>5, <1>6 DEF Ready
  <1>8. Len(order) \in Nat \ {0}
    <2>1. PICK i \in n + 1 .. n + 2 : Swept(edges, n, m, i)
      BY <1>4 DEF Prepared
    <2>2. End(i, "from") \in EndsOf(edges) /\ End(i, "from").edge = i
      <3>1. i \in 1 .. Len(edges)
        BY <1>2, <1>4 DEF Prepared
      <3> QED BY <3>1, EndIs DEF EndsOf, End
    <2>3. End(i, "from") \in ToSet(order)
      BY <1>6, <2>1, <2>2 DEF IsOrder
    <2>4. DOMAIN order = 1 .. Len(order) /\ Len(order) \in Nat
      BY <1>7, ReadyIs
    <2> QED BY <2>3, <2>4 DEF ToSet
  <1>9. OpenStack
    <2>1. stack \in Seq(DOMAIN edges) /\ Len(stack) = 0 /\ DOMAIN stack = {}
      BY <1>1
    <2>2. IsInjective(stack)
      BY <2>1 DEF IsInjective
    <2> QED BY <1>1, <1>8, <2>1, <2>2 DEF OpenStack
  <1>10. polygon \in Seq(Rationals) /\ thrown \in BOOLEAN /\ ThrowsOnlyAligned
    <2>1. polygon = <<>> /\ thrown = FALSE
      BY <1>1
    <2>2. <<>> \in Seq(Rationals)
      OBVIOUS
    <2> QED BY <2>1, <2>2 DEF ThrowsOnlyAligned
  <1> QED BY <1>7, <1>9, <1>10 DEF SweepInv

(* What every step leaves as it was.                                       *)
LEMMA ReadyKept ==
    ASSUME Ready, UNCHANGED <<light, edges, order>>
    PROVE  Ready' /\ (Aligned' <=> Aligned)
  <1>1. Visible' = Visible /\ Nearest' = Nearest
    BY DEF Visible, Nearest
  <1>2. Ready'
    BY <1>1 DEF Ready
  <1>3. Faces' = Faces /\ Start' = Start
    BY DEF Faces, Start
  <1>4. \A p : (Beside(p)' = Beside(p)) /\ (Ahead(p)' = Ahead(p))
    BY <1>3 DEF Beside, Ahead
  <1>5. Aligned' <=> Aligned
    BY <1>3, <1>4 DEF Aligned, OnStartRay
  <1> QED BY <1>2, <1>5

(* The current end, and the edges that stay open when it has been passed.  *)
LEMMA CurrentIs ==
    ASSUME SweepInv
    PROVE  /\ Current.edge \in DOMAIN edges /\ Current = End(Current.edge, Current.end)
           /\ Current.end \in {"from", "to"} /\ CurrentPoint \in Points
           /\ End(Current.edge, "to") \in ToSet(order)
           /\ pos \in 1 .. Len(order) /\ Len(order) \in Nat
  <1>1. pos \in 1 .. Len(order) /\ Ready
    BY DEF SweepInv, OpenStack
  <1>2. DOMAIN edges = 1 .. Visible + 2 /\ Len(order) \in Nat /\ edges \in Seq(EdgeRecords)
    BY <1>1, ReadyIs
  <1> DEFINE q == order[pos]
  <1>3. /\ q \in EndsOf(edges) /\ Swept(edges, Visible, Nearest, q.edge)
        /\ PointOf(edges, q) \in Points
        /\ q.edge \in 1 .. Visible + 2 /\ q = End(q.edge, q.end)
        /\ q.end \in {"from", "to"}
    BY <1>1, SweptEnds DEF Ready
  <1> HIDE DEF q
  <1>4. End(q.edge, "to") \in ToSet(order)
    <2>1. End(q.edge, "to") \in EndsOf(edges) /\ End(q.edge, "to").edge = q.edge
      <3>1. q.edge \in 1 .. Len(edges)
        BY <1>3 DEF EndsOf
      <3> QED BY <3>1, EndIs DEF EndsOf, End
    <2> QED BY <1>1, <1>3, <2>1 DEF Ready, IsOrder
  <1>5. Current = q /\ CurrentPoint = PointOf(edges, q)
    BY DEF Current, CurrentPoint, q
  <1> QED BY <1>1, <1>2, <1>3, <1>4, <1>5

(* After this end, the sweep has the edges open that were open, but for    *)
(* the one that ends, and the one that begins.                             *)
LEMMA StaysOpen ==
    ASSUME SweepInv, Sweeping, Advance, UNCHANGED order, NEW e,
           \/ Open(order, e, pass, pos) /\ Current # End(e, "to")
           \/ Current = End(e, "from")
    PROVE  /\ pass' \in 1 .. 3 /\ pos' \in 1 .. Len(order')
           /\ pass' # 3 => Open(order', e, pass', pos')
  <1>1. pos \in 1 .. Len(order) /\ Len(order) \in Nat /\ pass \in {1, 2}
    BY CurrentIs DEF Sweeping
  <1>2. order \in Seq(EndsOf(edges)) /\ IsInjective(order)
    BY ReadyIs DEF SweepInv
  <1>3. Current = End(e, "from") => End(e, "to") \in ToSet(order)
    BY CurrentIs, EndIs
  <1>4. /\ pos < Len(order) => Open(order, e, pass, pos + 1)
        /\ pos = Len(order) => Open(order, e, pass + 1, 1) \/ pass = 2
    BY <1>1, <1>2, <1>3, OpenGoesOn DEF Current
  <1>5. CASE pos < Len(order)
    BY <1>1, <1>4, <1>5 DEF Advance
  <1>6. CASE pos = Len(order)
    BY <1>1, <1>4, <1>6 DEF Advance
  <1> QED BY <1>1, <1>5, <1>6

(* The sweep, step by step: what begins was not on the stack and is put    *)
(* there once, and every comparison finds a hit;                           *)
LEMMA AddEdgeKeeps ==
    ASSUME SweepInv, AddEdge
    PROVE  SweepInv'
  <1> DEFINE i == InsertIndex
             c == Current.edge
             S == DOMAIN edges
  <1>1. Sweeping /\ Current.end = "from" /\ Advance
        /\ UNCHANGED <<light, edges, order, thrown>>
        /\ (i \in DOMAIN stack => Hit(i) # Null)
        /\ stack' = InsertAt(stack, i, c)
        /\ Emit(IF i # 1 THEN polygon
                   ELSE IF stack = <<>> THEN addPoint(polygon, CurrentPoint)
                   ELSE addPoints(polygon, Hit(1), CurrentPoint))
    BY DEF AddEdge
  <1>2. /\ Ready /\ stack \in Seq(S) /\ IsInjective(stack) /\ pass # 3
        /\ \A k \in 1 .. Len(stack) : Open(order, stack[k], pass, pos)
    BY <1>1 DEF SweepInv, OpenStack, Sweeping
  <1>3. c \in S /\ Current = End(c, "from") /\ CurrentPoint \in Points
        /\ pos \in 1 .. Len(order)
    BY <1>1, CurrentIs
  <1>4. Ready' /\ (Aligned' <=> Aligned) /\ S' = S
    BY <1>1, <1>2, ReadyKept
  <1>5. i \in 1 .. Len(stack) + 1 /\ Len(stack) \in Nat /\ DOMAIN stack = 1 .. Len(stack)
    <2> HIDE DEF S
    <2> QED BY <1>2, InsertIndexIs
  <1>6. c \notin ToSet(stack)
    <2>1. order \in Seq(EndsOf(edges)) /\ IsInjective(order)
      BY <1>2, ReadyIs
    <2>2. ~Open(order, c, pass, pos)
      BY <1>3, <2>1, NotYetOpen DEF Current
    <2> HIDE DEF c
    <2> QED BY <1>2, <2>2 DEF ToSet
  <1> HIDE DEF i, c, S
  <1>7. stack' \in Seq(S) /\ IsInjective(stack') /\ ToSet(stack') = ToSet(stack) \union {c}
    BY <1>1, <1>2, <1>3, <1>5, <1>6, InsertAdds
  <1>8. ASSUME NEW e \in ToSet(stack) \union {c}
        PROVE  /\ pass' \in 1 .. 3 /\ pos' \in 1 .. Len(order')
               /\ pass' # 3 => Open(order', e, pass', pos')
    <2>1. \/ Open(order, e, pass, pos) /\ Current # End(e, "to")
          \/ Current = End(e, "from")
      <3>1. Current # End(e, "to")
        BY <1>3, EndIs
      <3>2. e \in ToSet(stack) => Open(order, e, pass, pos)
        BY <1>2 DEF ToSet
      <3> QED BY <1>3, <3>1, <3>2
    <2> QED BY <1>1, <2>1, StaysOpen
  <1>9. OpenStack'
    <2>1. pass' \in 1 .. 3 /\ pos' \in 1 .. Len(order')
      BY <1>8
    <2>2. \A k \in 1 .. Len(stack') : stack'[k] \in ToSet(stack) \union {c}
      BY <1>7 DEF ToSet
    <2>3. pass' # 3 => \A k \in 1 .. Len(stack') : Open(order', stack'[k], pass', pos')
      BY <1>8, <2>2
    <2> QED BY <1>4, <1>7, <2>1, <2>3 DEF OpenStack, S
  <1>10. polygon' \in Seq(Rationals)
    <2>1. polygon \in Seq(Rationals) /\ CurrentPoint \in Rationals
      BY <1>3 DEF SweepInv, Points, Rationals
    <2>2. ASSUME i = 1, stack # <<>>
          PROVE  Hit(1) \in Rationals
      <3>1. 1 \in 1 .. Len(stack)
        BY <1>2, <1>5, <2>2
      <3>2. Hit(1) \in Rationals \union {Null}
        BY <3>1, HitIs
      <3>3. Hit(1) # Null
        BY <1>1, <1>5, <2>2, <3>1
      <3> QED BY <3>2, <3>3
    <2>3. stack # <<>> /\ i = 1 => addPoints(polygon, Hit(1), CurrentPoint) \in Seq(Rationals)
      BY <2>1, <2>2, PointsAdded DEF addPoints
    <2>4. addPoint(polygon, CurrentPoint) \in Seq(Rationals)
      BY <2>1, PointsAdded
    <2> QED BY <1>1, <2>1, <2>3, <2>4 DEF Emit
  <1>11. thrown' \in BOOLEAN /\ ThrowsOnlyAligned'
    <2>1. thrown' = thrown /\ thrown \in BOOLEAN /\ (thrown => Aligned)
      BY <1>1 DEF SweepInv, ThrowsOnlyAligned
    <2> QED BY <1>4, <2>1 DEF ThrowsOnlyAligned
  <1> QED BY <1>4, <1>9, <1>10, <1>11 DEF SweepInv

(* what ends is taken from the stack, where it was at most once;           *)
LEMMA RemoveEdgeKeeps ==
    ASSUME SweepInv, RemoveEdge
    PROVE  SweepInv'
  <1> DEFINE c == Current.edge
             S == DOMAIN edges
             i == Min(Places)
             two == Len(stack) # 1 /\ 1 \in Places
  <1>1. Sweeping /\ Current.end = "to" /\ Advance /\ UNCHANGED <<light, edges, order, thrown>>
        /\ stack' = (IF Places = {} THEN stack ELSE RemoveAt(stack, i))
        /\ IF 1 \notin Places THEN Emit(polygon)
           ELSE IF Len(stack) = 1 THEN Emit(addPoint(polygon, CurrentPoint))
           ELSE /\ pass = 2 => NextHit # Null
                /\ Emit(addPoints(polygon, CurrentPoint, NextHit))
    BY DEF RemoveEdge
  <1>2. /\ Ready /\ stack \in Seq(S) /\ IsInjective(stack) /\ pass # 3
        /\ \A k \in 1 .. Len(stack) : Open(order, stack[k], pass, pos)
    BY <1>1 DEF SweepInv, OpenStack, Sweeping
  <1>3. c \in S /\ Current = End(c, "to") /\ CurrentPoint \in Points
        /\ pos \in 1 .. Len(order)
    BY <1>1, CurrentIs
  <1>4. Ready' /\ (Aligned' <=> Aligned) /\ S' = S
    BY <1>1, <1>2, ReadyKept
  <1>5. Len(stack) \in Nat /\ DOMAIN stack = 1 .. Len(stack)
    BY <1>2
  <1>6. Places = {k \in 1 .. Len(stack) : stack[k] = c}
    BY <1>5 DEF Places
  <1>7. Places # {} => i \in 1 .. Len(stack) /\ stack[i] = c
    <2>1. Places \in SUBSET Nat
      BY <1>5, <1>6
    <2>2. Places # {} => i \in Places
      BY <2>1, MinIs
    <2> QED BY <1>6, <2>2
  <1> HIDE DEF i, c, S
  (* What is left on the stack was there, once, and is not the current edge.     *)
  <1>8. /\ stack' \in Seq(S) /\ IsInjective(stack')
        /\ \A k \in 1 .. Len(stack') : \E j \in 1 .. Len(stack) : stack'[k] = stack[j]
           /\ stack[j] # c
    <2>1. CASE Places = {}
      <3>1. stack' = stack /\ \A j \in 1 .. Len(stack) : stack[j] # c
        BY <1>1, <1>6, <2>1
      <3> QED BY <1>2, <3>1
    <2>2. CASE Places # {}
      <3> DEFINE r == RemoveAt(stack, i)
      <3>1. /\ r \in Seq(S) /\ Len(r) = Len(stack) - 1
            /\ \A j \in 1 .. Len(stack) - 1 : r[j] = stack[IF j < i THEN j ELSE j + 1]
        BY <1>2, <1>7, <2>2, Removed
      <3>2. stack' = r
        BY <1>1, <2>2
      <3> HIDE DEF r
      <3>3. \A j \in 1 .. Len(r) : (IF j < i THEN j ELSE j + 1) \in 1 .. Len(stack)
                /\ (IF j < i THEN j ELSE j + 1) # i
        BY <1>5, <1>7, <2>2, <3>1
      <3>4. \A j, k \in 1 .. Len(stack) : stack[j] = stack[k] => j = k
        BY <1>2, <1>5 DEF IsInjective
      <3>5. \A k \in 1 .. Len(r) : \E j \in 1 .. Len(stack) : r[k] = stack[j] /\ stack[j] # c
        <4> TAKE k \in 1 .. Len(r)
        <4>0. (IF k < i THEN k ELSE k + 1) \in 1 .. Len(stack)
          BY <3>3
        <4>1. r[k] = stack[IF k < i THEN k ELSE k + 1]
          BY <3>1
        <4>2. stack[IF k < i THEN k ELSE k + 1] # stack[i]
          BY <1>7, <2>2, <3>3, <3>4
        <4> QED BY <1>7, <2>2, <4>0, <4>1, <4>2
      <3>6. IsInjective(r)
        <4>1. DOMAIN r = 1 .. Len(r) /\ Len(r) \in Nat
          BY <3>1
        <4>2. ASSUME NEW j \in 1 .. Len(r), NEW k \in 1 .. Len(r), r[j] = r[k]
              PROVE  j = k
          <5> DEFINE x == IF j < i THEN j ELSE j + 1
                     y == IF k < i THEN k ELSE k + 1
          <5>1. x \in 1 .. Len(stack) /\ y \in 1 .. Len(stack)
            BY <3>3
          <5>2. r[j] = stack[x] /\ r[k] = stack[y]
            BY <3>1
          <5>3. x = y
            <6> HIDE DEF x, y
            <6> QED BY <3>4, <4>2, <5>1, <5>2
          <5> QED BY <1>7, <2>2, <5>3
        <4> QED BY <4>1, <4>2 DEF IsInjective
      <3> QED BY <3>1, <3>2, <3>5, <3>6
    <2> QED BY <2>1, <2>2
  <1>9. ASSUME NEW j \in 1 .. Len(stack), stack[j] # c
        PROVE  /\ pass' \in 1 .. 3 /\ pos' \in 1 .. Len(order')
               /\ pass' # 3 => Open(order', stack[j], pass', pos')
    <2>1. Current # End(stack[j], "to")
      BY <1>3, <1>9, EndIs
    <2> QED BY <1>1, <1>2, <2>1, StaysOpen
  <1>10. pass' \in 1 .. 3 /\ pos' \in 1 .. Len(order')
    <2>1. Len(order) \in Nat /\ pass \in {1, 2}
      BY <1>1, CurrentIs DEF Sweeping
    <2> QED BY <1>1, <1>3, <2>1 DEF Advance
  <1>11. OpenStack'
    <2>1. pass' # 3 => \A k \in 1 .. Len(stack') : Open(order', stack'[k], pass', pos')
      BY <1>8, <1>9
    <2> QED BY <1>4, <1>8, <1>10, <2>1 DEF OpenStack, S
  <1>12. polygon' \in Seq(Rationals)
    <2>1. polygon \in Seq(Rationals) /\ CurrentPoint \in Rationals
      BY <1>3 DEF SweepInv, Points, Rationals
    <2>2. ASSUME 1 \in Places, Len(stack) # 1, pass = 2
          PROVE  NextHit \in Rationals
      <3>1. 2 \in 1 .. Len(stack)
        BY <1>5, <1>6, <2>2
      <3>2. Hit(2) \in Rationals \union {Null}
        BY <3>1, HitIs
      <3> QED BY <1>1, <2>2, <3>2 DEF NextHit
    <2>3. 1 \in Places /\ Len(stack) # 1 /\ pass = 2
            => addPoints(polygon, CurrentPoint, NextHit) \in Seq(Rationals)
      BY <2>1, <2>2, PointsAdded DEF addPoints
    <2>4. addPoint(polygon, CurrentPoint) \in Seq(Rationals)
      BY <2>1, PointsAdded
    <2> QED BY <1>1, <2>1, <2>3, <2>4 DEF Emit
  <1>13. thrown' \in BOOLEAN /\ ThrowsOnlyAligned'
    <2>1. thrown' = thrown /\ thrown \in BOOLEAN /\ (thrown => Aligned)
      BY <1>1 DEF SweepInv, ThrowsOnlyAligned
    <2> QED BY <1>4, <2>1 DEF ThrowsOnlyAligned
  <1> QED BY <1>4, <1>11, <1>12, <1>13 DEF SweepInv

(* and a method of null is called in the aligned case only.                *)
LEMMA MissedEdgeKeeps ==
    ASSUME SweepInv, MissedEdge
    PROVE  SweepInv'
  <1>1. /\ Sweeping /\ thrown' = TRUE
        /\ UNCHANGED <<light, edges, order, pass, pos, stack, polygon>>
        /\ \/ /\ Current.end = "from" /\ InsertIndex \in DOMAIN stack
              /\ Hit(InsertIndex) = Null
           \/ /\ Current.end = "to" /\ pass = 2 /\ 1 \in Places
              /\ Len(stack) > 1 /\ NextHit = Null
    BY DEF MissedEdge
  <1>2. /\ Ready /\ stack \in Seq(DOMAIN edges) /\ IsInjective(stack) /\ pass # 3
        /\ \A k \in 1 .. Len(stack) : Open(order, stack[k], pass, pos)
    BY <1>1 DEF SweepInv, OpenStack, Sweeping
  <1>3. Current = End(Current.edge, Current.end) /\ pos \in 1 .. Len(order)
    BY CurrentIs
  <1>4. DOMAIN stack = 1 .. Len(stack) /\ Len(stack) \in Nat
    BY <1>2
  (* An edge is missed that is open and not the current one.                    *)
  <1>5. PICK j \in 1 .. Len(stack) : Hit(j) = Null /\ stack[j] # Current.edge
    <2>1. CASE Current.end = "from" /\ InsertIndex \in DOMAIN stack /\ Hit(InsertIndex) = Null
      <3>1. order \in Seq(EndsOf(edges)) /\ IsInjective(order)
        BY <1>2, ReadyIs
      <3>2. ~Open(order, Current.edge, pass, pos)
        BY <1>3, <2>1, <3>1, NotYetOpen DEF Current
      <3> QED BY <1>2, <1>4, <2>1, <3>2
    <2>2. CASE 1 \in Places /\ Len(stack) > 1 /\ NextHit = Null
      <3>1. 1 \in 1 .. Len(stack) /\ 2 \in 1 .. Len(stack) /\ stack[1] = Current.edge
        BY <1>4, <2>2 DEF Places
      <3>2. stack[2] # stack[1]
        BY <1>2, <1>4, <3>1 DEF IsInjective
      <3> QED BY <2>2, <3>1, <3>2 DEF NextHit
    <2> QED BY <1>1, <2>1, <2>2
  <1>6. Aligned
    <2>1. SUFFICES ASSUME ~Aligned PROVE FALSE
      OBVIOUS
    <2>2. Clear(light, edges[Visible + 1].from, FacePoints(edges, Visible))
      BY <1>2, <2>1, ClearUnlessAligned
    <2>3. Open(order, stack[j], pass, pos) /\ stack[j] # order[pos].edge
      BY <1>2, <1>5 DEF Current
    <2>4. intersection(edges[stack[j]], light, PointOf(edges, order[pos])) # Null
      BY <1>2, <1>3, <2>2, <2>3, OpenMeets DEF Ready
    <2> QED BY <1>5, <2>4 DEF Hit, CurrentPoint, Current
  <1>7. Ready' /\ Aligned'
    BY <1>1, <1>2, <1>6, ReadyKept
  <1>8. OpenStack'
    BY <1>1 DEF SweepInv, OpenStack
  <1>9. polygon' \in Seq(Rationals)
    BY <1>1 DEF SweepInv
  <1> QED BY <1>1, <1>7, <1>8, <1>9 DEF SweepInv, ThrowsOnlyAligned

(* Every step keeps the invariant,                                         *)
LEMMA SweepKeeps ==
    ASSUME SweepInv, [Next]_vars
    PROVE  SweepInv'
  <1>1. ASSUME UNCHANGED vars
        PROVE  SweepInv'
    <2>1. UNCHANGED <<light, edges, order>> /\ UNCHANGED <<pass, pos, stack, polygon, thrown>>
      BY <1>1 DEF vars
    <2>2. Ready' /\ (Aligned' <=> Aligned)
      BY <2>1, ReadyKept DEF SweepInv
    <2>3. OpenStack'
      BY <2>1 DEF SweepInv, OpenStack
    <2> QED BY <2>1, <2>2, <2>3 DEF SweepInv, ThrowsOnlyAligned
  <1> QED BY <1>1, AddEdgeKeeps, RemoveEdgeKeeps, MissedEdgeKeeps DEF Next

(* which implies what is promised.                                         *)
LEMMA SweepImplies ==
    ASSUME SweepInv
    PROVE  TypeOK /\ SortedUnlessAligned /\ ThrowsOnlyAligned
  <1>1. Ready
    BY DEF SweepInv
  <1>2. light.x \in 0 .. Width /\ light.y \in 0 .. Height /\ light.d = 1
    BY <1>1, ReadyIs DEF Ready, Points
  <1>3. \A i \in DOMAIN order : order[i].edge \in DOMAIN edges
        /\ order[i].end \in {"from", "to"}
    <2>1. DOMAIN order = 1 .. Len(order) /\ DOMAIN edges = 1 .. Visible + 2
      BY <1>1, ReadyIs
    <2> QED BY <1>1, <2>1, SweptEnds DEF Ready
  <1>4. \A i \in DOMAIN polygon : polygon[i].d > 0
    <2>1. polygon \in Seq(Rationals)
      BY DEF SweepInv
    <2>2. \A i \in DOMAIN polygon : polygon[i] \in Rationals
      BY <2>1
    <2> QED BY <2>2 DEF Rationals
  <1>5. TypeOK
    BY <1>2, <1>3, <1>4 DEF TypeOK, SweepInv, OpenStack
  <1> QED BY <1>1, <1>5, SortedIs DEF SweepInv

(* The sweep turns counter-clockwise and calls no method of null, for every scene *)
(* of rectangles and every light, but in the aligned case.                 *)
THEOREM SweepPromise ==
    ASSUME Scenery
    PROVE  Spec => [](TypeOK /\ SortedUnlessAligned /\ ThrowsOnlyAligned)
  <1>1. Init => SweepInv
    BY SweepBegins
  <1>2. SweepInv /\ [Next]_vars => SweepInv'
    BY SweepKeeps
  <1>3. SweepInv => TypeOK /\ SortedUnlessAligned /\ ThrowsOnlyAligned
    BY SweepImplies
  <1> QED BY <1>1, <1>2, <1>3, PTL DEF Spec

-----------------------------------------------------------------------------
(* Distances along a ray.                                                  *)

(* Along the ray to c, edge a is no farther than edge b.                   *)
Nearer(l, a, b, c) == Size(l, a) * Depth(l, b, c) <= Size(l, b) * Depth(l, a, c)

(* A divisor divides.                                                      *)
LEMMA Divides ==
    ASSUME NEW D \in Int, NEW g \in Nat, g > 0, D % g = 0
    PROVE  D = (D \div g) * g /\ D \div g \in Int
  OBVIOUS

(* An edge that is met has a size and a depth.                             *)
LEMMA DepthIs ==
    ASSUME NEW l \in Points, NEW c \in Points, NEW e \in EdgeRecords, Met(l, e, c)
    PROVE  /\ Depth(l, e, c) \in Int /\ Depth(l, e, c) > 0
           /\ Size(l, e) \in Int /\ Size(l, e) > 0
           /\ Turn(l, e.from, c) \in Int /\ Turn(l, c, e.to) \in Int
  <1> DEFINE f == e.from
             t == e.to
             cc == Along(l, c, c)
             ft == Turn(l, f, t)
             fc == Turn(l, f, c)
             ct == Turn(l, c, t)
             cf == Turn(l, c, f)
             u == Along(l, c, f)
             v == Along(l, c, t)
  <1>1. f \in Points /\ t \in Points
    BY DEF EdgeRecords
  <1>2. cc * ft = u * ct - cf * v /\ cf = 0 - fc
    <2>1. cf = -fc /\ fc \in Int
      BY <1>1, TurnIs
    <2>2. cc * ft = u * ct - cf * v
      BY <1>1, Projections
    <2> QED BY <2>1, <2>2
  <1>3. cc \in Int /\ ft \in Int /\ fc \in Int /\ ct \in Int /\ cf \in Int /\ u \in Int
        /\ v \in Int
    BY <1>1, TurnIs
  <1>4. cc > 0 /\ ft > 0 /\ fc >= 0 /\ ct >= 0
    BY DEF Met, Size
  <1>5. Depth(l, e, c) = fc + ct /\ Size(l, e) = ft
    BY DEF Depth, Size
  <1> HIDE DEF f, t, cc, ft, fc, ct, cf, u, v
  <1>6. fc + ct > 0
    <2>1. ASSUME fc = 0, ct = 0
          PROVE  FALSE
      <3>1. cf = 0
        <4>1. fc = 0
          BY <2>1
        <4>2. 0 - 0 = 0
          OBVIOUS
        <4> QED BY <1>2, <4>1, <4>2, Zenon
      <3>2. u * 0 = 0 /\ 0 * v = 0 /\ 0 - 0 = 0
        BY <1>3
      <3>3. cc * ft = 0
        BY <1>2, <2>1, <3>1, <3>2, Zenon
      <3>4. cc * ft > 0
        BY <1>3, <1>4, Signs
      <3> QED BY <3>3, <3>4
    <2> QED BY <1>3, <1>4, <2>1
  <1> QED BY <1>3, <1>4, <1>5, <1>6 DEF f, t, fc, ct

(* Where the model finds the hit of a ray: at Size / Depth of the way to   *)
(* c.                                                                      *)
LEMMA HitAt ==
    ASSUME NEW l \in Points, NEW c \in Points, NEW e \in EdgeRecords, Met(l, e, c)
    PROVE  LET h == intersection(e, l, c)
           IN  /\ h \in Rationals
               /\ \E g \in Nat \ {0} :
                    /\ g * h.d = Depth(l, e, c)
                    /\ g * (h.x - l.x * h.d) = Size(l, e) * (c.x - l.x)
                    /\ g * (h.y - l.y * h.d) = Size(l, e) * (c.y - l.y)
  <1> DEFINE p1x == e.from.x
             p1y == e.from.y
             p2x == e.to.x
             p2y == e.to.y
             lx == l.x
             ly == l.y
             cx == c.x
             cy == c.y
             den == (cy - ly) * (p2x - p1x) - (cx - lx) * (p2y - p1y)
             num == (cx - lx) * (p1y - ly) - (cy - ly) * (p1x - lx)
             D == IF den < 0 THEN -den ELSE den
             N == IF den < 0 THEN -num ELSE num
             S == {k \in 1 .. D : D % k = 0 /\ N % k = 0}
             g == Max(S)
             n == N \div g
             d == D \div g
             h == [x |-> p1x * d + n * (p2x - p1x), y |-> p1y * d + n * (p2y - p1y), d |-> d]
             A == Turn(l, e.from, c)
             B == Turn(l, c, e.to)
             F == Size(l, e)
  <1>1. intersection(e, l, c) = IF den = 0 \/ N < 0 \/ N > D THEN Null ELSE h
    BY DEF intersection
  <1>2. /\ p1x \in Int /\ p1y \in Int /\ p2x \in Int /\ p2y \in Int
        /\ lx \in Int /\ ly \in Int /\ cx \in Int /\ cy \in Int
    BY DEF EdgeRecords, Points
  <1>3. /\ A = (p1x - lx) * (cy - ly) - (p1y - ly) * (cx - lx)
        /\ B = (cx - lx) * (p2y - ly) - (cy - ly) * (p2x - lx)
        /\ F = (p1x - lx) * (p2y - ly) - (p1y - ly) * (p2x - lx)
    BY DEF Turn, Size
  <1>4. /\ A \in Int /\ B \in Int /\ F \in Int /\ A >= 0 /\ B >= 0 /\ A + B > 0
        /\ Depth(l, e, c) = A + B
    <2>1. Depth(l, e, c) = A + B
      BY DEF Depth
    <2>2. A >= 0 /\ B >= 0
      BY DEF Met
    <2> QED BY <2>1, <2>2, DepthIs
  <1>5. h.x = p1x * d + n * (p2x - p1x) /\ h.y = p1y * d + n * (p2y - p1y) /\ h.d = d
    OBVIOUS
  <1> HIDE DEF p1x, p1y, p2x, p2y, lx, ly, cx, cy, A, B, F
  <1>6. den = -(A + B) /\ num = -A /\ den \in Int /\ num \in Int
    <2>1. den = -(A + B) /\ num = -A
      BY <1>2, <1>3
    <2> QED BY <1>4, <2>1
  <1> HIDE DEF den, num
  <1>7. D = A + B /\ N = A
    BY <1>4, <1>6
  <1>8. intersection(e, l, c) = h
    <2> HIDE DEF h, D, N
    <2> QED BY <1>1, <1>4, <1>6, <1>7
  <1> HIDE DEF D, N
  <1>9. g \in 1 .. D /\ D % g = 0 /\ N % g = 0
    <2>1. 1 \in S
      BY <1>4, <1>7
    <2>2. IsFiniteSet(S)
      <3>1. IsFiniteSet(1 .. D)
        BY <1>4, <1>7, FS_Interval
      <3>2. S \subseteq 1 .. D
        OBVIOUS
      <3> HIDE DEF S
      <3> QED BY <3>1, <3>2, FS_Subset
    <2>3. S \in SUBSET Nat
      BY <1>4, <1>7
    <2>4. g \in S
      <3> HIDE DEF S
      <3> QED BY <2>1, <2>2, <2>3, GreatestFinite
    <2> HIDE DEF g
    <2> QED BY <2>4
  <1> HIDE DEF g
  <1>10. g \in Nat /\ g > 0 /\ D = d * g /\ N = n * g /\ d \in Int /\ n \in Int
    <2>1. g \in Nat /\ g > 0 /\ D \in Int /\ N \in Int
      BY <1>4, <1>7, <1>9
    <2>2. D = (D \div g) * g /\ D \div g \in Int
      BY <1>9, <2>1, Divides
    <2>3. N = (N \div g) * g /\ N \div g \in Int
      BY <1>9, <2>1, Divides
    <2> QED BY <2>1, <2>2, <2>3
  <1> HIDE DEF n, d, h
  <1>11. d > 0
    <2>1. d <= 0 => d * g <= 0
      BY <1>10, Signs
    <2> QED BY <1>4, <1>7, <1>10, <2>1
  <1>12. h \in Rationals
    <2>1. p1x * d + n * (p2x - p1x) \in Int /\ p1y * d + n * (p2y - p1y) \in Int
      <3>1. p1x * d \in Int /\ n * (p2x - p1x) \in Int /\ p1y * d \in Int
            /\ n * (p2y - p1y) \in Int
        BY <1>2, <1>10
      <3> QED BY <3>1
    <2> QED BY <1>10, <1>11, <2>1 DEF Rationals, h
  <1>13. g * h.d = A + B
    BY <1>4, <1>5, <1>7, <1>10
  <1>14. g * (h.x - lx * h.d) = F * (cx - lx)
    <2>1. g * ((p1x * d + n * (p2x - p1x)) - lx * d) = (p1x - lx) * (d * g) + (n * g) * (p2x - p1x)
      BY <1>2, <1>10
    <2>2. (p1x - lx) * (A + B) + A * (p2x - p1x) = B * (p1x - lx) + A * (p2x - lx)
      BY <1>2, <1>4
    <2>3. B * (p1x - lx) + A * (p2x - lx) = F * (cx - lx)
      BY <1>2, <1>3
    <2> QED BY <1>5, <1>7, <1>10, <2>1, <2>2, <2>3
  <1>15. g * (h.y - ly * h.d) = F * (cy - ly)
    <2>1. g * ((p1y * d + n * (p2y - p1y)) - ly * d) = (p1y - ly) * (d * g) + (n * g) * (p2y - p1y)
      BY <1>2, <1>10
    <2>2. (p1y - ly) * (A + B) + A * (p2y - p1y) = B * (p1y - ly) + A * (p2y - ly)
      BY <1>2, <1>4
    <2>3. B * (p1y - ly) + A * (p2y - ly) = F * (cy - ly)
      BY <1>2, <1>3
    <2> QED BY <1>5, <1>7, <1>10, <2>1, <2>2, <2>3
  <1> QED BY <1>4, <1>8, <1>10, <1>12, <1>13, <1>14, <1>15 DEF lx, ly, cx, cy, F

(* A common factor decides nothing,                                        *)
LEMMA Scales ==
    ASSUME NEW k \in Int, k > 0, NEW p \in Int, NEW q \in Int
    PROVE  k * p <= k * q <=> p <= q
  <1>1. p <= q => k * (q - p) >= 0
    BY Signs
  <1>2. p > q => k * (q - p) < 0
    BY Signs
  <1>3. k * (q - p) = k * q - k * p /\ k * q \in Int /\ k * p \in Int
    OBVIOUS
  <1> QED BY <1>1, <1>2, <1>3

(* nor does a square.                                                      *)
LEMMA Squares ==
    ASSUME NEW p \in Int, NEW q \in Int, p >= 0, q >= 0
    PROVE  p * p <= q * q <=> p <= q
  <1>1. q * q - p * p = (q - p) * (q + p) /\ q * q \in Int /\ p * p \in Int /\ q - p \in Int
        /\ q + p \in Int
    OBVIOUS
  <1>2. p <= q => (q - p) * (q + p) >= 0
    BY <1>1, Signs
  <1>3. p > q => (q - p) * (q + p) < 0
    BY <1>1, Signs
  <1> QED BY <1>1, <1>2, <1>3

(* The square of the distance of a hit, in terms of the ray.               *)
LEMMA DistanceAt ==
    ASSUME NEW l \in Points, NEW c \in Points, NEW h \in Rationals, NEW g \in Nat \ {0},
           NEW F \in Int,
           g * (h.x - l.x * h.d) = F * (c.x - l.x), g * (h.y - l.y * h.d) = F * (c.y - l.y)
    PROVE  /\ ScaledDistance(h, l) \in Int /\ Along(l, c, c) \in Int
           /\ (g * g) * ScaledDistance(h, l) = (F * F) * Along(l, c, c)
  <1> DEFINE u == h.x - l.x * h.d
             v == h.y - l.y * h.d
             X == c.x - l.x
             Y == c.y - l.y
  <1>1. u \in Int /\ v \in Int /\ X \in Int /\ Y \in Int
    <2>1. h.x \in Int /\ h.y \in Int /\ h.d \in Int /\ l.x \in Int /\ l.y \in Int
          /\ c.x \in Int /\ c.y \in Int
      BY DEF Rationals, Points
    <2>2. l.x * h.d \in Int /\ l.y * h.d \in Int
      BY <2>1
    <2> QED BY <2>1, <2>2
  <1>2. ScaledDistance(h, l) = u * u + v * v /\ Along(l, c, c) = X * X + Y * Y
    BY DEF ScaledDistance, Square, Along
  <1>3. g * u = F * X /\ g * v = F * Y
    OBVIOUS
  <1> HIDE DEF u, v, X, Y
  <1>4. (g * g) * (u * u + v * v) = (g * u) * (g * u) + (g * v) * (g * v)
    BY <1>1
  <1>5. (F * X) * (F * X) + (F * Y) * (F * Y) = (F * F) * (X * X + Y * Y)
    BY <1>1
  <1>6. u * u \in Int /\ v * v \in Int /\ X * X \in Int /\ Y * Y \in Int
    BY <1>1
  <1> QED BY <1>2, <1>3, <1>4, <1>5, <1>6

(* So the model's comparison of distances is Nearer.                       *)
LEMMA NearerIs ==
    ASSUME NEW l \in Points, NEW c \in Points, NEW a \in EdgeRecords, NEW b \in EdgeRecords,
           Met(l, a, c), Met(l, b, c)
    PROVE  NoFarther(intersection(a, l, c), intersection(b, l, c), l) <=> Nearer(l, a, b, c)
  <1> DEFINE h1 == intersection(a, l, c)
             h2 == intersection(b, l, c)
             F1 == Size(l, a)
             F2 == Size(l, b)
             D1 == Depth(l, a, c)
             D2 == Depth(l, b, c)
             L == Along(l, c, c)
             S1 == ScaledDistance(h1, l)
             S2 == ScaledDistance(h2, l)
  <1>1. h1 \in Rationals /\ h2 \in Rationals
    BY HitAt
  <1>2. PICK g1 \in Nat \ {0} :
            /\ g1 * h1.d = D1
            /\ g1 * (h1.x - l.x * h1.d) = F1 * (c.x - l.x)
            /\ g1 * (h1.y - l.y * h1.d) = F1 * (c.y - l.y)
    BY HitAt
  <1>3. PICK g2 \in Nat \ {0} :
            /\ g2 * h2.d = D2
            /\ g2 * (h2.x - l.x * h2.d) = F2 * (c.x - l.x)
            /\ g2 * (h2.y - l.y * h2.d) = F2 * (c.y - l.y)
    BY HitAt
  <1>4. F1 \in Int /\ F2 \in Int /\ D1 \in Int /\ D2 \in Int /\ F1 > 0 /\ F2 > 0 /\ D1 > 0
        /\ D2 > 0
    BY DepthIs
  <1> DEFINE d1 == h1.d
             d2 == h2.d
  <1>5. d1 \in Int /\ d2 \in Int
    BY <1>1 DEF Rationals
  <1>6. NoFarther(h1, h2, l) <=> S1 * (d2 * d2) <= S2 * (d1 * d1)
    BY DEF NoFarther, Square
  <1>7. L > 0
    BY DEF Met
  <1> HIDE DEF h1, h2, F1, F2, D1, D2
  <1>8. S1 \in Int /\ L \in Int /\ (g1 * g1) * S1 = (F1 * F1) * L
    <2> HIDE DEF S1, L
    <2> QED BY <1>1, <1>2, <1>4, DistanceAt DEF S1, L
  <1>9. S2 \in Int /\ (g2 * g2) * S2 = (F2 * F2) * L
    <2> HIDE DEF S2, L
    <2> QED BY <1>1, <1>3, <1>4, DistanceAt DEF S2, L
  <1>10. g1 * d1 = D1 /\ g2 * d2 = D2
    BY <1>2, <1>3
  <1> HIDE DEF S1, S2, L, d1, d2
  <1> DEFINE G1 == g1 * g1
             G2 == g2 * g2
             K == G1 * G2
             P == S1 * (d2 * d2)
             Q == S2 * (d1 * d1)
             p == F1 * D2
             q == F2 * D1
  <1>11. K * P = L * (p * p)
    <2>1. K * P = ((g1 * g1) * S1) * ((g2 * d2) * (g2 * d2))
      BY <1>5, <1>8
    <2>2. ((F1 * F1) * L) * (D2 * D2) = L * (p * p)
      BY <1>4, <1>8
    <2> QED BY <1>8, <1>10, <2>1, <2>2
  <1>12. K * Q = L * (q * q)
    <2>1. K * Q = ((g2 * g2) * S2) * ((g1 * d1) * (g1 * d1))
      BY <1>5, <1>9
    <2>2. ((F2 * F2) * L) * (D1 * D1) = L * (q * q)
      BY <1>4, <1>8
    <2> QED BY <1>9, <1>10, <2>1, <2>2
  <1>13. K \in Int /\ K > 0 /\ P \in Int /\ Q \in Int
    <2>1. G1 \in Int /\ G1 > 0 /\ G2 \in Int /\ G2 > 0
      BY Signs
    <2> HIDE DEF G1, G2
    <2>2. K \in Int /\ K > 0
      BY <2>1, Signs
    <2>3. d1 * d1 \in Int /\ d2 * d2 \in Int
      BY <1>5
    <2> QED BY <1>8, <1>9, <2>2, <2>3
  <1>14. p \in Int /\ q \in Int /\ p >= 0 /\ q >= 0
    <2>1. p \in Int /\ p > 0
      BY <1>4, Signs
    <2>2. q \in Int /\ q > 0
      BY <1>4, Signs
    <2> QED BY <2>1, <2>2
  <1> HIDE DEF K, P, Q, p, q
  <1>15. P <= Q <=> K * P <= K * Q
    BY <1>13, Scales
  <1>16. L * (p * p) <= L * (q * q) <=> p * p <= q * q
    <2>1. p * p \in Int /\ q * q \in Int
      BY <1>14
    <2> QED BY <1>7, <1>8, <2>1, Scales
  <1>17. p * p <= q * q <=> p <= q
    BY <1>14, Squares
  <1>18. P <= Q <=> p <= q
    BY <1>11, <1>12, <1>15, <1>16, <1>17
  <1> QED BY <1>6, <1>18 DEF P, Q, p, q, h1, h2, F1, F2, D1, D2, Nearer

(* The point c itself, to which the ray goes.                              *)
LEMMA ReachedIs ==
    ASSUME NEW l \in Points, NEW c \in Points, NEW e \in EdgeRecords, Met(l, e, c)
    PROVE  NoFarther(c, intersection(e, l, c), l) <=> Depth(l, e, c) <= Size(l, e)
  <1> DEFINE h == intersection(e, l, c)
             F == Size(l, e)
             D == Depth(l, e, c)
             L == Along(l, c, c)
             S == ScaledDistance(h, l)
             d == h.d
  <1>1. h \in Rationals
    BY HitAt
  <1>2. PICK g \in Nat \ {0} :
            /\ g * h.d = D
            /\ g * (h.x - l.x * h.d) = F * (c.x - l.x)
            /\ g * (h.y - l.y * h.d) = F * (c.y - l.y)
    BY HitAt
  <1>3. F \in Int /\ D \in Int /\ F > 0 /\ D > 0
    BY DepthIs
  <1>4. d \in Int
    BY <1>1 DEF Rationals
  <1>5. NoFarther(c, h, l) <=> L * (d * d) <= S
    <2>1. ScaledDistance(c, l) = L /\ c.d = 1
      <3>1. c.d = 1 /\ l.x * 1 = l.x /\ l.y * 1 = l.y
        BY DEF Points
      <3> QED BY <3>1 DEF ScaledDistance, Square, Along
    <2>2. S \in Int
      <3> HIDE DEF h, F
      <3> QED BY <1>1, <1>2, <1>3, DistanceAt
    <2> HIDE DEF S, L, h
    <2>3. S * (1 * 1) = S
      BY <2>2
    <2> QED BY <2>1, <2>3 DEF NoFarther, Square, S
  <1>6. L > 0
    BY DEF Met
  <1> HIDE DEF h, F, D
  <1>7. S \in Int /\ L \in Int /\ (g * g) * S = (F * F) * L
    <2> HIDE DEF S, L
    <2> QED BY <1>1, <1>2, <1>3, DistanceAt DEF S, L
  <1>8. g * d = D
    BY <1>2
  <1> HIDE DEF S, L, d
  <1> DEFINE K == g * g
             P == L * (d * d)
  <1>9. K * P = L * (D * D)
    <2>1. K * P = L * ((g * d) * (g * d))
      BY <1>4, <1>7
    <2> QED BY <1>8, <2>1
  <1>10. K * S = L * (F * F)
    BY <1>3, <1>7
  <1>11. K \in Int /\ K > 0 /\ P \in Int
    <2>1. K \in Int /\ K > 0
      BY Signs
    <2>2. d * d \in Int
      BY <1>4
    <2> QED BY <1>7, <2>1, <2>2
  <1> HIDE DEF K, P
  <1>12. P <= S <=> K * P <= K * S
    BY <1>7, <1>11, Scales
  <1>13. L * (D * D) <= L * (F * F) <=> D * D <= F * F
    <2>1. D * D \in Int /\ F * F \in Int
      BY <1>3
    <2> QED BY <1>6, <1>7, <2>1, Scales
  <1>14. D * D <= F * F <=> D <= F
    BY <1>3, Squares
  <1>15. P <= S <=> D <= F
    BY <1>9, <1>10, <1>12, <1>13, <1>14
  <1> QED BY <1>5, <1>15 DEF P, h, F, D

-----------------------------------------------------------------------------
(* Lines between two edges.                                                *)

(* Where the ray crosses an edge, in one coordinate.                       *)
LEMMA CrossedAt ==
    ASSUME NEW l \in Points, NEW c \in Points, NEW e \in EdgeRecords
    PROVE  LET A == Turn(l, e.from, c)
               B == Turn(l, c, e.to)
           IN  /\ Size(l, e) * (c.x - l.x) = B * (e.from.x - l.x) + A * (e.to.x - l.x)
               /\ Size(l, e) * (c.y - l.y) = B * (e.from.y - l.y) + A * (e.to.y - l.y)
  <1> DEFINE A == Turn(l, e.from, c)
             B == Turn(l, c, e.to)
             F == Size(l, e)
             fx == e.from.x - l.x
             fy == e.from.y - l.y
             tx == e.to.x - l.x
             ty == e.to.y - l.y
             cx == c.x - l.x
             cy == c.y - l.y
  <1>1. fx \in Int /\ fy \in Int /\ tx \in Int /\ ty \in Int /\ cx \in Int /\ cy \in Int
    BY DEF EdgeRecords, Points
  <1>2. A = fx * cy - fy * cx /\ B = cx * ty - cy * tx /\ F = fx * ty - fy * tx
    BY DEF Turn, Size
  <1> HIDE DEF A, B, F, fx, fy, tx, ty, cx, cy
  <1>3. F * cx = B * fx + A * tx /\ F * cy = B * fy + A * ty
    BY <1>1, <1>2
  <1> QED BY <1>3 DEF A, B, F, fx, fy, tx, ty, cx, cy

(* One coordinate of two edges that a ray meets at X, all relative to the light. *)
LEMMA Weighted ==
    ASSUME NEW A \in Int, NEW B \in Int, A >= 0, B >= 0, NEW f \in Int, NEW t \in Int,
           NEW p \in Int
    PROVE  /\ f <= p /\ t <= p => B * f + A * t <= (A + B) * p
           /\ f >= p /\ t >= p => B * f + A * t >= (A + B) * p
           /\ f > p /\ t > p /\ A + B > 0 => B * f + A * t > (A + B) * p
  <1>1. /\ (A + B) * p - (B * f + A * t) = B * (p - f) + A * (p - t)
        /\ B * (p - f) \in Int /\ A * (p - t) \in Int /\ (A + B) * p \in Int
           /\ B * f + A * t \in Int
    OBVIOUS
  <1>2. /\ p - f >= 0 => B * (p - f) >= 0
        /\ p - f <= 0 => B * (p - f) <= 0
        /\ p - f < 0 /\ B > 0 => B * (p - f) < 0
    BY Signs
  <1>3. /\ p - t >= 0 => A * (p - t) >= 0
        /\ p - t <= 0 => A * (p - t) <= 0
        /\ p - t < 0 /\ A > 0 => A * (p - t) < 0
    BY Signs
  <1> DEFINE u == B * (p - f)
             v == A * (p - t)
             w == (A + B) * p
             z == B * f + A * t
  <1>4. w - z = u + v /\ u \in Int /\ v \in Int /\ w \in Int /\ z \in Int
    BY <1>1
  <1>5. /\ p - f >= 0 => u >= 0
        /\ p - f <= 0 => u <= 0
        /\ p - f < 0 /\ B > 0 => u < 0
        /\ p - t >= 0 => v >= 0
        /\ p - t <= 0 => v <= 0
        /\ p - t < 0 /\ A > 0 => v < 0
    BY <1>2, <1>3
  <1> HIDE DEF u, v, w, z
  <1>6. f <= p /\ t <= p => z <= w
    BY <1>4, <1>5
  <1>7. f >= p /\ t >= p => z >= w
    BY <1>4, <1>5
  <1>8. f > p /\ t > p /\ A + B > 0 => z > w
    BY <1>4, <1>5
  <1> QED BY <1>6, <1>7, <1>8 DEF w, z

(* Of two edges on either side of a line, which one is the nearer depends  *)
(* on the side of the light alone,                                         *)
LEMMA TwoSides ==
    ASSUME NEW D1 \in Int, NEW D2 \in Int, NEW F1 \in Int, NEW F2 \in Int, NEW X \in Int,
           NEW p \in Int,
           D1 > 0, D2 > 0, F1 > 0, F2 > 0, F1 * X <= D1 * p, F2 * X > D2 * p
    PROVE  /\ p # 0
           /\ p > 0 => F1 * D2 < F2 * D1
           /\ p < 0 => F1 * D2 > F2 * D1
  <1> DEFINE u == F1 * D2
             v == F2 * D1
  <1>1. u \in Int /\ v \in Int
    OBVIOUS
  <1>2. X * u < X * v
    <2>1. D2 * (F1 * X) <= D2 * (D1 * p)
      BY Scales
    <2>2. D1 * (F2 * X) > D1 * (D2 * p)
      <3>1. D1 * (F2 * X) <= D1 * (D2 * p) <=> F2 * X <= D2 * p
        BY Scales
      <3> QED BY <3>1
    <2>3. D2 * (F1 * X) = X * u /\ D1 * (F2 * X) = X * v /\ D2 * (D1 * p) = D1 * (D2 * p)
      OBVIOUS
    <2> QED BY <2>1, <2>2, <2>3
  <1>3. X * (v - u) = X * v - X * u /\ X * v \in Int /\ X * u \in Int
    BY <1>1
  <1>4. X > 0 => u < v
    <2>1. X > 0 /\ v - u <= 0 => X * (v - u) <= 0
      BY <1>1, Signs
    <2> QED BY <1>1, <1>2, <1>3, <2>1
  <1>5. X < 0 => u > v
    <2>1. X < 0 /\ v - u >= 0 => X * (v - u) <= 0
      BY <1>1, Signs
    <2> QED BY <1>1, <1>2, <1>3, <2>1
  <1>6. X > 0 => p > 0
    <2>1. X > 0 => F1 * X > 0
      BY Signs
    <2>2. p <= 0 => D1 * p <= 0
      BY Signs
    <2>3. F1 * X \in Int /\ D1 * p \in Int
      OBVIOUS
    <2> QED BY <2>1, <2>2, <2>3
  <1>7. X <= 0 => p < 0
    <2>1. X <= 0 => F2 * X <= 0
      BY Signs
    <2>2. p >= 0 => D2 * p >= 0
      BY Signs
    <2>3. F2 * X \in Int /\ D2 * p \in Int
      OBVIOUS
    <2> QED BY <2>1, <2>2, <2>3
  <1>8. X # 0
    <2>1. ASSUME X = 0
          PROVE  FALSE
      <3>1. 0 * u = 0 /\ 0 * v = 0
        BY <1>1
      <3> QED BY <1>2, <2>1, <3>1
    <2> QED BY <2>1
  <1> HIDE DEF u, v
  <1>9. /\ p # 0
        /\ p > 0 => u < v
        /\ p < 0 => u > v
    BY <1>4, <1>5, <1>6, <1>7, <1>8
  <1> QED BY <1>9 DEF u, v

(* also when one of them is on the line,                                   *)
LEMMA OnLine ==
    ASSUME NEW D1 \in Int, NEW D2 \in Int, NEW F1 \in Int, NEW F2 \in Int, NEW X \in Int,
           NEW p \in Int,
           D1 > 0, D2 > 0, F1 > 0, F2 > 0, F1 * X = D1 * p
    PROVE  /\ (p > 0 /\ F2 * X >= D2 * p) \/ (p < 0 /\ F2 * X <= D2 * p) => F1 * D2 <= F2 * D1
           /\ (p > 0 /\ F2 * X <= D2 * p) \/ (p < 0 /\ F2 * X >= D2 * p) => F2 * D1 <= F1 * D2
  <1> DEFINE u == F1 * D2
             v == F2 * D1
  <1>1. u \in Int /\ v \in Int
    OBVIOUS
  <1>2. D2 * (F1 * X) = X * u /\ D1 * (F2 * X) = X * v /\ D2 * (D1 * p) = D1 * (D2 * p)
    OBVIOUS
  <1>3. F2 * X >= D2 * p => X * u <= X * v
    <2>1. D1 * (D2 * p) <= D1 * (F2 * X) <=> D2 * p <= F2 * X
      BY Scales
    <2> QED BY <1>2, <2>1
  <1>4. F2 * X <= D2 * p => X * v <= X * u
    <2>1. D1 * (F2 * X) <= D1 * (D2 * p) <=> F2 * X <= D2 * p
      BY Scales
    <2> QED BY <1>2, <2>1
  <1>5. p > 0 => X > 0
    <2>1. p > 0 => D1 * p > 0
      BY Signs
    <2>2. X <= 0 => F1 * X <= 0
      BY Signs
    <2>3. F1 * X \in Int
      OBVIOUS
    <2> QED BY <2>1, <2>2, <2>3
  <1>6. p < 0 => X < 0
    <2>1. p < 0 => D1 * p < 0
      BY Signs
    <2>2. X >= 0 => F1 * X >= 0
      BY Signs
    <2>3. F1 * X \in Int
      OBVIOUS
    <2> QED BY <2>1, <2>2, <2>3
  <1> HIDE DEF u, v
  <1>7. X > 0 => /\ X * u <= X * v => u <= v
                 /\ X * v <= X * u => v <= u
    BY <1>1, Scales
  <1>8. X < 0 => /\ X * u <= X * v => v <= u
                 /\ X * v <= X * u => u <= v
    <2>1. X < 0 => (-X) > 0 /\ -X \in Int
      OBVIOUS
    <2>2. X < 0 => /\ (-X) * u <= (-X) * v <=> u <= v
                   /\ (-X) * v <= (-X) * u <=> v <= u
      BY <1>1, <2>1, Scales
    <2>3. (-X) * u = -(X * u) /\ (-X) * v = -(X * v) /\ X * u \in Int /\ X * v \in Int
      BY <1>1
    <2> QED BY <2>2, <2>3
  <1>9. (p > 0 /\ F2 * X >= D2 * p) \/ (p < 0 /\ F2 * X <= D2 * p) => u <= v
    BY <1>3, <1>4, <1>5, <1>6, <1>7, <1>8
  <1>10. (p > 0 /\ F2 * X <= D2 * p) \/ (p < 0 /\ F2 * X >= D2 * p) => v <= u
    BY <1>3, <1>4, <1>5, <1>6, <1>7, <1>8
  <1> QED BY <1>9, <1>10 DEF u, v

Axes == {"x", "y"}

(* Edge e has no point beyond the line at P across axis k, or none before it. *)
UpTo(e, k, P) == e.from[k] <= P /\ e.to[k] <= P
Past(e, k, P) == e.from[k] >= P /\ e.to[k] >= P

(* Some line with a light on one side of it has no point of edge a on the other *)
(* side and none of edge b on the light's.                                 *)
Shields(l, a, b) ==
    \E k \in Axes, P \in Int :
        \/ l[k] < P /\ UpTo(a, k, P) /\ Past(b, k, P)
        \/ P < l[k] /\ Past(a, k, P) /\ UpTo(b, k, P)

(* Edge a and edge b lie on either side of a line and do not both touch it. *)
Aside(a, b) == \E k \in Axes, P \in Int : UpTo(a, k, P) /\ Past(b, k, P + 1)

(* Which of two edges is the nearer one is the same on every ray that meets both. *)
Fixed(l, a, b) ==
    (Shields(l, a, b) /\ Shields(l, b, a)) \/ Aside(a, b) \/ Aside(b, a)

(* A point along an axis.                                                  *)
LEMMA AxisIs ==
    ASSUME NEW p \in Points, NEW k \in Axes
    PROVE  p[k] \in Int
  <1>1. p["x"] = p.x /\ p["y"] = p.y /\ p.x \in Int /\ p.y \in Int
    BY DEF Points
  <1> QED BY <1>1 DEF Axes

(* Where the ray crosses an edge, along one axis.                          *)
LEMMA CrossedOn ==
    ASSUME NEW l \in Points, NEW c \in Points, NEW e \in EdgeRecords, NEW k \in Axes
    PROVE  Size(l, e) * (c[k] - l[k]) = Turn(l, c, e.to) * (e.from[k] - l[k])
                                          + Turn(l, e.from, c) * (e.to[k] - l[k])
  <1>1. /\ Size(l, e) * (c.x - l.x) = Turn(l, c, e.to) * (e.from.x - l.x)
                                          + Turn(l, e.from, c) * (e.to.x - l.x)
        /\ Size(l, e) * (c.y - l.y) = Turn(l, c, e.to) * (e.from.y - l.y)
                                          + Turn(l, e.from, c) * (e.to.y - l.y)
    BY CrossedAt
  <1>2. CASE k = "x"
    BY <1>1, <1>2
  <1>3. CASE k = "y"
    BY <1>1, <1>3
  <1> QED BY <1>2, <1>3 DEF Axes

(* So it is crossed on the side of a line on which its ends are.           *)
LEMMA CrossedWithin ==
    ASSUME NEW l \in Points, NEW c \in Points, NEW e \in EdgeRecords, Met(l, e, c),
           NEW k \in Axes, NEW P \in Int
    PROVE  LET X == c[k] - l[k]
               p == P - l[k]
           IN  /\ UpTo(e, k, P) => Size(l, e) * X <= Depth(l, e, c) * p
               /\ Past(e, k, P) => Size(l, e) * X >= Depth(l, e, c) * p
               /\ Past(e, k, P + 1) => Size(l, e) * X > Depth(l, e, c) * p
  <1> DEFINE A == Turn(l, e.from, c)
             B == Turn(l, c, e.to)
             f == e.from[k] - l[k]
             t == e.to[k] - l[k]
             X == c[k] - l[k]
             p == P - l[k]
             F == Size(l, e)
             D == Depth(l, e, c)
  <1>1. e.from \in Points /\ e.to \in Points
    BY DEF EdgeRecords
  <1>2. e.from[k] \in Int /\ e.to[k] \in Int /\ l[k] \in Int /\ c[k] \in Int
    BY <1>1, AxisIs
  <1>3. A \in Int /\ B \in Int /\ A >= 0 /\ B >= 0 /\ D = A + B /\ D > 0
    BY DepthIs DEF Met, Depth
  <1>4. F * X = B * f + A * t
    BY CrossedOn
  <1>5. f \in Int /\ t \in Int /\ p \in Int
    BY <1>2
  <1>6. /\ UpTo(e, k, P) => f <= p /\ t <= p
        /\ Past(e, k, P) => f >= p /\ t >= p
        /\ Past(e, k, P + 1) => f > p /\ t > p
    BY <1>2 DEF UpTo, Past
  <1> HIDE DEF A, B, f, t, X, p, F, D
  <1>7. /\ f <= p /\ t <= p => B * f + A * t <= (A + B) * p
        /\ f >= p /\ t >= p => B * f + A * t >= (A + B) * p
        /\ f > p /\ t > p /\ A + B > 0 => B * f + A * t > (A + B) * p
    BY <1>3, <1>5, Weighted
  <1>8. /\ UpTo(e, k, P) => F * X <= D * p
        /\ Past(e, k, P) => F * X >= D * p
        /\ Past(e, k, P + 1) => F * X > D * p
    BY <1>3, <1>4, <1>6, <1>7
  <1> QED BY <1>8 DEF X, p, F, D

(* and when both of them may touch it.                                     *)
LEMMA OneSide ==
    ASSUME NEW D1 \in Int, NEW D2 \in Int, NEW F1 \in Int, NEW F2 \in Int, NEW X \in Int,
           NEW p \in Int,
           D1 > 0, D2 > 0, F1 > 0, F2 > 0,
           \/ p > 0 /\ F1 * X <= D1 * p /\ F2 * X >= D2 * p
           \/ p < 0 /\ F1 * X >= D1 * p /\ F2 * X <= D2 * p
    PROVE  F1 * D2 <= F2 * D1
  <1> DEFINE u == F1 * D2
             v == F2 * D1
  <1>1. u \in Int /\ v \in Int
    OBVIOUS
  <1>2. /\ D2 * (F1 * X) = X * u /\ D1 * (F2 * X) = X * v /\ D2 * (D1 * p) = D1 * (D2 * p)
        /\ X * u \in Int /\ X * v \in Int /\ D1 * (D2 * p) \in Int
    OBVIOUS
  <1>3. /\ F1 * X <= D1 * p <=> D2 * (F1 * X) <= D2 * (D1 * p)
        /\ D1 * p <= F1 * X <=> D2 * (D1 * p) <= D2 * (F1 * X)
    BY Scales
  <1>4. /\ F2 * X <= D2 * p <=> D1 * (F2 * X) <= D1 * (D2 * p)
        /\ D2 * p <= F2 * X <=> D1 * (D2 * p) <= D1 * (F2 * X)
    BY Scales
  <1>5. /\ X <= 0 => F2 * X <= 0
        /\ X >= 0 => F2 * X >= 0
        /\ p > 0 => D2 * p > 0
        /\ p < 0 => D2 * p < 0
        /\ F2 * X \in Int /\ D2 * p \in Int
    BY Signs
  <1>6. CASE p > 0 /\ F1 * X <= D1 * p /\ F2 * X >= D2 * p
    <2>1. X > 0
      <3>1. ~(X <= 0)
        BY <1>5, <1>6
      <3> QED BY <3>1
    <2>2. X * u <= X * v
      BY <1>2, <1>3, <1>4, <1>6
    <2> HIDE DEF u, v
    <2>3. X * u <= X * v <=> u <= v
      BY <1>1, <2>1, Scales
    <2> QED BY <2>2, <2>3 DEF u, v
  <1>7. CASE p < 0 /\ F1 * X >= D1 * p /\ F2 * X <= D2 * p
    <2>1. X < 0
      <3>1. ~(X >= 0)
        BY <1>5, <1>7
      <3> QED BY <3>1
    <2>2. X * v <= X * u
      BY <1>2, <1>3, <1>4, <1>7
    <2> HIDE DEF u, v
    <2>3. (-X) > 0 /\ -X \in Int
      BY <2>1
    <2>4. (-X) * u <= (-X) * v <=> u <= v
      BY <1>1, <2>3, Scales
    <2>5. (-X) * u = -(X * u) /\ (-X) * v = -(X * v)
      BY <1>1
    <2> QED BY <1>2, <2>2, <2>4, <2>5 DEF u, v
  <1> QED BY <1>6, <1>7

(* The line tells that one of them is the nearer.                          *)
LEMMA ShieldsIs ==
    ASSUME NEW l \in Points, NEW c \in Points, NEW a \in EdgeRecords, NEW b \in EdgeRecords,
           Met(l, a, c), Met(l, b, c), Shields(l, a, b)
    PROVE  Nearer(l, a, b, c)
  <1>1. PICK k \in Axes, P \in Int :
            \/ l[k] < P /\ UpTo(a, k, P) /\ Past(b, k, P)
            \/ P < l[k] /\ Past(a, k, P) /\ UpTo(b, k, P)
    BY DEF Shields
  <1> DEFINE X == c[k] - l[k]
             p == P - l[k]
             F1 == Size(l, a)
             F2 == Size(l, b)
             D1 == Depth(l, a, c)
             D2 == Depth(l, b, c)
  <1>2. l[k] \in Int /\ c[k] \in Int
    BY AxisIs
  <1>3. X \in Int /\ p \in Int /\ (l[k] < P => p > 0) /\ (P < l[k] => p < 0)
    BY <1>2
  <1>4. F1 \in Int /\ F2 \in Int /\ D1 \in Int /\ D2 \in Int /\ F1 > 0 /\ F2 > 0 /\ D1 > 0
        /\ D2 > 0
    BY DepthIs
  <1>5. /\ UpTo(a, k, P) => F1 * X <= D1 * p
        /\ Past(a, k, P) => F1 * X >= D1 * p
    BY CrossedWithin
  <1>6. /\ UpTo(b, k, P) => F2 * X <= D2 * p
        /\ Past(b, k, P) => F2 * X >= D2 * p
    BY CrossedWithin
  <1> HIDE DEF X, p, F1, F2, D1, D2
  <1>7. \/ p > 0 /\ F1 * X <= D1 * p /\ F2 * X >= D2 * p
        \/ p < 0 /\ F1 * X >= D1 * p /\ F2 * X <= D2 * p
    BY <1>1, <1>3, <1>5, <1>6
  <1>8. F1 * D2 <= F2 * D1
    BY <1>3, <1>4, <1>7, OneSide
  <1> QED BY <1>8 DEF Nearer, F1, F2, D1, D2

(* The line tells which one is the nearer, whatever the ray.               *)
LEMMA AsideIs ==
    ASSUME NEW l \in Points, NEW c \in Points, NEW a \in EdgeRecords, NEW b \in EdgeRecords,
           Met(l, a, c), Met(l, b, c), NEW k \in Axes, NEW P \in Int,
           UpTo(a, k, P), Past(b, k, P + 1)
    PROVE  /\ Nearer(l, a, b, c) <=> l[k] < P
           /\ Nearer(l, b, a, c) <=> ~(l[k] < P)
  <1> DEFINE X == c[k] - l[k]
             p == P - l[k]
             F1 == Size(l, a)
             F2 == Size(l, b)
             D1 == Depth(l, a, c)
             D2 == Depth(l, b, c)
  <1>2. l[k] \in Int /\ c[k] \in Int
    BY AxisIs
  <1>3. X \in Int /\ p \in Int /\ (l[k] < P <=> p > 0)
    BY <1>2
  <1>4. F1 \in Int /\ F2 \in Int /\ D1 \in Int /\ D2 \in Int /\ F1 > 0 /\ F2 > 0 /\ D1 > 0
        /\ D2 > 0
    BY DepthIs
  <1>5. F1 * X <= D1 * p
    BY CrossedWithin
  <1>6. F2 * X > D2 * p
    BY CrossedWithin
  <1> HIDE DEF X, p, F1, F2, D1, D2
  <1>7. /\ p # 0
        /\ p > 0 => F1 * D2 < F2 * D1
        /\ p < 0 => F1 * D2 > F2 * D1
    BY <1>3, <1>4, <1>5, <1>6, TwoSides, ZenonT(60)
  <1>8. F1 * D2 \in Int /\ F2 * D1 \in Int
    BY <1>4
  <1>9. /\ F1 * D2 <= F2 * D1 <=> p > 0
        /\ F2 * D1 <= F1 * D2 <=> ~(p > 0)
    BY <1>3, <1>7, <1>8
  <1> QED BY <1>3, <1>9 DEF Nearer, F1, F2, D1, D2

(* In each of the three cases the order is the same on all rays.           *)
LEMMA FixedOrder ==
    ASSUME NEW l \in Points, NEW a \in EdgeRecords, NEW b \in EdgeRecords, Fixed(l, a, b),
           NEW c \in Points, Met(l, a, c), Met(l, b, c),
           NEW d \in Points, Met(l, a, d), Met(l, b, d),
           Nearer(l, a, b, c)
    PROVE  Nearer(l, a, b, d)
  <1>1. CASE Shields(l, a, b)
    BY <1>1, ShieldsIs
  <1>2. CASE Aside(a, b)
    <2>1. PICK k \in Axes, P \in Int : UpTo(a, k, P) /\ Past(b, k, P + 1)
      BY <1>2 DEF Aside
    <2>2. Nearer(l, a, b, c) <=> l[k] < P
      BY <2>1, AsideIs
    <2>3. Nearer(l, a, b, d) <=> l[k] < P
      BY <2>1, AsideIs
    <2> QED BY <2>2, <2>3
  <1>3. CASE Aside(b, a)
    <2>1. PICK k \in Axes, P \in Int : UpTo(b, k, P) /\ Past(a, k, P + 1)
      BY <1>3 DEF Aside
    <2>2. Nearer(l, a, b, c) <=> ~(l[k] < P)
      BY <2>1, AsideIs
    <2>3. Nearer(l, a, b, d) <=> ~(l[k] < P)
      BY <2>1, AsideIs
    <2> QED BY <2>2, <2>3
  <1> QED BY <1>1, <1>2, <1>3 DEF Fixed

-----------------------------------------------------------------------------
(* The edges of a scene.                                                   *)

(* Edge e lies between the ends of edge f.                                 *)
PartOfEdge(e, f) ==
    \A k \in Axes, P \in Int :
        (UpTo(f, k, P) => UpTo(e, k, P)) /\ (Past(f, k, P) => Past(e, k, P))

(* What holds of two edges holds of their parts.                           *)
LEMMA FixedParts ==
    ASSUME NEW l, NEW a, NEW b, NEW e, NEW f, Fixed(l, a, b), PartOfEdge(e, a),
           PartOfEdge(f, b)
    PROVE  Fixed(l, e, f)
  <1>1. ASSUME NEW a1, NEW b1, NEW e1, NEW f1, Shields(l, a1, b1), PartOfEdge(e1, a1),
               PartOfEdge(f1, b1)
        PROVE  Shields(l, e1, f1)
    BY <1>1 DEF Shields, PartOfEdge
  <1>2. ASSUME NEW a1, NEW b1, NEW e1, NEW f1, Aside(a1, b1), PartOfEdge(e1, a1),
               PartOfEdge(f1, b1)
        PROVE  Aside(e1, f1)
    <2>1. PICK k \in Axes, P \in Int : UpTo(a1, k, P) /\ Past(b1, k, P + 1)
      BY <1>2 DEF Aside
    <2>2. P + 1 \in Int
      OBVIOUS
    <2>3. UpTo(e1, k, P) /\ Past(f1, k, P + 1)
      BY <1>2, <2>1, <2>2 DEF PartOfEdge
    <2> QED BY <2>3 DEF Aside
  <1>3. CASE Shields(l, a, b) /\ Shields(l, b, a)
    BY <1>1, <1>3 DEF Fixed
  <1>4. CASE Aside(a, b)
    BY <1>2, <1>4 DEF Fixed
  <1>5. CASE Aside(b, a)
    BY <1>2, <1>5 DEF Fixed
  <1> QED BY <1>3, <1>4, <1>5 DEF Fixed

(* A point of an edge cuts it into two parts.                              *)
LEMMA CutParts ==
    ASSUME NEW e \in EdgeRecords, NEW s \in Points, OnEdge(e, s)
    PROVE  PartOfEdge(EdgeBetween(s, e.to), e) /\ PartOfEdge(EdgeBetween(e.from, s), e)
  <1>1. e.from \in Points /\ e.to \in Points
    BY DEF EdgeRecords
  <1>2. ASSUME NEW k \in Axes
        PROVE  /\ (e.from[k] <= s[k] /\ s[k] <= e.to[k]) \/ (e.to[k] <= s[k]
                  /\ s[k] <= e.from[k])
               /\ e.from[k] \in Int /\ e.to[k] \in Int /\ s[k] \in Int
    <2>1. e.from[k] \in Int /\ e.to[k] \in Int /\ s[k] \in Int
      BY <1>1, AxisIs
    <2>2. CASE k = "x"
      BY <2>1, <2>2 DEF OnEdge
    <2>3. CASE k = "y"
      BY <2>1, <2>3 DEF OnEdge
    <2> QED BY <2>1, <2>2, <2>3 DEF Axes
  <1> DEFINE a == EdgeBetween(s, e.to)
             b == EdgeBetween(e.from, s)
  <1>3. a.from = s /\ a.to = e.to /\ b.from = e.from /\ b.to = s
    BY DEF EdgeBetween
  <1> HIDE DEF a, b
  <1>4. ASSUME NEW k \in Axes, NEW P \in Int
        PROVE  /\ UpTo(e, k, P) => UpTo(a, k, P) /\ UpTo(b, k, P)
               /\ Past(e, k, P) => Past(a, k, P) /\ Past(b, k, P)
    BY <1>2, <1>3 DEF UpTo, Past
  <1>5. PartOfEdge(a, e) /\ PartOfEdge(b, e)
    BY <1>4 DEF PartOfEdge
  <1> QED BY <1>5 DEF a, b

(* What is swept: every edge is visible, or part of one that is.           *)
LEMMA SplitParts ==
    ASSUME NEW l \in Points, NEW v \in Seq(Facing(l)), NEW n \in Nat \ {0}, n = Len(v),
           NEW i \in 1 .. n + 2
    PROVE  \E j \in 1 .. n : PartOfEdge(SplitEdges(v, l)[i], v[j])
  <1> DEFINE m == findNearestEdge(v, l)
             e == v[m]
             s == nearestPoint(e, l)
             a == EdgeBetween(s, e.to)
             b == EdgeBetween(e.from, s)
             ab == <<a, b>>
             es == SplitEdges(v, l)
             R == EdgeRecords
  <1>1. m \in 1 .. n
    BY NearestEdgeIs
  <1>2. e \in Facing(l) /\ CutAt(l, e, s)
    BY <1>1, NearestCuts
  <1>3. a \in R /\ b \in R
    BY <1>2 DEF CutAt, EdgeBetween, EdgeRecords, Facing, StraightEdges
  <1>4. PartOfEdge(a, e) /\ PartOfEdge(b, e)
    BY <1>2, CutParts DEF CutAt, Facing, StraightEdges
  <1>5. es = v \o ab
    BY DEF SplitEdges
  <1>6. v \in Seq(R)
    <2>1. Facing(l) \subseteq R
      BY DEF Facing, StraightEdges
    <2> HIDE DEF m
    <2> QED BY <2>1
  <1>7. ab \in Seq(R) /\ Len(ab) = 2 /\ ab[1] = a /\ ab[2] = b
    <2> HIDE DEF a, b, R
    <2> QED BY <1>3
  <1> HIDE DEF ab, es, R, a, b
  <1>8. /\ \A k \in 1 .. Len(v) : (v \o ab)[k] = v[k]
        /\ \A k \in 1 .. Len(ab) : (v \o ab)[Len(v) + k] = ab[k]
    BY <1>6, <1>7, Concatenated
  <1>12. (v \o ab)[n + 1] = a /\ (v \o ab)[n + 2] = b
    <2>1. 1 \in 1 .. Len(ab) /\ 2 \in 1 .. Len(ab)
      BY <1>7
    <2>2. (v \o ab)[Len(v) + 1] = ab[1] /\ (v \o ab)[Len(v) + 2] = ab[2]
      BY <1>8, <2>1
    <2> QED BY <1>7, <2>2
  <1>9. CASE i \in 1 .. n
    <2>1. es[i] = v[i]
      BY <1>5, <1>8, <1>9
    <2>2. PartOfEdge(v[i], v[i])
      BY DEF PartOfEdge
    <2> QED BY <1>9, <2>1, <2>2 DEF es
  <1>10. CASE i = n + 1
    <2>1. es[i] = a
      BY <1>5, <1>10, <1>12
    <2> QED BY <1>1, <1>4, <2>1 DEF es
  <1>11. CASE i = n + 2
    <2>1. es[i] = b
      BY <1>5, <1>11, <1>12
    <2> QED BY <1>1, <1>4, <2>1 DEF es
  <1> QED BY <1>9, <1>10, <1>11

(* The rectangles lie inside the scene, and no two of them meet.           *)
RectanglesApart ==
    \A scene \in Scenes : \A i \in 1 .. Len(scene) :
        LET a == scene[i]
        IN  /\ a[1] > 0 /\ a[2] > 0 /\ a[3] >= 0 /\ a[4] >= 0
            /\ a[1] + a[3] < Width /\ a[2] + a[4] < Height
            /\ \A j \in 1 .. Len(scene) :
                LET b == scene[j]
                IN  \/ i = j
                    \/ a[1] + a[3] < b[1] \/ b[1] + b[3] < a[1]
                    \/ a[2] + a[4] < b[2] \/ b[2] + b[4] < a[2]

(* Edge e lies in the rectangle from (x, y) to (X, Y),                     *)
Within(e, x, y, X, Y) ==
    Past(e, "x", x) /\ UpTo(e, "x", X) /\ Past(e, "y", y) /\ UpTo(e, "y", Y)

(* and on a side of it that is turned towards the light,                   *)
InFront(l, e, x, y, X, Y) ==
    \/ l["x"] < x /\ UpTo(e, "x", x)
    \/ X < l["x"] /\ Past(e, "x", X)
    \/ l["y"] < y /\ UpTo(e, "y", y)
    \/ Y < l["y"] /\ Past(e, "y", Y)

(* or on any side of it.                                                   *)
OnBorder(e, x, y, X, Y) ==
    UpTo(e, "x", x) \/ Past(e, "x", X) \/ UpTo(e, "y", y) \/ Past(e, "y", Y)

(* A side that is turned towards the light hides the rest of its           *)
(* rectangle,                                                              *)
LEMMA FrontShields ==
    ASSUME NEW l, NEW x \in Int, NEW y \in Int, NEW X \in Int, NEW Y \in Int, NEW e, NEW f,
           InFront(l, e, x, y, X, Y), Within(f, x, y, X, Y)
    PROVE  Shields(l, e, f)
  <1>1. "x" \in Axes /\ "y" \in Axes
    BY DEF Axes
  <1> QED BY <1>1 DEF InFront, Within, Shields

(* and everything inside hides the border, for a light inside it.          *)
LEMMA BorderIsShielded ==
    ASSUME NEW l, NEW x \in Int, NEW y \in Int, NEW X \in Int, NEW Y \in Int, NEW e, NEW f,
           x < l["x"], l["x"] < X, y < l["y"], l["y"] < Y,
           OnBorder(e, x, y, X, Y), Within(f, x, y, X, Y)
    PROVE  Shields(l, f, e)
  <1>1. "x" \in Axes /\ "y" \in Axes
    BY DEF Axes
  <1> QED BY <1>1 DEF OnBorder, Within, Shields

(* Edges of rectangles that do not meet are apart, and so are a border and what *)
(* lies within it.                                                         *)
LEMMA ApartIs ==
    ASSUME NEW a \in EdgeRecords, NEW b \in EdgeRecords, NEW k \in Axes, NEW P \in Int,
           NEW Q \in Int,
           P < Q, UpTo(a, k, P), Past(b, k, Q)
    PROVE  Aside(a, b)
  <1>1. b.from \in Points /\ b.to \in Points
    BY DEF EdgeRecords
  <1>2. b.from[k] \in Int /\ b.to[k] \in Int
    BY <1>1, AxisIs
  <1>3. Past(b, k, P + 1)
    BY <1>2 DEF Past
  <1> QED BY <1>3 DEF Aside

(* The four sides of a rectangle,                                          *)
LEMMA RectangleSides ==
    ASSUME NEW l \in Points, NEW x \in Int, NEW y \in Int, NEW w \in Nat, NEW h \in Nat,
           NEW e, NEW i \in 1 .. 4, e = Rectangle(x, y, w, h)[i]
    PROVE  /\ e \in EdgeRecords /\ Within(e, x, y, x + w, y + h)
           /\ Turn(l, e.from, e.to) > 0 => InFront(l, e, x, y, x + w, y + h)
  <1> DEFINE X == x + w
             Y == y + h
             lx == l.x
             ly == l.y
  <1>1. X \in Int /\ Y \in Int /\ x <= X /\ y <= Y
    OBVIOUS
  <1>2. lx \in Int /\ ly \in Int /\ l["x"] = lx /\ l["y"] = ly
    BY DEF Points
  <1>3. /\ Rectangle(x, y, w, h)[1] = EdgeBetween(Point(x, y), Point(x, Y))
        /\ Rectangle(x, y, w, h)[2] = EdgeBetween(Point(x, Y), Point(X, Y))
        /\ Rectangle(x, y, w, h)[3] = EdgeBetween(Point(X, Y), Point(X, y))
        /\ Rectangle(x, y, w, h)[4] = EdgeBetween(Point(X, y), Point(x, y))
    BY DEF Rectangle
  <1>4. ASSUME NEW a \in Int, NEW b \in Int, NEW c \in Int, NEW d \in Int,
               e = EdgeBetween(Point(a, b), Point(c, d))
        PROVE  /\ e \in EdgeRecords
               /\ e.from["x"] = a /\ e.from["y"] = b /\ e.to["x"] = c /\ e.to["y"] = d
               /\ Turn(l, e.from, e.to) = (a - lx) * (d - ly) - (b - ly) * (c - lx)
    <2> DEFINE p == Point(a, b)
               q == Point(c, d)
    <2>1. p \in Points /\ q \in Points /\ p.x = a /\ p.y = b /\ q.x = c /\ q.y = d
      BY PointsAre
    <2>2. p["x"] = a /\ p["y"] = b /\ q["x"] = c /\ q["y"] = d
      BY <2>1
    <2>3. e.from = p /\ e.to = q /\ EdgeBetween(p, q) \in EdgeRecords
      <3> HIDE DEF p, q
      <3> QED BY <1>4, <2>1 DEF EdgeBetween, EdgeRecords, p, q
    <2> HIDE DEF p, q
    <2>4. Turn(l, p, q) = (a - lx) * (d - ly) - (b - ly) * (c - lx)
      BY <2>1 DEF Turn
    <2> QED BY <1>4, <2>2, <2>3, <2>4 DEF p, q
  <1> DEFINE goal == /\ e \in EdgeRecords /\ Within(e, x, y, X, Y)
                     /\ Turn(l, e.from, e.to) > 0 => InFront(l, e, x, y, X, Y)
  <1> HIDE DEF lx, ly
  <1>5. ASSUME i = 1
        PROVE  goal
    <2>1. /\ e \in EdgeRecords
          /\ e.from["x"] = x /\ e.from["y"] = y /\ e.to["x"] = x /\ e.to["y"] = Y
          /\ Turn(l, e.from, e.to) = (x - lx) * (Y - ly) - (y - ly) * (x - lx)
      BY <1>1, <1>3, <1>4, <1>5
    <2>2. (x - lx) * (Y - ly) - (y - ly) * (x - lx) = (x - lx) * h
      BY <1>2
    <2>3. (x - lx) * h > 0 => x - lx > 0
      <3>1. x - lx <= 0 => (x - lx) * h <= 0
        BY <1>2, Signs
      <3>2. (x - lx) * h \in Int
        BY <1>2
      <3> QED BY <1>2, <3>1, <3>2
    <2>4. Turn(l, e.from, e.to) > 0 => lx < x
      BY <1>2, <2>1, <2>2, <2>3
    <2> HIDE DEF X, Y
    <2> QED BY <1>1, <1>2, <2>1, <2>4 DEF Within, InFront, UpTo, Past
  <1>6. ASSUME i = 2
        PROVE  goal
    <2>1. /\ e \in EdgeRecords
          /\ e.from["x"] = x /\ e.from["y"] = Y /\ e.to["x"] = X /\ e.to["y"] = Y
          /\ Turn(l, e.from, e.to) = (x - lx) * (Y - ly) - (Y - ly) * (X - lx)
      BY <1>1, <1>3, <1>4, <1>6
    <2>2. (x - lx) * (Y - ly) - (Y - ly) * (X - lx) = (ly - Y) * w
      BY <1>2
    <2>3. (ly - Y) * w > 0 => ly - Y > 0
      <3>1. ly - Y <= 0 => (ly - Y) * w <= 0
        BY <1>1, <1>2, Signs
      <3>2. (ly - Y) * w \in Int
        BY <1>1, <1>2
      <3> QED BY <1>1, <1>2, <3>1, <3>2
    <2>4. Turn(l, e.from, e.to) > 0 => Y < ly
      BY <1>1, <1>2, <2>1, <2>2, <2>3
    <2> HIDE DEF X, Y
    <2> QED BY <1>1, <1>2, <2>1, <2>4 DEF Within, InFront, UpTo, Past
  <1>7. ASSUME i = 3
        PROVE  goal
    <2>1. /\ e \in EdgeRecords
          /\ e.from["x"] = X /\ e.from["y"] = Y /\ e.to["x"] = X /\ e.to["y"] = y
          /\ Turn(l, e.from, e.to) = (X - lx) * (y - ly) - (Y - ly) * (X - lx)
      BY <1>1, <1>3, <1>4, <1>7
    <2>2. (X - lx) * (y - ly) - (Y - ly) * (X - lx) = (lx - X) * h
      BY <1>2
    <2>3. (lx - X) * h > 0 => lx - X > 0
      <3>1. lx - X <= 0 => (lx - X) * h <= 0
        BY <1>1, <1>2, Signs
      <3>2. (lx - X) * h \in Int
        BY <1>1, <1>2
      <3> QED BY <1>1, <1>2, <3>1, <3>2
    <2>4. Turn(l, e.from, e.to) > 0 => X < lx
      BY <1>1, <1>2, <2>1, <2>2, <2>3
    <2> HIDE DEF X, Y
    <2> QED BY <1>1, <1>2, <2>1, <2>4 DEF Within, InFront, UpTo, Past
  <1>8. ASSUME i = 4
        PROVE  goal
    <2>1. /\ e \in EdgeRecords
          /\ e.from["x"] = X /\ e.from["y"] = y /\ e.to["x"] = x /\ e.to["y"] = y
          /\ Turn(l, e.from, e.to) = (X - lx) * (y - ly) - (y - ly) * (x - lx)
      BY <1>1, <1>3, <1>4, <1>8
    <2>2. (X - lx) * (y - ly) - (y - ly) * (x - lx) = (y - ly) * w
      BY <1>2
    <2>3. (y - ly) * w > 0 => y - ly > 0
      <3>1. y - ly <= 0 => (y - ly) * w <= 0
        BY <1>2, Signs
      <3>2. (y - ly) * w \in Int
        BY <1>2
      <3> QED BY <1>2, <3>1, <3>2
    <2>4. Turn(l, e.from, e.to) > 0 => ly < y
      BY <1>2, <2>1, <2>2, <2>3
    <2> HIDE DEF X, Y
    <2> QED BY <1>1, <1>2, <2>1, <2>4 DEF Within, InFront, UpTo, Past
  <1>9. i = 1 \/ i = 2 \/ i = 3 \/ i = 4
    OBVIOUS
  <1> QED BY <1>5, <1>6, <1>7, <1>8, <1>9

(* and of the border.                                                      *)
LEMMA BorderSides ==
    ASSUME Width \in Nat, Height \in Nat, NEW i \in 1 .. 4, NEW e, e = LightBoundingBox[i]
    PROVE  /\ e \in EdgeRecords /\ Within(e, 0, 0, Width, Height)
           /\ OnBorder(e, 0, 0, Width, Height)
  <1>1. /\ LightBoundingBox[1] = EdgeBetween(Point(0, Height), Point(0, 0))
        /\ LightBoundingBox[2] = EdgeBetween(Point(Width, Height), Point(0, Height))
        /\ LightBoundingBox[3] = EdgeBetween(Point(Width, 0), Point(Width, Height))
        /\ LightBoundingBox[4] = EdgeBetween(Point(0, 0), Point(Width, 0))
    BY DEF LightBoundingBox
  <1>2. ASSUME NEW a \in Int, NEW b \in Int, NEW c \in Int, NEW d \in Int,
               e = EdgeBetween(Point(a, b), Point(c, d))
        PROVE  /\ e \in EdgeRecords
               /\ e.from["x"] = a /\ e.from["y"] = b /\ e.to["x"] = c /\ e.to["y"] = d
    <2> DEFINE p == Point(a, b)
               q == Point(c, d)
    <2>1. p \in Points /\ q \in Points /\ p.x = a /\ p.y = b /\ q.x = c /\ q.y = d
      BY PointsAre
    <2>2. p["x"] = a /\ p["y"] = b /\ q["x"] = c /\ q["y"] = d
      BY <2>1
    <2> HIDE DEF p, q
    <2>3. e.from = p /\ e.to = q /\ e \in EdgeRecords
      BY <1>2, <2>1 DEF EdgeBetween, EdgeRecords, p, q
    <2> QED BY <2>2, <2>3 DEF p, q
  <1>3. Width \in Int /\ Height \in Int /\ Width >= 0 /\ Height >= 0
    OBVIOUS
  <1> DEFINE goal == /\ e \in EdgeRecords /\ Within(e, 0, 0, Width, Height)
                     /\ OnBorder(e, 0, 0, Width, Height)
  <1>4. ASSUME i = 1
        PROVE  goal
    <2>1. /\ e \in EdgeRecords
          /\ e.from["x"] = 0 /\ e.from["y"] = Height /\ e.to["x"] = 0 /\ e.to["y"] = 0
      BY <1>1, <1>2, <1>3, <1>4
    <2> QED BY <1>3, <2>1 DEF Within, OnBorder, UpTo, Past
  <1>5. ASSUME i = 2
        PROVE  goal
    <2>1. /\ e \in EdgeRecords
          /\ e.from["x"] = Width /\ e.from["y"] = Height /\ e.to["x"] = 0
             /\ e.to["y"] = Height
      BY <1>1, <1>2, <1>3, <1>5
    <2> QED BY <1>3, <2>1 DEF Within, OnBorder, UpTo, Past
  <1>6. ASSUME i = 3
        PROVE  goal
    <2>1. /\ e \in EdgeRecords
          /\ e.from["x"] = Width /\ e.from["y"] = 0 /\ e.to["x"] = Width /\ e.to["y"] = Height
      BY <1>1, <1>2, <1>3, <1>6
    <2> QED BY <1>3, <2>1 DEF Within, OnBorder, UpTo, Past
  <1>7. ASSUME i = 4
        PROVE  goal
    <2>1. /\ e \in EdgeRecords
          /\ e.from["x"] = 0 /\ e.from["y"] = 0 /\ e.to["x"] = Width /\ e.to["y"] = 0
      BY <1>1, <1>2, <1>3, <1>7
    <2> QED BY <1>3, <2>1 DEF Within, OnBorder, UpTo, Past
  <1>8. i = 1 \/ i = 2 \/ i = 3 \/ i = 4
    OBVIOUS
  <1> QED BY <1>4, <1>5, <1>6, <1>7, <1>8

Border(e) == \E i \in 1 .. 4 : e = LightBoundingBox[i]

(* Edge e is of the rectangle s, turned towards the light.                 *)
OfRectangle(l, e, s) ==
    /\ Within(e, s[1], s[2], s[1] + s[3], s[2] + s[4])
    /\ InFront(l, e, s[1], s[2], s[1] + s[3], s[2] + s[4])

(* The visible edges are of the border or of a rectangle.                  *)
LEMMA SceneEdgeIs ==
    ASSUME Scenery, RectanglesApart, NEW scene \in Scenes, NEW l \in Points,
           NEW e \in ToSet(visibleEdges(scene, l)), Turn(l, e.from, e.to) > 0
    PROVE  /\ e \in EdgeRecords
           /\ Border(e) \/ \E i \in 1 .. Len(scene) : OfRectangle(l, e, scene[i])
  <1> DEFINE edge(k) == LET box == scene[(k - 1) \div 4 + 1]
                        IN  Rectangle(box[1], box[2], box[3], box[4])[((k - 1) % 4) + 1]
             s == [k \in 1 .. 4 * Len(scene) |-> edge(k)]
             b == LightBoundingBox
             t == SceneEdges(scene)
             W == {q \in ToSet(t) : ~isVisible(q, l)}
  <1>1. scene \in Seq(Int \X Int \X Int \X Int) /\ Len(scene) \in Nat
        /\ Width \in Nat /\ Height \in Nat
    BY DEF Scenery
  <1>2. t \in Seq(StraightEdges)
    BY SceneEdgesAre
  <1>3. e \in ToSet(t)
    <2>1. visibleEdges(scene, l) = Without(t, W)
      BY DEF visibleEdges
    <2> HIDE DEF t, W
    <2>2. ToSet(Without(t, W)) = ToSet(t) \ W
      BY <1>2, WithoutLeaves
    <2> QED BY <2>1, <2>2
  <1>4. t = b \o s
    BY DEF SceneEdges
  <1> HIDE DEF edge
  <1>5. Len(b) = 4 /\ Len(s) = 4 * Len(scene) /\ DOMAIN (b \o s) = 1 .. Len(b) + Len(s)
        /\ \A k \in 1 .. Len(b) + Len(s) :
              (b \o s)[k] = IF k <= Len(b) THEN b[k] ELSE s[k - Len(b)]
    <2> DEFINE R == {b[1], b[2], b[3], b[4]} \union {edge(k) : k \in 1 .. 4 * Len(scene)}
    <2>1. Len(b) = 4 /\ b \in Seq(R)
      BY DEF LightBoundingBox
    <2> HIDE DEF b
    <2>2. s \in Seq(R) /\ Len(s) = 4 * Len(scene)
      <3> DEFINE m == 4 * Len(scene)
      <3>1. \A k \in 1 .. m : edge(k) \in R
        OBVIOUS
      <3>2. m \in Nat
        BY <1>1
      <3> HIDE DEF R, m
      <3>3. [k \in 1 .. m |-> edge(k)] \in Seq(R) /\ Len([k \in 1 .. m |-> edge(k)]) = m
        BY <3>1, <3>2
      <3> QED BY <3>3 DEF m
    <2> HIDE DEF s, R
    <2>3. /\ b \o s \in Seq(R) /\ Len(b \o s) = Len(b) + Len(s)
          /\ \A k \in 1 .. Len(b) : (b \o s)[k] = b[k]
          /\ \A k \in 1 .. Len(s) : (b \o s)[Len(b) + k] = s[k]
      <3>1. b \in Seq(R)
        BY <2>1
      <3>2. s \in Seq(R)
        BY <2>2
      <3> QED BY <3>1, <3>2, Concatenated
    <2>a. Len(b) \in Nat /\ Len(s) \in Nat
      BY <1>1, <2>1, <2>2
    <2>4. DOMAIN (b \o s) = 1 .. Len(b) + Len(s)
      BY <2>3
    <2>5. ASSUME NEW k \in 1 .. Len(b) + Len(s)
          PROVE  (b \o s)[k] = IF k <= Len(b) THEN b[k] ELSE s[k - Len(b)]
      <3>1. CASE k <= Len(b)
        BY <2>1, <2>3, <3>1
      <3>2. CASE k > Len(b)
        <4> DEFINE j == k - Len(b)
        <4>1. j \in 1 .. Len(s) /\ Len(b) + j = k
          BY <1>1, <2>1, <2>2, <3>2
        <4> HIDE DEF j
        <4>2. (b \o s)[k] = s[j]
          BY <2>3, <4>1
        <4>3. ~(k <= Len(b))
          BY <2>a, <3>2
        <4> QED BY <4>2, <4>3 DEF j
      <3>3. k <= Len(b) \/ k > Len(b)
        BY <2>a
      <3> QED BY <3>1, <3>2, <3>3
    <2> QED BY <2>1, <2>2, <2>4, <2>5
  <1> HIDE DEF s, b, t
  <1>6. PICK k \in 1 .. 4 + 4 * Len(scene) : e = IF k <= 4 THEN b[k] ELSE s[k - 4]
    <2>1. PICK k \in DOMAIN t : e = t[k]
      BY <1>3 DEF ToSet
    <2>2. k \in 1 .. 4 + 4 * Len(scene)
      BY <1>4, <1>5, <2>1
    <2> QED BY <1>4, <1>5, <2>1, <2>2
  <1>7. CASE k <= 4
    <2>1. k \in 1 .. 4 /\ e = b[k]
      BY <1>1, <1>6, <1>7
    <2> QED BY <1>1, <2>1, BorderSides DEF Border, b
  <1>8. CASE k > 4
    <2> DEFINE K == k - 4
               j == (K - 1) \div 4 + 1
               i == ((K - 1) % 4) + 1
               box == scene[j]
    <2>1. K \in 1 .. 4 * Len(scene) /\ e = s[K]
      BY <1>1, <1>6, <1>8
    <2> HIDE DEF K
    <2>2. e = edge(K)
      BY <2>1 DEF s
    <2>3. j \in 1 .. Len(scene) /\ i \in 1 .. 4
      BY <1>1, <2>1
    <2>4. e = Rectangle(box[1], box[2], box[3], box[4])[i]
      BY <2>2 DEF edge
    <2> HIDE DEF i, j
    <2>5. /\ box[1] \in Int /\ box[2] \in Int /\ box[3] \in Int /\ box[4] \in Int
          /\ box[3] >= 0 /\ box[4] >= 0
      <3>1. box \in Int \X Int \X Int \X Int
        BY <1>1, <2>3
      <3>2. box[3] >= 0 /\ box[4] >= 0
        BY <2>3 DEF RectanglesApart
      <3> QED BY <3>1, <3>2
    <2> HIDE DEF box
    <2>6. box[3] \in Nat /\ box[4] \in Nat
      BY <2>5
    <2>7. /\ e \in EdgeRecords /\ Within(e, box[1], box[2], box[1] + box[3], box[2] + box[4])
          /\ InFront(l, e, box[1], box[2], box[1] + box[3], box[2] + box[4])
      BY <2>3, <2>4, <2>5, <2>6, RectangleSides
    <2> QED BY <2>3, <2>7 DEF OfRectangle, box
  <1> QED BY <1>1, <1>6, <1>7, <1>8

(* What RectanglesApart says of a rectangle.                               *)
LEMMA RectangleIs ==
    ASSUME Scenery, RectanglesApart, NEW scene \in Scenes, NEW i \in 1 .. Len(scene)
    PROVE  /\ scene[i][1] \in Int /\ scene[i][2] \in Int /\ scene[i][3] \in Nat
              /\ scene[i][4] \in Nat
           /\ 0 < scene[i][1] /\ 0 < scene[i][2]
           /\ scene[i][1] + scene[i][3] < Width /\ scene[i][2] + scene[i][4] < Height
           /\ Width \in Nat /\ Height \in Nat
  <1>1. scene[i] \in Int \X Int \X Int \X Int
    BY DEF Scenery
  <1>2. scene[i][1] \in Int /\ scene[i][2] \in Int /\ scene[i][3] \in Int
        /\ scene[i][4] \in Int
    BY <1>1
  <1>3. /\ scene[i][1] > 0 /\ scene[i][2] > 0 /\ scene[i][3] >= 0 /\ scene[i][4] >= 0
        /\ scene[i][1] + scene[i][3] < Width /\ scene[i][2] + scene[i][4] < Height
    BY DEF RectanglesApart
  <1>4. Width \in Nat /\ Height \in Nat
    BY DEF Scenery
  <1> QED BY <1>2, <1>3, <1>4

(* What lies within a rectangle lies within a greater one.                 *)
LEMMA WithinTwo ==
    ASSUME NEW e \in EdgeRecords, NEW x \in Int, NEW y \in Int, NEW X \in Int, NEW Y \in Int,
           NEW v \in Int, NEW w \in Int, NEW V \in Int, NEW Z \in Int,
           v <= x, w <= y, X <= V, Y <= Z, Within(e, x, y, X, Y)
    PROVE  Within(e, v, w, V, Z)
  <1>1. e.from \in Points /\ e.to \in Points /\ "x" \in Axes /\ "y" \in Axes
    BY DEF EdgeRecords, Axes
  <1>2. /\ e.from["x"] \in Int /\ e.to["x"] \in Int
        /\ e.from["y"] \in Int /\ e.to["y"] \in Int
    BY <1>1, AxisIs
  <1> QED BY <1>2 DEF Within, UpTo, Past

(* No two visible edges change their order along the ray.                  *)
LEMMA SceneFixed ==
    ASSUME Scenery, RectanglesApart, NEW scene \in Scenes, NEW p \in Lights,
           NEW l, l = Point(p[1], p[2]),
           NEW e \in ToSet(visibleEdges(scene, l)), Turn(l, e.from, e.to) > 0,
           NEW f \in ToSet(visibleEdges(scene, l)), Turn(l, f.from, f.to) > 0
    PROVE  Fixed(l, e, f)
  <1>1. l \in Points /\ 0 < l["x"] /\ l["x"] < Width /\ 0 < l["y"] /\ l["y"] < Height
        /\ Width \in Nat /\ Height \in Nat /\ Width \in Int /\ Height \in Int /\ 0 \in Int
    <2>1. p[1] \in 1 .. Width - 1 /\ p[2] \in 1 .. Height - 1 /\ Width \in Nat
          /\ Height \in Nat
      BY DEF Scenery
    <2>2. l \in Points /\ l.x = p[1] /\ l.y = p[2]
      BY <2>1, PointsAre
    <2>3. l["x"] = p[1] /\ l["y"] = p[2]
      BY <2>2
    <2> QED BY <2>1, <2>2, <2>3
  <1>2. "x" \in Axes /\ "y" \in Axes
    BY DEF Axes
  <1>3. e \in EdgeRecords
        /\ (Border(e) \/ \E i \in 1 .. Len(scene) : OfRectangle(l, e, scene[i]))
    BY <1>1, SceneEdgeIs
  <1>4. f \in EdgeRecords
        /\ (Border(f) \/ \E i \in 1 .. Len(scene) : OfRectangle(l, f, scene[i]))
    BY <1>1, SceneEdgeIs
  <1>5. ASSUME NEW a, Border(a)
        PROVE  Within(a, 0, 0, Width, Height) /\ OnBorder(a, 0, 0, Width, Height)
    BY <1>1, <1>5, BorderSides DEF Border
  <1>6. ASSUME NEW a, NEW b, Border(a), Border(b)
        PROVE  Shields(l, a, b)
    BY <1>1, <1>5, <1>6, BorderIsShielded
  (* The border and a rectangle.                                                *)
  <1>7. ASSUME NEW a \in EdgeRecords, NEW b \in EdgeRecords, Border(a),
               NEW i \in 1 .. Len(scene), OfRectangle(l, b, scene[i])
        PROVE  Aside(a, b) \/ Aside(b, a)
    <2> DEFINE x == scene[i][1]
               y == scene[i][2]
               X == scene[i][1] + scene[i][3]
               Y == scene[i][2] + scene[i][4]
    <2>1. x \in Int /\ y \in Int /\ X \in Int /\ Y \in Int /\ 0 < x /\ 0 < y /\ X < Width
          /\ Y < Height
      BY RectangleIs
    <2>2. Within(b, x, y, X, Y)
      BY <1>7 DEF OfRectangle
    <2> HIDE DEF x, y, X, Y
    <2>3. OnBorder(a, 0, 0, Width, Height)
      BY <1>5, <1>7
    <2>4. CASE UpTo(a, "x", 0)
      BY <1>2, <2>1, <2>2, <2>4, ApartIs DEF Within
    <2>5. CASE Past(a, "x", Width)
      BY <1>1, <1>2, <2>1, <2>2, <2>5, ApartIs DEF Within
    <2>6. CASE UpTo(a, "y", 0)
      BY <1>2, <2>1, <2>2, <2>6, ApartIs DEF Within
    <2>7. CASE Past(a, "y", Height)
      BY <1>1, <1>2, <2>1, <2>2, <2>7, ApartIs DEF Within
    <2> QED BY <2>3, <2>4, <2>5, <2>6, <2>7 DEF OnBorder
  <1>8. ASSUME NEW a \in EdgeRecords, NEW b \in EdgeRecords,
               NEW i \in 1 .. Len(scene), OfRectangle(l, a, scene[i]), OfRectangle(l, b, scene[i])
        PROVE  Shields(l, a, b)
    <2> DEFINE x == scene[i][1]
               y == scene[i][2]
               X == scene[i][1] + scene[i][3]
               Y == scene[i][2] + scene[i][4]
    <2>1. x \in Int /\ y \in Int /\ X \in Int /\ Y \in Int
      BY RectangleIs
    <2>2. InFront(l, a, x, y, X, Y) /\ Within(b, x, y, X, Y)
      BY <1>8 DEF OfRectangle
    <2> HIDE DEF x, y, X, Y
    <2> QED BY <2>1, <2>2, FrontShields
  <1>9. ASSUME NEW i \in 1 .. Len(scene), NEW j \in 1 .. Len(scene), i # j,
               OfRectangle(l, e, scene[i]), OfRectangle(l, f, scene[j])
        PROVE  Aside(e, f) \/ Aside(f, e)
    <2> DEFINE x == scene[i][1]
               y == scene[i][2]
               X == scene[i][1] + scene[i][3]
               Y == scene[i][2] + scene[i][4]
               v == scene[j][1]
               w == scene[j][2]
               V == scene[j][1] + scene[j][3]
               Z == scene[j][2] + scene[j][4]
    <2>1. x \in Int /\ y \in Int /\ X \in Int /\ Y \in Int
      BY RectangleIs, SMTT(30)
    <2>2. v \in Int /\ w \in Int /\ V \in Int /\ Z \in Int
      BY RectangleIs, SMTT(30)
    <2>3. Within(e, x, y, X, Y) /\ Within(f, v, w, V, Z)
      BY <1>9 DEF OfRectangle
    <2>4. X < v \/ V < x \/ Y < w \/ Z < y
      BY <1>9 DEF RectanglesApart
    <2> HIDE DEF x, y, X, Y, v, w, V, Z
    <2>5. CASE X < v
      BY <1>2, <1>3, <1>4, <2>1, <2>2, <2>3, <2>5, ApartIs DEF Within
    <2>6. CASE V < x
      BY <1>2, <1>3, <1>4, <2>1, <2>2, <2>3, <2>6, ApartIs DEF Within
    <2>7. CASE Y < w
      BY <1>2, <1>3, <1>4, <2>1, <2>2, <2>3, <2>7, ApartIs DEF Within
    <2>8. CASE Z < y
      BY <1>2, <1>3, <1>4, <2>1, <2>2, <2>3, <2>8, ApartIs DEF Within
    <2> QED BY <2>4, <2>5, <2>6, <2>7, <2>8
  <1>10. CASE Border(e) /\ Border(f)
    BY <1>6, <1>10 DEF Fixed
  <1>11. CASE Border(e) /\ \E i \in 1 .. Len(scene) : OfRectangle(l, f, scene[i])
    BY <1>3, <1>4, <1>7, <1>11 DEF Fixed
  <1>12. CASE Border(f) /\ \E i \in 1 .. Len(scene) : OfRectangle(l, e, scene[i])
    BY <1>3, <1>4, <1>7, <1>12 DEF Fixed
  <1>13. CASE /\ \E i \in 1 .. Len(scene) : OfRectangle(l, e, scene[i])
              /\ \E i \in 1 .. Len(scene) : OfRectangle(l, f, scene[i])
    <2>1. PICK i \in 1 .. Len(scene) : OfRectangle(l, e, scene[i])
      BY <1>13
    <2>2. PICK j \in 1 .. Len(scene) : OfRectangle(l, f, scene[j])
      BY <1>13
    <2>3. CASE i = j
      BY <1>3, <1>4, <1>8, <2>1, <2>2, <2>3 DEF Fixed
    <2>4. CASE i # j
      BY <1>9, <2>1, <2>2, <2>4 DEF Fixed
    <2> QED BY <2>3, <2>4
  <1> QED BY <1>3, <1>4, <1>10, <1>11, <1>12, <1>13

-----------------------------------------------------------------------------
(* The stack.                                                              *)

(* Which of two edges is the nearer does not depend on the ray.            *)
Placed == \A i, j \in DOMAIN edges : Fixed(light, edges[i], edges[j])

(* The stack is sorted by the distance on the ray to c.                    *)
NearestFirst(c) ==
    \A i, j \in 1 .. Len(stack) :
        i < j => Nearer(light, edges[stack[i]], edges[stack[j]], c)

StackInv ==
    /\ SweepInv /\ Placed
    /\ pass # 3 /\ ~Aligned => NearestFirst(CurrentPoint)

(* Nearer is an order on what a ray meets.                                 *)
LEMMA NearerPasses ==
    ASSUME NEW l \in Points, NEW c \in Points, NEW e \in EdgeRecords, NEW f \in EdgeRecords,
           NEW g \in EdgeRecords, Met(l, e, c), Met(l, f, c), Met(l, g, c),
           Nearer(l, e, f, c), Nearer(l, f, g, c)
    PROVE  Nearer(l, e, g, c)
  <1> DEFINE F1 == Size(l, e)
             F2 == Size(l, f)
             F3 == Size(l, g)
             D1 == Depth(l, e, c)
             D2 == Depth(l, f, c)
             D3 == Depth(l, g, c)
  <1>1. /\ F1 \in Int /\ F2 \in Int /\ F3 \in Int /\ D1 \in Int /\ D2 \in Int /\ D3 \in Int
        /\ F1 > 0 /\ F2 > 0 /\ F3 > 0 /\ D1 > 0 /\ D2 > 0 /\ D3 > 0
    BY DepthIs
  <1>2. F1 * D2 <= F2 * D1 /\ F2 * D3 <= F3 * D2
    BY DEF Nearer
  <1> HIDE DEF F1, F2, F3, D1, D2, D3
  <1>3. F1 * D2 \in Int /\ F2 * D1 \in Int /\ F2 * D3 \in Int /\ F3 * D2 \in Int
        /\ F1 * D3 \in Int /\ F3 * D1 \in Int
    BY <1>1
  <1>4. D3 * (F1 * D2) <= D3 * (F2 * D1)
    BY <1>1, <1>2, <1>3, Scales
  <1>5. D1 * (F2 * D3) <= D1 * (F3 * D2)
    BY <1>1, <1>2, <1>3, Scales
  <1>6. /\ D3 * (F1 * D2) = D2 * (F1 * D3)
        /\ D3 * (F2 * D1) = D1 * (F2 * D3)
        /\ D1 * (F3 * D2) = D2 * (F3 * D1)
    BY <1>1
  <1>7. D2 * (F1 * D3) <= D2 * (F3 * D1)
    <2>1. D2 * (F1 * D3) \in Int /\ D1 * (F2 * D3) \in Int /\ D2 * (F3 * D1) \in Int
      BY <1>1, <1>3
    <2> QED BY <1>4, <1>5, <1>6, <2>1
  <1>8. F1 * D3 <= F3 * D1
    BY <1>1, <1>3, <1>7, Scales
  <1> QED BY <1>8 DEF Nearer, F1, F2, F3, D1, D2, D3

(* An edge that begins here, compared with one that the ray meets.         *)
LEMMA BeginsAt ==
    ASSUME NEW l \in Points, NEW e \in EdgeRecords, NEW f \in EdgeRecords, NEW c, c = e.from,
           Size(l, e) > 0, Along(l, c, c) > 0, Met(l, f, c)
    PROVE  /\ Met(l, e, c)
           /\ Nearer(l, e, f, c) <=> Depth(l, f, c) <= Size(l, f)
           /\ Nearer(l, f, e, c) <=> Size(l, f) <= Depth(l, f, c)
  <1>1. c \in Points /\ e.to \in Points
    BY DEF EdgeRecords
  <1>2. Turn(l, e.from, c) = 0 /\ Turn(l, c, e.to) = Size(l, e)
    BY <1>1, SameTurn DEF Size
  <1>3. Met(l, e, c)
    <2>1. Size(l, e) \in Int
      BY <1>1, TurnIs DEF Size
    <2>2. Size(l, e) >= 0
      BY <2>1
    <2> QED BY <1>2, <2>2 DEF Met
  <1> DEFINE F == Size(l, e)
             D == Depth(l, e, c)
             G == Size(l, f)
             H == Depth(l, f, c)
  <1>4. F \in Int /\ D \in Int /\ G \in Int /\ H \in Int /\ F > 0
    BY <1>1, <1>3, DepthIs
  <1>5. D = F
    <2>1. D = 0 + F
      BY <1>2 DEF Depth
    <2> HIDE DEF D, F
    <2> QED BY <1>4, <2>1
  <1> HIDE DEF F, D, G, H
  <1>6. F * H <= F * G <=> H <= G
    BY <1>4, Scales
  <1>7. F * G <= F * H <=> G <= H
    BY <1>4, Scales
  <1>8. G * F = F * G
    BY <1>4
  <1> QED BY <1>3, <1>5, <1>6, <1>7, <1>8 DEF Nearer, F, D, G, H

(* While the ends are clear, the ray to the current point meets every open edge, *)
(* the one that ends there among them.                                     *)
LEMMA OpenMet ==
    ASSUME NEW l, NEW es, NEW n, NEW m, NEW o, Prepared(l, es, n, m), IsOrder(es, l, n, m, o),
           Clear(l, es[n + 1].from, FacePoints(es, n)),
           NEW k \in 1 .. Len(o), NEW e, NEW ps, Open(o, e, ps, k)
    PROVE  /\ Met(l, es[e], PointOf(es, o[k])) /\ es[e] \in EdgeRecords
           /\ PointOf(es, o[k]) \in Points
  <1> DEFINE c == PointOf(es, o[k])
  <1>1. l \in Points /\ es \in Seq(EdgeRecords) /\ Len(es) = n + 2 /\ n \in Nat
        /\ o \in Seq(EndsOf(es)) /\ IsInjective(o)
    BY DEF Prepared, IsOrder
  <1>2. /\ Swept(es, n, m, o[k].edge) /\ c \in Points
        /\ o[k].edge \in 1 .. n + 2 /\ o[k] = End(o[k].edge, o[k].end)
        /\ o[k].end \in {"from", "to"} /\ es[o[k].edge] \in EdgeRecords
    BY SweptEnds
  <1>3. CASE e # o[k].edge
    <2>1. Met(l, es[e], c) /\ e \in 1 .. n + 2
      BY <1>3, OpenMeets
    <2> QED BY <1>1, <1>2, <2>1
  <1>4. CASE e = o[k].edge
    <2>1. o[k].end # "from"
      BY <1>1, <1>2, <1>4, NotYetOpen
    <2>2. c = es[e].to
      BY <1>2, <1>4, <2>1 DEF PointOf
    <2>3. es[e].from \in Points /\ es[e].to \in Points /\ es[e] \in EdgeRecords
      BY <1>2, <1>4 DEF EdgeRecords
    <2>4. Turn(l, es[e].from, c) > 0
      BY <1>2, <1>4, <2>2 DEF Prepared
    <2> HIDE DEF c
    <2>8. c \in Points
      BY <1>2 DEF c
    <2>9. Turn(l, es[e].from, c) \in Int
      BY <1>1, <2>3, <2>8, TurnIs
    <2>5. Turn(l, es[e].from, c) \in Int /\ Turn(l, es[e].from, c) # 0
      BY <2>4, <2>9
    <2>6. Along(l, c, c) > 0 /\ Turn(l, c, c) = 0
      BY <1>1, <2>3, <2>5, <2>8, SameTurn
    <2>7. Met(l, es[e], c)
      BY <2>2, <2>4, <2>5, <2>6 DEF Met, Size
    <2> QED BY <1>2, <2>3, <2>7 DEF c
  <1> QED BY <1>3, <1>4

(* So it meets every edge on the stack.                                    *)
LEMMA StackMet ==
    ASSUME SweepInv, pass # 3, ~Aligned
    PROVE  /\ Clear(light, edges[Visible + 1].from, FacePoints(edges, Visible))
           /\ CurrentPoint \in Points
           /\ \A i \in 1 .. Len(stack) : /\ edges[stack[i]] \in EdgeRecords
                                        /\ Met(light, edges[stack[i]], CurrentPoint)
  <1>1. /\ Ready /\ pos \in 1 .. Len(order)
        /\ \A i \in 1 .. Len(stack) : Open(order, stack[i], pass, pos)
    BY DEF SweepInv, OpenStack
  <1>2. Clear(light, edges[Visible + 1].from, FacePoints(edges, Visible))
    BY <1>1, ClearUnlessAligned
  <1>3. CurrentPoint = PointOf(edges, order[pos])
    BY DEF CurrentPoint, Current
  <1>4. Prepared(light, edges, Visible, Nearest)
        /\ IsOrder(edges, light, Visible, Nearest, order)
    BY <1>1 DEF Ready
  <1>5. CurrentPoint \in Points
    BY CurrentIs
  <1>6. ASSUME NEW i \in 1 .. Len(stack)
        PROVE  edges[stack[i]] \in EdgeRecords /\ Met(light, edges[stack[i]], CurrentPoint)
    <2>1. Open(order, stack[i], pass, pos)
      BY <1>1
    <2> QED BY <1>1, <1>2, <1>3, <1>4, <2>1, OpenMet
  <1> QED BY <1>2, <1>5, <1>6

(* The order of the stack is kept on the way from one ray to the next one. *)
LEMMA CarriedOn ==
    ASSUME Ready, Placed, UNCHANGED <<light, edges, order>>, OpenStack', pass' # 3, ~Aligned,
           NEW c \in Points,
           \A i \in 1 .. Len(stack') : Met(light, edges[stack'[i]], c),
           \A i, j \in 1 .. Len(stack') :
                i < j => Nearer(light, edges[stack'[i]], edges[stack'[j]], c)
    PROVE  NearestFirst(CurrentPoint)'
  <1> DEFINE d == PointOf(edges, order[pos'])
             E(i) == edges[stack'[i]]
  <1>1. /\ stack' \in Seq(DOMAIN edges) /\ pos' \in 1 .. Len(order)
        /\ \A i \in 1 .. Len(stack') : Open(order, stack'[i], pass', pos')
    BY DEF OpenStack
  <1>2. Clear(light, edges[Visible + 1].from, FacePoints(edges, Visible))
    BY ClearUnlessAligned
  <1>3. Prepared(light, edges, Visible, Nearest)
        /\ IsOrder(edges, light, Visible, Nearest, order)
    BY DEF Ready
  <1>4. d \in Points
    BY <1>1, <1>3, SweptEnds
  <1>5. light \in Points
    BY ReadyIs
  <1>6. ASSUME NEW i \in 1 .. Len(stack')
        PROVE  E(i) \in EdgeRecords /\ Met(light, E(i), d) /\ stack'[i] \in DOMAIN edges
    <2>1. Open(order, stack'[i], pass', pos')
      BY <1>1
    <2>2. stack'[i] \in DOMAIN edges
      BY <1>1
    <2> QED BY <1>1, <1>2, <1>3, <2>1, <2>2, OpenMet
  <1>7. ASSUME NEW i \in 1 .. Len(stack'), NEW j \in 1 .. Len(stack'), i < j
        PROVE  Nearer(light, E(i), E(j), d)
    <2>1. Fixed(light, E(i), E(j))
      BY <1>6 DEF Placed
    <2>2. Met(light, E(i), c) /\ Met(light, E(j), c) /\ Nearer(light, E(i), E(j), c)
      BY <1>7
    <2> HIDE DEF E, d
    <2> QED BY <1>4, <1>5, <1>6, <2>1, <2>2, FixedOrder
  <1>8. CurrentPoint' = d
    BY DEF CurrentPoint, Current, PointOf
  <1> HIDE DEF d
  <1> QED BY <1>7, <1>8 DEF NearestFirst

(* R[a] holds what may follow a in a sequence: this stays so when an element is *)
(* inserted where it belongs or removed.                                   *)
InOrder(q, R) == \A j, k \in 1 .. Len(q) : j < k => q[k] \in R[q[j]]

(* An element is inserted after those it may follow and before those that  *)
(* may follow it,                                                          *)
LEMMA InsertedInOrder ==
    ASSUME NEW S, NEW R, NEW q \in Seq(S), NEW i \in 1 .. Len(q) + 1, NEW c \in S,
           InOrder(q, R),
           \A j \in 1 .. Len(q) : IF j < i THEN c \in R[q[j]] ELSE q[j] \in R[c]
    PROVE  InOrder(InsertAt(q, i, c), R)
  <1> DEFINE r == InsertAt(q, i, c)
             n == Len(q)
  <1>1. /\ n \in Nat /\ Len(r) = n + 1 /\ r[i] = c
        /\ \A j \in 1 .. n : r[IF j < i THEN j ELSE j + 1] = q[j]
    BY Inserted
  <1> HIDE DEF r
  <1>2. ASSUME NEW j \in 1 .. n + 1
        PROVE  /\ j < i => j \in 1 .. n /\ r[j] = q[j]
               /\ j > i => j - 1 \in 1 .. n /\ r[j] = q[j - 1]
    <2>1. j < i => j \in 1 .. n /\ r[j] = q[j]
      BY <1>1
    <2>2. ASSUME j > i
          PROVE  j - 1 \in 1 .. n /\ r[j] = q[j - 1]
      <3> DEFINE m == j - 1
      <3>1. m \in 1 .. n /\ ~(m < i) /\ m + 1 = j
        BY <1>1, <2>2
      <3> HIDE DEF m
      <3>2. r[m + 1] = q[m]
        BY <1>1, <3>1
      <3> QED BY <3>1, <3>2 DEF m
    <2> QED BY <2>1, <2>2
  <1>3. ASSUME NEW j \in 1 .. n + 1, NEW k \in 1 .. n + 1, j < k
        PROVE  r[k] \in R[r[j]]
    <2>1. CASE k < i
      BY <1>1, <1>2, <1>3, <2>1 DEF InOrder
    <2>2. CASE k = i
      BY <1>1, <1>2, <1>3, <2>2
    <2>3. CASE j < i /\ i < k
      <3>1. j \in 1 .. n /\ k - 1 \in 1 .. n /\ j < k - 1
        BY <1>1, <1>2, <2>3
      <3> QED BY <1>2, <2>3, <3>1 DEF InOrder
    <2>4. CASE j = i
      <3>1. k - 1 \in 1 .. n /\ ~(k - 1 < i) /\ r[k] = q[k - 1]
        BY <1>1, <1>2, <1>3, <2>4
      <3> QED BY <1>1, <2>4, <3>1
    <2>5. CASE i < j
      <3>1. j - 1 \in 1 .. n /\ k - 1 \in 1 .. n /\ j - 1 < k - 1 /\ i < k
        BY <1>1, <1>2, <1>3, <2>5
      <3> QED BY <1>2, <2>5, <3>1 DEF InOrder
    <2> QED BY <1>1, <1>3, <2>1, <2>2, <2>3, <2>4, <2>5
  <1> QED BY <1>1, <1>3 DEF InOrder, r

(* or one is removed.                                                      *)
LEMMA RemovedInOrder ==
    ASSUME NEW S, NEW R, NEW q \in Seq(S), NEW i \in 1 .. Len(q), InOrder(q, R)
    PROVE  InOrder(RemoveAt(q, i), R)
  <1> DEFINE r == RemoveAt(q, i)
             n == Len(q)
             at(j) == IF j < i THEN j ELSE j + 1
  <1>1. /\ n \in Nat /\ Len(r) = n - 1
        /\ \A j \in 1 .. n - 1 : r[j] = q[at(j)]
    BY Removed
  <1> HIDE DEF r
  <1>2. ASSUME NEW j \in 1 .. n - 1, NEW k \in 1 .. n - 1, j < k
        PROVE  r[k] \in R[r[j]]
    <2>1. at(j) \in 1 .. n /\ at(k) \in 1 .. n /\ at(j) < at(k)
      BY <1>1, <1>2
    <2>2. r[j] = q[at(j)] /\ r[k] = q[at(k)]
      BY <1>1
    <2> HIDE DEF at
    <2> QED BY <2>1, <2>2 DEF InOrder
  <1> QED BY <1>1, <1>2 DEF InOrder, r

(* The edges that are no nearer than edge i on the ray to c.               *)
Behind(c) ==
    [i \in DOMAIN edges |-> {j \in DOMAIN edges : Nearer(light, edges[i], edges[j], c)}]

(* What Behind means.                                                      *)
LEMMA BehindIs ==
    ASSUME NEW i \in DOMAIN edges, NEW j \in DOMAIN edges, NEW c
    PROVE  j \in Behind(c)[i] <=> Nearer(light, edges[i], edges[j], c)
  BY DEF Behind

(* An edge that begins is put before the first edge that it is not behind, *)
(* and so before all of those: the stack was sorted.                       *)
LEMMA AddEdgeSorts ==
    ASSUME StackInv, AddEdge, ~Aligned
    PROVE  /\ InOrder(stack', Behind(CurrentPoint))
           /\ \A k \in 1 .. Len(stack') : Met(light, edges[stack'[k]], CurrentPoint)
  <1> DEFINE i == InsertIndex
             c == Current.edge
             S == DOMAIN edges
             d == CurrentPoint
             R == Behind(d)
             stop == {k \in DOMAIN stack : Hit(k) = Null \/ NoFarther(d, Hit(k), light)}
  <1>1. /\ Sweeping /\ Current.end = "from" /\ (i \in DOMAIN stack => Hit(i) # Null)
        /\ stack' = InsertAt(stack, i, c) /\ pass # 3
    BY DEF AddEdge, Sweeping
  <1>2. SweepInv /\ Ready /\ stack \in Seq(S) /\ NearestFirst(d)
    BY <1>1 DEF StackInv, SweepInv, OpenStack
  <1>3. c \in S /\ d \in Points /\ pos \in 1 .. Len(order)
    BY <1>1, <1>2, CurrentIs
  <1>4. light \in Points /\ edges \in Seq(EdgeRecords) /\ DOMAIN stack = 1 .. Len(stack)
        /\ Len(stack) \in Nat
    BY <1>2, ReadyIs
  <1>5. i \in 1 .. Len(stack) + 1
    <2> HIDE DEF S
    <2> QED BY <1>2, InsertIndexIs
  <1>6. \A k \in 1 .. Len(stack) : edges[stack[k]] \in EdgeRecords
        /\ Met(light, edges[stack[k]], d)
    BY <1>1, <1>2, StackMet
  (* The edge that begins.                                                     *)
  <1>7. edges[c] \in EdgeRecords /\ d = edges[c].from /\ Size(light, edges[c]) > 0
        /\ Along(light, d, d) > 0
    <2>1. /\ Prepared(light, edges, Visible, Nearest)
          /\ IsOrder(edges, light, Visible, Nearest, order)
      BY <1>2 DEF Ready
    <2>2. /\ Swept(edges, Visible, Nearest, order[pos].edge)
             /\ order[pos].edge \in 1 .. Visible + 2
          /\ edges[order[pos].edge] \in EdgeRecords
      BY <1>3, <2>1, SweptEnds
    <2>3. edges[c] \in EdgeRecords /\ Size(light, edges[c]) > 0
      BY <2>1, <2>2 DEF Current, Prepared, Size
    <2>4. d = edges[c].from
      BY <1>1 DEF CurrentPoint, PointOf
    <2> HIDE DEF d, c
    <2>5. Turn(light, edges[c].from, edges[c].to) \in Int
          /\ Turn(light, edges[c].from, edges[c].to) > 0
      BY <1>4, <2>3, TurnIs DEF EdgeRecords, Size
    <2>6. Turn(light, edges[c].from, edges[c].to) # 0
      BY <2>5
    <2>7. Along(light, d, d) > 0
      BY <1>4, <2>3, <2>4, <2>6, SameTurn DEF EdgeRecords
    <2> QED BY <2>3, <2>4, <2>7
  <1>8. i = IF stop = {} THEN Len(stack) + 1 ELSE Min(stop)
    BY DEF InsertIndex
  <1>9. \A k \in 1 .. Len(stack) : Hit(k) = intersection(edges[stack[k]], light, d)
    BY DEF Hit
  <1>10. \A k \in 1 .. Len(stack) : k \in stop <=> Hit(k) = Null \/ NoFarther(d, Hit(k), light)
    BY <1>4
  <1>11. stop \in SUBSET Nat /\ stop \subseteq 1 .. Len(stack)
    BY <1>4
  <1> HIDE DEF i, c, S, d, R, stop
  <1>12. /\ \A k \in 1 .. Len(stack) : k < i => k \notin stop
         /\ i \in 1 .. Len(stack) => i \in stop
    <2>1. stop # {} => Min(stop) \in stop /\ \A k \in stop : Min(stop) <= k
      BY <1>11, MinIs
    <2>2. \A k \in 1 .. Len(stack) : k < i => k \notin stop
      <3> TAKE k \in 1 .. Len(stack)
      <3>1. SUFFICES ASSUME k < i, k \in stop PROVE FALSE
        OBVIOUS
      <3>2. i = Min(stop) /\ i <= k
        BY <1>8, <2>1, <3>1
      <3> QED BY <1>5, <3>1, <3>2
    <2>3. i \in 1 .. Len(stack) => i \in stop
      <3>1. i \in 1 .. Len(stack) => i # Len(stack) + 1
        BY <1>4
      <3> QED BY <1>8, <2>1, <3>1
    <2> QED BY <2>2, <2>3
  <1>13. ASSUME NEW k \in 1 .. Len(stack)
         PROVE  /\ Met(light, edges[c], d)
                /\ Nearer(light, edges[c], edges[stack[k]], d) <=>
                        NoFarther(d, Hit(k), light)
                /\ ~NoFarther(d, Hit(k), light) => Nearer(light, edges[stack[k]], edges[c], d)
    <2> DEFINE f == edges[stack[k]]
    <2>1. f \in EdgeRecords /\ Met(light, f, d)
      BY <1>6
    <2>2. NoFarther(d, Hit(k), light) <=> Depth(light, f, d) <= Size(light, f)
      <3>1. Hit(k) = intersection(f, light, d)
        BY <1>9
      <3> HIDE DEF f
      <3> QED BY <1>3, <1>4, <2>1, <3>1, ReachedIs
    <2> HIDE DEF f
    <2>3. Depth(light, f, d) \in Int /\ Size(light, f) \in Int
      BY <1>3, <1>4, <2>1, DepthIs
    <2>4. /\ Met(light, edges[c], d)
          /\ Nearer(light, edges[c], f, d) <=> Depth(light, f, d) <= Size(light, f)
          /\ Nearer(light, f, edges[c], d) <=> Size(light, f) <= Depth(light, f, d)
      BY <1>3, <1>4, <1>7, <2>1, BeginsAt
    <2> QED BY <2>2, <2>3, <2>4 DEF f
  <1>14. \A k \in 1 .. Len(stack) : stack[k] \in S
    BY <1>2
  <1>15. ASSUME NEW k \in 1 .. Len(stack)
         PROVE  IF k < i THEN c \in R[stack[k]] ELSE stack[k] \in R[c]
    <2>1. CASE k < i
      <3>1. ~NoFarther(d, Hit(k), light)
        BY <1>10, <1>12, <2>1
      <3>2. Nearer(light, edges[stack[k]], edges[c], d)
        BY <1>13, <3>1
      <3> QED BY <1>3, <1>14, <2>1, <3>2, BehindIs DEF R, S
    <2>2. CASE ~(k < i)
      <3>1. i \in 1 .. Len(stack) /\ i \in DOMAIN stack
        BY <1>4, <1>5, <2>2
      <3>2. NoFarther(d, Hit(i), light)
        BY <1>1, <1>10, <1>12, <3>1
      <3>3. Nearer(light, edges[c], edges[stack[i]], d)
        BY <1>13, <3>1, <3>2
      <3>4. Nearer(light, edges[c], edges[stack[k]], d)
        <4>1. CASE k = i
          BY <3>3, <4>1
        <4>2. CASE i < k
          <5>1. Nearer(light, edges[stack[i]], edges[stack[k]], d)
            BY <1>2, <3>1, <4>2 DEF NearestFirst
          <5>2. Met(light, edges[c], d)
            BY <1>13
          <5> QED BY <1>3, <1>4, <1>6, <1>7, <3>1, <3>3, <5>1, <5>2, NearerPasses
        <4> QED BY <1>5, <2>2, <4>1, <4>2
      <3> QED BY <1>3, <1>14, <2>2, <3>4, BehindIs DEF R, S
    <2> QED BY <2>1, <2>2
  <1>16. InOrder(stack, R)
    <2>1. \A j, k \in 1 .. Len(stack) : j < k => Nearer(light, edges[stack[j]], edges[stack[k]], d)
      BY <1>2 DEF NearestFirst
    <2> QED BY <1>14, <2>1, BehindIs DEF InOrder, R, S
  <1>17. InOrder(stack', R)
    BY <1>1, <1>2, <1>3, <1>5, <1>15, <1>16, InsertedInOrder
  <1>18. ASSUME NEW k \in 1 .. Len(stack')
         PROVE  Met(light, edges[stack'[k]], d)
    <2>1. Met(light, edges[c], d)
      <3>1. Turn(light, edges[c].from, d) = 0
            /\ Turn(light, d, edges[c].to) = Size(light, edges[c])
        BY <1>3, <1>4, <1>7, SameTurn DEF Size
      <3>2. Size(light, edges[c]) \in Int
        BY <1>4, <1>7, TurnIs DEF EdgeRecords, Size
      <3>3. Size(light, edges[c]) >= 0
        BY <1>7, <3>2
      <3> QED BY <1>7, <3>1, <3>3 DEF Met
    <2>2. stack' \in Seq(S) /\ ToSet(stack') = ToSet(stack) \union {c}
      BY <1>1, <1>2, <1>3, <1>5, InsertAdds
    <2>3. stack'[k] \in ToSet(stack) \union {c}
      <3>1. k \in DOMAIN stack'
        BY <2>2
      <3> QED BY <2>2, <3>1 DEF ToSet
    <2>4. stack'[k] \in ToSet(stack) => \E j \in 1 .. Len(stack) : stack'[k] = stack[j]
      BY <1>4 DEF ToSet
    <2> QED BY <1>6, <2>1, <2>3, <2>4
  <1> QED BY <1>17, <1>18 DEF R, d

(* An edge that ends leaves the others in order.                           *)
LEMMA RemoveEdgeSorts ==
    ASSUME StackInv, RemoveEdge, ~Aligned
    PROVE  /\ InOrder(stack', Behind(CurrentPoint))
           /\ \A k \in 1 .. Len(stack') : Met(light, edges[stack'[k]], CurrentPoint)
  <1> DEFINE i == Min(Places)
             S == DOMAIN edges
             d == CurrentPoint
             R == Behind(d)
  <1>1. pass # 3 /\ stack' = (IF Places = {} THEN stack ELSE RemoveAt(stack, i))
    BY DEF RemoveEdge, Sweeping
  <1>2. SweepInv /\ stack \in Seq(S) /\ NearestFirst(d)
    BY <1>1 DEF StackInv, SweepInv, OpenStack
  <1>3. DOMAIN stack = 1 .. Len(stack) /\ Len(stack) \in Nat
    BY <1>2
  <1>4. \A k \in 1 .. Len(stack) : Met(light, edges[stack[k]], d)
    BY <1>1, <1>2, StackMet
  <1>5. Places \in SUBSET Nat /\ Places \subseteq 1 .. Len(stack)
    BY <1>3 DEF Places
  <1>6. Places # {} => i \in 1 .. Len(stack)
    BY <1>5, MinIs
  <1> HIDE DEF i, S, d, R
  <1>7. InOrder(stack, R)
    <2>1. \A j, k \in 1 .. Len(stack) : j < k => Nearer(light, edges[stack[j]], edges[stack[k]], d)
      BY <1>2 DEF NearestFirst
    <2>2. \A k \in 1 .. Len(stack) : stack[k] \in S
      BY <1>2
    <2> QED BY <2>1, <2>2, BehindIs DEF InOrder, R, S
  <1>8. InOrder(stack', R)
    BY <1>1, <1>2, <1>6, <1>7, RemovedInOrder
  <1>9. \A k \in 1 .. Len(stack') : \E j \in 1 .. Len(stack) : stack'[k] = stack[j]
    <2>1. CASE Places = {}
      BY <1>1, <2>1
    <2>2. CASE Places # {}
      <3>1. /\ Len(RemoveAt(stack, i)) = Len(stack) - 1
            /\ \A j \in 1 .. Len(stack) - 1 : RemoveAt(stack, i)[j] = stack[IF j < i THEN j ELSE j + 1]
        BY <1>2, <1>6, <2>2, Removed
      <3>2. \A j \in 1 .. Len(stack) - 1 : (IF j < i THEN j ELSE j + 1) \in 1 .. Len(stack)
        BY <1>3, <1>6, <2>2
      <3> QED BY <1>1, <2>2, <3>1, <3>2
    <2> QED BY <2>1, <2>2
  <1>10. \A k \in 1 .. Len(stack') : Met(light, edges[stack'[k]], d)
    BY <1>4, <1>9
  <1> QED BY <1>8, <1>10 DEF R, d

(* What is in order on the ray to one end is on the ray to the next: every *)
(* edge on the stack is met by both, and in the same order.                *)
LEMMA StackKeeps ==
    ASSUME StackInv, [Next]_vars
    PROVE  StackInv'
  <1>1. SweepInv' /\ SweepInv /\ Placed
    BY SweepKeeps DEF StackInv
  <1>2. UNCHANGED <<light, edges, order>>
    BY DEF Next, AddEdge, RemoveEdge, MissedEdge, vars
  <1>3. Placed' /\ (Aligned' <=> Aligned)
    <2>1. Ready
      BY <1>1 DEF SweepInv
    <2>2. Placed'
      BY <1>1, <1>2 DEF Placed
    <2> QED BY <1>2, <2>1, <2>2, ReadyKept
  <1>4. ASSUME AddEdge \/ RemoveEdge, pass' # 3, ~Aligned
        PROVE  NearestFirst(CurrentPoint)'
    <2> DEFINE d == CurrentPoint
    <2>1. /\ InOrder(stack', Behind(d))
          /\ \A k \in 1 .. Len(stack') : Met(light, edges[stack'[k]], d)
      BY <1>4, AddEdgeSorts, RemoveEdgeSorts
    <2>2. Ready /\ d \in Points
      BY <1>1, CurrentIs DEF SweepInv
    <2>3. OpenStack' /\ stack' \in Seq(DOMAIN edges)
      BY <1>1, <1>2 DEF SweepInv, OpenStack
    <2> HIDE DEF d
    <2>4. \A j, k \in 1 .. Len(stack') :
              j < k => Nearer(light, edges[stack'[j]], edges[stack'[k]], d)
      <3>1. \A k \in 1 .. Len(stack') : stack'[k] \in DOMAIN edges
        BY <2>3
      <3> QED BY <2>1, <3>1, BehindIs DEF InOrder
    <2> QED BY <1>1, <1>2, <1>4, <2>1, <2>2, <2>3, <2>4, CarriedOn
  <1>5. ASSUME MissedEdge \/ UNCHANGED vars, pass' # 3, ~Aligned
        PROVE  NearestFirst(CurrentPoint)'
    <2>1. UNCHANGED <<light, edges, order, pass, pos, stack>>
      BY <1>5 DEF MissedEdge, vars
    <2>2. NearestFirst(CurrentPoint)
      BY <1>5, <2>1 DEF StackInv
    <2>3. CurrentPoint' = CurrentPoint
      BY <2>1 DEF CurrentPoint, Current, PointOf
    <2> QED BY <2>1, <2>2, <2>3 DEF NearestFirst
  <1>6. pass' # 3 /\ ~Aligned' => NearestFirst(CurrentPoint)'
    BY <1>3, <1>4, <1>5 DEF Next
  <1> QED BY <1>1, <1>3, <1>6 DEF StackInv

(* The visible edges and the parts of the nearest keep their order.        *)
LEMMA StackBegins ==
    ASSUME Scenery, RectanglesApart, Init
    PROVE  StackInv
  <1>1. PICK scene \in Scenes, p \in Lights :
            /\ light = Point(p[1], p[2])
            /\ edges = SplitEdges(visibleEdges(scene, light), light)
            /\ stack = <<>>
    BY DEF Init
  <1> DEFINE v == visibleEdges(scene, light)
             n == Len(v)
  <1>2. light \in Points /\ v \in Seq(Facing(light)) /\ n \in Nat \ {0}
    BY <1>1, VisibleEdgesAre
  <1>3. SweepInv
    BY SweepBegins
  <1>4. ASSUME NEW i \in 1 .. n, NEW j \in 1 .. n
        PROVE  Fixed(light, v[i], v[j])
    <2>1. v[i] \in ToSet(v) /\ v[j] \in ToSet(v)
      BY <1>2 DEF ToSet
    <2>2. v[i] \in Facing(light) /\ v[j] \in Facing(light)
      BY <1>2
    <2> QED BY <1>1, <2>1, <2>2, SceneFixed DEF Facing
  <1> HIDE DEF v
  <1>5. edges = SplitEdges(v, light)
    BY <1>1 DEF v
  <1>6. DOMAIN edges = 1 .. n + 2
    <2>1. Prepared(light, edges, n, findNearestEdge(v, light))
      BY <1>2, <1>5, SplitIs
    <2> QED BY <2>1 DEF Prepared
  <1>7. ASSUME NEW i \in 1 .. n + 2
        PROVE  \E j \in 1 .. n : PartOfEdge(edges[i], v[j])
    BY <1>2, <1>5, SplitParts
  <1>8. Placed
    <2>1. ASSUME NEW i \in 1 .. n + 2, NEW j \in 1 .. n + 2
          PROVE  Fixed(light, edges[i], edges[j])
      <3>1. PICK a \in 1 .. n : PartOfEdge(edges[i], v[a])
        BY <1>7
      <3>2. PICK b \in 1 .. n : PartOfEdge(edges[j], v[b])
        BY <1>7
      <3> QED BY <1>4, <3>1, <3>2, FixedParts
    <2> QED BY <1>6, <2>1 DEF Placed
  <1>9. NearestFirst(CurrentPoint)
    BY <1>1 DEF NearestFirst
  <1> QED BY <1>3, <1>8, <1>9 DEF StackInv

(* Hits are at the distances that Nearer compares.                         *)
LEMMA StackImplies ==
    ASSUME StackInv
    PROVE  StackSorted
  <1>1. SUFFICES ASSUME pass = 2, ~Aligned, NEW i \in DOMAIN stack, NEW j \in DOMAIN stack,
                        i < j
                 PROVE  NoFarther(Hit(i), Hit(j), light)
    BY DEF StackSorted
  <1>2. SweepInv /\ stack \in Seq(DOMAIN edges) /\ light \in Points
    BY ReadyIs DEF StackInv, SweepInv, OpenStack
  <1>3. i \in 1 .. Len(stack) /\ j \in 1 .. Len(stack)
    BY <1>2
  <1>4. Nearer(light, edges[stack[i]], edges[stack[j]], CurrentPoint)
    BY <1>1, <1>3 DEF StackInv, NearestFirst
  <1>5. /\ CurrentPoint \in Points
        /\ edges[stack[i]] \in EdgeRecords /\ Met(light, edges[stack[i]], CurrentPoint)
        /\ edges[stack[j]] \in EdgeRecords /\ Met(light, edges[stack[j]], CurrentPoint)
    BY <1>1, <1>2, <1>3, StackMet
  <1> QED BY <1>2, <1>4, <1>5, NearerIs DEF Hit

(* The stack is sorted by distance, for every scene of rectangles that do not meet. *)
THEOREM StackPromise ==
    ASSUME Scenery, RectanglesApart
    PROVE  Spec => []StackSorted
  <1>1. Init => StackInv
    BY StackBegins
  <1>2. StackInv /\ [Next]_vars => StackInv'
    BY StackKeeps
  <1>3. StackInv => StackSorted
    BY StackImplies
  <1> QED BY <1>1, <1>2, <1>3, PTL DEF Spec
=============================================================================
