------------------------------ MODULE Toolpaths ------------------------------
(***************************************************************************)
(* The geometry of crates/rustcam: the slicer (slicer.rs), which turns a   *)
(* triangle mesh into contours, and the strategies (toolpath.rs), which    *)
(* turn contours or the mesh itself into toolpaths.                        *)
(*                                                                         *)
(* Lengths are integers, in hundredths of a millimetre; the tolerances of  *)
(* the code (1e-10 to 0.001 mm) are then equality.  Divisions are exact on *)
(* the shapes the runs use.  A contour moved sideways by the tool's radius *)
(* needs a square root, so a moved point keeps what determines it: where   *)
(* it comes from, along which normal it moved and how far.                 *)
(***************************************************************************)
EXTENDS Integers, Sequences, FiniteSets, SequencesExt, FiniteSetsExt

\* A place of the tool above the table: a point, the normal it was moved
\* along, and by how much; an unmoved point has no normal.
Spot(p) == <<p[1], p[2], 0, 0, 0>>
Moved(p, normal, by) ==
    IF normal = <<0, 0>> \/ by = 0 THEN Spot(p)
    ELSE <<p[1], p[2], normal[1], normal[2], by>>

NoPower == -1
Rapid(at, z) == [at |-> at, z |-> z, rapid |-> TRUE, power |-> NoPower]
CutWithPower(at, z, power) == [at |-> at, z |-> z, rapid |-> FALSE, power |-> power]
Cut(at, z) == CutWithPower(at, z, NoPower)

Each(s, Op(_)) == [i \in DOMAIN s |-> Op(s[i])]
Lo(points, axis) == Min({p[axis] : p \in points})
Hi(points, axis) == Max({p[axis] : p \in points})

\* lo, lo + step, ... as far as hi: the while loops over z, x and y.
Steps(lo, hi, step) ==
    IF lo > hi THEN <<>> ELSE [k \in 1..((hi - lo) \div step + 1) |-> lo + (k - 1) * step]

\* step_over.max(0.1), also for the spacing of an engraver's lines.
StepOver(cfg) == Max({cfg.over, 10})

-----------------------------------------------------------------------------
(* The slicer.  A mesh is a sequence of triangles of points <<x, y, z>>.   *)

Vertices(mesh) == UNION {ToSet(mesh[i]) : i \in DOMAIN mesh}

Lerp(p, q, z) ==
    [axis \in 1..2 |-> p[axis] + ((z - p[3]) * (q[axis] - p[axis])) \div (q[3] - p[3])]

\* What one edge gives: the point where it crosses the plane, or its first
\* vertex when that lies in the plane.
EdgePoints(p, q, z) ==
    IF (p[3] - z) * (q[3] - z) < 0 THEN <<Lerp(p, q, z)>>
    ELSE IF p[3] = z THEN <<<<p[1], p[2]>>>>
    ELSE <<>>

Dedup(s) == FoldLeft(LAMBDA d, p : IF d # <<>> /\ Last(d) = p THEN d ELSE Append(d, p), <<>>, s)

intersect_triangle_z(t, z) ==
    LET pts == Dedup(EdgePoints(t[1], t[2], z) \o EdgePoints(t[2], t[3], z) \o EdgePoints(t[3], t[1], z))
    IN  IF Len(pts) >= 2 THEN <<<<pts[1], pts[2]>>>> ELSE <<>>

collect_segments(mesh, z) == FlattenSeq(Each(mesh, LAMBDA t : intersect_triangle_z(t, z)))

\* A chain grows at its tail by the first unused segment with an end there.
RECURSIVE Extended(_, _, _)
Extended(chain, free, segs) ==
    LET tail == Last(chain)
        next == {j \in free : tail \in {segs[j][1], segs[j][2]}}
        j    == Min(next)
    IN  IF next = {} THEN <<chain, free>>
        ELSE Extended(Append(chain, IF segs[j][1] = tail THEN segs[j][2] ELSE segs[j][1]),
                      free \ {j}, segs)

RECURSIVE ChainsOf(_, _)
ChainsOf(free, segs) ==
    IF free = {} THEN <<>>
    ELSE LET first  == Min(free)
             grown  == Extended(segs[first], free \ {first}, segs)
             chain  == grown[1]
             closed == Len(chain) > 2 /\ chain[1] = Last(chain)
         IN  <<[points |-> IF closed THEN Front(chain) ELSE chain, closed |-> closed]>>
             \o ChainsOf(grown[2], segs)
chain_segments(segs) == ChainsOf(DOMAIN segs, segs)

slice_at_z(mesh, z) == chain_segments(collect_segments(mesh, z))

LayerHeights(mesh, height) ==
    Steps(Lo(Vertices(mesh), 3) + height \div 2, Hi(Vertices(mesh), 3), height)
slice_mesh(mesh, height) ==
    SelectSeq(Each(LayerHeights(mesh, height), LAMBDA z : [z |-> z, contours |-> slice_at_z(mesh, z)]),
              LAMBDA layer : layer.contours # <<>>)

-----------------------------------------------------------------------------
(* Strategies that follow a contour.                                       *)

offset_polyline(poly, by) ==
    LET pts == poly.points
        n   == Len(pts)
        Prev(i) == IF i > 1 THEN pts[i - 1] ELSE IF poly.closed THEN pts[n] ELSE pts[1]
        Foll(i) == IF i < n THEN pts[i + 1] ELSE IF poly.closed THEN pts[1] ELSE pts[n]
    IN  IF n < 2 THEN Each(pts, Spot)
        ELSE [i \in 1..n |-> Moved(pts[i], <<Prev(i)[2] - Foll(i)[2], Foll(i)[1] - Prev(i)[1]>>, by)]

\* Down at the first point, along, home if closed, and up at the last point.
Loop(spots, closed, z, cfg) ==
    IF spots = <<>> THEN <<>>
    ELSE << <<Rapid(spots[1], cfg.safe)>>
            \o Each(spots, LAMBDA s : Cut(s, z))
            \o (IF closed THEN <<Cut(spots[1], z)>> ELSE <<>>)
            \o <<Rapid(Last(spots), cfg.safe)>> >>

ContourStrategy(contours, z, cfg) ==
    FlattenSeq(Each(contours, LAMBDA c : Loop(offset_polyline(c, cfg.radius), c.closed, z, cfg)))

BoxArea(contour) ==
    LET ps == ToSet(contour.points)
    IN  IF ps = {} THEN 0 ELSE (Hi(ps, 1) - Lo(ps, 1)) * (Hi(ps, 2) - Lo(ps, 2))

\* max_by takes the last of equals.
Outermost(contours) ==
    contours[Max({i \in DOMAIN contours :
                     \A j \in DOMAIN contours : BoxArea(contours[i]) >= BoxArea(contours[j])})]

PerimeterStrategy(contours, z, cfg) ==
    LET outer == Outermost(contours)
        Pass(k) == LET spots == offset_polyline(outer, cfg.radius + (k - 1) * cfg.over)
                   IN  Loop(IF cfg.climb THEN Reverse(spots) ELSE spots, outer.closed, z, cfg)
    IN  IF contours = <<>> THEN <<>>
        ELSE FlattenSeq([k \in 1..Max({cfg.passes, 1}) |-> Pass(k)])

LaserCutStrategy(contours, cfg) ==
    LET Path(c) == LET spots == Each(c.points, Spot)
                       Burn(s) == CutWithPower(s, 0, cfg.power)
                   IN  <<Rapid(spots[1], 0)>> \o Each(Tail(spots), Burn)
                       \o (IF c.closed /\ Len(spots) > 1 THEN <<Burn(spots[1])>> ELSE <<>>)
    IN  Each(SelectSeq(contours, LAMBDA c : c.points # <<>>), Path)

-----------------------------------------------------------------------------
(* Strategies that fill a contour line by line.                            *)

\* Half-open at the upper end: a vertex two edges share counts once.
scanline_intersect(pts, y) ==
    LET Crossing(i) ==
            LET a == pts[i]
                b == pts[(i % Len(pts)) + 1]
            IN  IF (a[2] <= y /\ b[2] > y) \/ (b[2] <= y /\ a[2] > y)
                THEN <<a[1] + ((y - a[2]) * (b[1] - a[1])) \div (b[2] - a[2])>> ELSE <<>>
    IN  FlattenSeq([i \in DOMAIN pts |-> Crossing(i)])

\* As if the crossings came in order.
FaultySpans(pts, y, inset) ==
    LET xs == scanline_intersect(pts, y)
        pairs == [i \in 1..(Len(xs) \div 2) |-> <<xs[2 * i - 1] + inset, xs[2 * i] - inset>>]
    IN  SelectSeq(pairs, LAMBDA s : s[1] < s[2])

\* The spans between the crossings taken in pairs, each shortened by inset.
Spans(pts, y, inset) ==
    LET xs == SortSeq(scanline_intersect(pts, y), <)
        pairs == [i \in 1..(Len(xs) \div 2) |-> <<xs[2 * i - 1] + inset, xs[2 * i] - inset>>]
    IN  SelectSeq(pairs, LAMBDA s : s[1] < s[2])

\* The strokes <<from, to>> of a closed contour's rows, to and fro.
Serpentine(contour, inset, step) ==
    LET pts == contour.points
        ys  == Steps(Lo(ToSet(pts), 2) + inset, Hi(ToSet(pts), 2) - inset, step)
        Row(k) == Each(Spans(pts, ys[k], inset), LAMBDA s :
                      LET ends == <<Spot(<<s[1], ys[k]>>), Spot(<<s[2], ys[k]>>)>>
                      IN  IF k % 2 = 1 THEN ends ELSE Reverse(ends))
    IN  IF contour.closed /\ Len(pts) >= 3 THEN FlattenSeq([k \in DOMAIN ys |-> Row(k)]) ELSE <<>>

\* One toolpath a contour, none if it has no stroke.
PocketStrategy(contours, z, cfg) ==
    LET Moves(st) == <<Rapid(st[1], cfg.safe), Cut(st[1], z), Cut(st[2], z), Rapid(st[2], cfg.safe)>>
        Path(c) == FlattenSeq(Each(Serpentine(c, cfg.radius, StepOver(cfg)), Moves))
    IN  SelectSeq(Each(contours, Path), LAMBDA path : path # <<>>)

LaserEngraveStrategy(contours, cfg) ==
    LET Moves(st) == <<Rapid(st[1], 0), CutWithPower(st[2], 0, cfg.power)>>
        Path(c) == FlattenSeq(Each(Serpentine(c, 0, StepOver(cfg)), Moves))
    IN  SelectSeq(Each(contours, Path), LAMBDA path : path # <<>>)

-----------------------------------------------------------------------------
(* Strategies that follow the surface of the mesh.                         *)

\* triangle_z_at_xy: barycentric coordinates, times their denominator.
Facet(t, p) ==
    LET a == t[1]  b == t[2]  c == t[3]
        d == (b[2] - c[2]) * (a[1] - c[1]) + (c[1] - b[1]) * (a[2] - c[2])
        u == (b[2] - c[2]) * (p[1] - c[1]) + (c[1] - b[1]) * (p[2] - c[2])
        v == (c[2] - a[2]) * (p[1] - c[1]) + (a[1] - c[1]) * (p[2] - c[2])
        w == d - u - v
    IN  IF d # 0 /\ \A e \in {u, v, w} : e = 0 \/ (e > 0 <=> d > 0)
        THEN {(u * a[3] + v * b[3] + w * c[3]) \div d} ELSE {}

mesh_height_at(mesh, p) == UNION {Facet(mesh[i], p) : i \in DOMAIN mesh}

\* disc_samples: the centre, the rim and the half-way circle; four of the
\* sixteen and of the eight directions.
DiscSamples(p, r) ==
    {p} \cup {<<p[1] + d[1] * k, p[2] + d[2] * k>> :
                 d \in {<<1, 0>>, <<0, 1>>, <<-1, 0>>, <<0, -1>>}, k \in {r, r \div 2}}

\* project_flat_tool: the highest point under a flat tool, none off the mesh.
SamplePoint(mesh, p, r) ==
    LET hs == UNION {mesh_height_at(mesh, s) : s \in DiscSamples(p, r)}
    IN  IF hs = {} THEN <<>> ELSE <<[at |-> Spot(p), z |-> Max(hs)]>>
Samples(mesh, points, r) == FlattenSeq(Each(points, LAMBDA p : SamplePoint(mesh, p, r)))

\* The last value is clamped to the end, so the far edge is always there.
float_range(lo, hi, step) ==
    [i \in 1..((hi - lo + step - 1) \div step + 1) |-> Min({lo + (i - 1) * step, hi})]

collect_surface_rows(mesh, cfg, alternate) ==
    LET vs     == Vertices(mesh)
        along  == IF cfg.scan = "y" THEN 2 ELSE 1
        across == 3 - along
        ticks  == float_range(Lo(vs, along), Hi(vs, along), StepOver(cfg))
        lines  == Steps(Lo(vs, across), Hi(vs, across), StepOver(cfg))
        Point(i, k) == [axis \in 1..2 |-> IF axis = along THEN ticks[i] ELSE lines[k]]
        Line(k) == [i \in DOMAIN ticks |->
                       Point(IF alternate /\ k % 2 = 0 THEN Len(ticks) + 1 - i ELSE i, k)]
    IN  SelectSeq([k \in DOMAIN lines |-> Samples(mesh, Line(k), cfg.radius)], LAMBDA row : row # <<>>)

CutTo(p) == Cut(p.at, p.z)
PlungeAt(p, cfg) == <<Rapid(p.at, cfg.safe), CutTo(p)>>
RetractAt(p, cfg) == <<Rapid(p.at, cfg.safe)>>

generate_one_way(mesh, cfg) ==
    Each(collect_surface_rows(mesh, cfg, FALSE),
         LAMBDA row : PlungeAt(row[1], cfg) \o Each(Tail(row), CutTo) \o RetractAt(Last(row), cfg))

\* A later row starts from the end of the one before, without a retract.
generate_zigzag(mesh, cfg) ==
    LET rows == collect_surface_rows(mesh, cfg, TRUE)
        n    == Len(rows)
    IN  [k \in 1..n |->
            (IF k = 1 THEN PlungeAt(rows[1][1], cfg) ELSE <<CutTo(Last(rows[k - 1])), CutTo(rows[k][1])>>)
            \o Each(Tail(rows[k]), CutTo)
            \o (IF k = n THEN RetractAt(Last(rows[n]), cfg) ELSE <<>>)]

\* Rings from the outside in, each without the last point of its sides, as
\* long as both sides are longer than a step.
generate_spiral(mesh, cfg) ==
    LET vs   == Vertices(mesh)
        step == StepOver(cfg)
        Side(k, axis) == Hi(vs, axis) - Lo(vs, axis) - 2 * k * step
        Ring(k) ==
            LET l == Lo(vs, 1) + k * step  r == Hi(vs, 1) - k * step
                b == Lo(vs, 2) + k * step  t == Hi(vs, 2) - k * step
                x == Steps(0, r - l - 1, step)
                y == Steps(0, t - b - 1, step)
            IN  Each(x, LAMBDA d : <<l + d, b>>) \o Each(y, LAMBDA d : <<r, b + d>>)
                \o Each(x, LAMBDA d : <<r - d, t>>) \o Each(y, LAMBDA d : <<l, t - d>>)
        rings == {k \in 0..Side(0, 1) \div step : Side(k, 1) > step /\ Side(k, 2) > step}
        path == Samples(mesh, FlattenSeq([k \in 1..Cardinality(rings) |-> Ring(k - 1)]), cfg.radius)
    IN  IF path = <<>> THEN <<>>
        ELSE <<PlungeAt(path[1], cfg) \o Each(Tail(path), CutTo) \o RetractAt(Last(path), cfg)>>

generate_surface(mesh, cfg) ==
    CASE cfg.pattern = "one_way" -> generate_one_way(mesh, cfg)
      [] cfg.pattern = "spiral"  -> generate_spiral(mesh, cfg)
      [] OTHER                   -> generate_zigzag(mesh, cfg)
=============================================================================
