------------------------------ MODULE MCCamPage ------------------------------
(***************************************************************************)
(* Files and forms for CamPage: boxes, two towers, a pyramid, an open      *)
(* sheet and drawings, four millimetres across, with every strategy,       *)
(* pattern and machine.                                                    *)
(***************************************************************************)
EXTENDS CamPage

Points(lo, hi, step) == {lo + k * step : k \in 0..((hi - lo) \div step)}
Lattice(lo, hi, step) == Points(lo, hi, step) \X Points(lo, hi, step)

Quad(a, b, c, d) == <<<<a, b, c>>, <<a, c, d>>>>
BoxMesh(l, b, r, t, h) ==
    LET P(x, y, up) == <<x, y, IF up THEN h ELSE 0>>
    IN  Quad(P(l, b, FALSE), P(l, t, FALSE), P(r, t, FALSE), P(r, b, FALSE))
        \o Quad(P(l, b, TRUE), P(r, b, TRUE), P(r, t, TRUE), P(l, t, TRUE))
        \o Quad(P(l, b, FALSE), P(r, b, FALSE), P(r, b, TRUE), P(l, b, TRUE))
        \o Quad(P(r, t, TRUE), P(r, t, FALSE), P(l, t, FALSE), P(l, t, TRUE))
        \o Quad(P(l, t, TRUE), P(l, b, TRUE), P(l, b, FALSE), P(l, t, FALSE))
        \o Quad(P(r, b, FALSE), P(r, t, FALSE), P(r, t, TRUE), P(r, b, TRUE))
PyramidMesh ==
    LET top == <<200, 200, 200>>
        a == <<0, 0, 0>>  b == <<400, 0, 0>>  c == <<400, 400, 0>>  d == <<0, 400, 0>>
    IN  <<<<a, b, top>>, <<c, d, top>>, <<d, a, top>>, <<b, c, top>>>> \o Quad(a, d, c, b)
SheetMesh == <<<<<<0, 0, 0>>, <<400, 0, 200>>, <<0, 400, 0>>>>,
               <<<<400, 0, 200>>, <<400, 400, 200>>, <<0, 400, 0>>>>>>

\* A mesh with, for comparison, its contours in a layer (0: open), and the
\* heights seen from above; places: where to look for the grid's points.
Solid(mesh, contours, roof) ==
    [kind |-> "stl", mesh |-> mesh, contours |-> contours, roof |-> roof, drawing |-> <<>>,
     places |-> Lattice(0, 400, 50)]
Sketch(drawing) ==
    [kind |-> "svg", mesh |-> <<>>, contours |-> 0, roof |-> <<>>, drawing |-> drawing, places |-> {}]

Poly(points, closed) == [points |-> points, closed |-> closed]
Square   == Poly(<<<<0, 0>>, <<400, 0>>, <<400, 400>>, <<0, 400>>>>, TRUE)
Hole     == Poly(<<<<100, 100>>, <<100, 300>>, <<300, 300>>, <<300, 100>>>>, TRUE)
Triangle == Poly(<<<<0, 0>>, <<400, 0>>, <<200, 400>>>>, TRUE)
Angle    == Poly(<<<<0, 0>>, <<400, 0>>, <<400, 200>>, <<200, 200>>, <<200, 400>>, <<0, 400>>>>, TRUE)
Zig      == Poly(<<<<0, 0>>, <<200, 100>>, <<400, 0>>, <<600, 100>>>>, FALSE)
Dot      == Poly(<<<<500, 500>>>>, FALSE)

\* The triangles of the towers come by turns.
AllShapes ==
    [block   |-> Solid(BoxMesh(0, 0, 400, 400, 200), 1, [p \in Lattice(0, 400, 25) |-> 200]),
     plate   |-> Solid(BoxMesh(0, 0, 400, 200, 40), 1,
                       [p \in Points(0, 400, 25) \X Points(0, 200, 25) |-> 40]),
     towers  |-> Solid(FlattenSeq(Zip(BoxMesh(0, 0, 200, 200, 200), BoxMesh(300, 100, 400, 400, 200))),
                       2,
                       [p \in {q \in Lattice(0, 400, 25) : \/ q[1] <= 200 /\ q[2] <= 200
                                                           \/ q[1] >= 300 /\ q[2] >= 100} |-> 200]),
     pyramid |-> Solid(PyramidMesh, 1,
                       [p \in Lattice(0, 400, 25) |-> Min({p[1], p[2], 400 - p[1], 400 - p[2]})]),
     sheet   |-> Solid(SheetMesh, 0, <<>>),
     square  |-> Sketch(<<Square>>),
     frame   |-> Sketch(<<Hole, Square>>),
     bracket |-> Sketch(<<Angle, Hole>>),
     mixed   |-> Sketch(<<Triangle, Zig, Dot>>)]

\* The forms, with a mill and with a laser, whose form sends some zeros.
Mill(strategy) ==
    [strategy |-> strategy, machine |-> "cnc_mill", radius |-> 50, over |-> 100, down |-> 100, safe |-> 500,
     depth |-> -250, climb |-> FALSE, passes |-> 1, scan |-> "x", pattern |-> "zigzag", speed |-> 12000,
     power |-> 100, repeats |-> 1, air |-> FALSE]
Beam(strategy) ==
    [Mill(strategy) EXCEPT !.machine = "laser_cutter", !.safe = 0, !.depth = 0, !.speed = 0, !.power = 80]

MeshJobs ==
    {Mill(st) : st \in {"contour", "slice"}} \X {"block", "plate", "pyramid", "towers", "sheet"}
    \cup {Mill(st) : st \in {"pocket", "perimeter", "laser_cut"}} \X {"block", "plate", "pyramid"}
    \cup {[Mill("contour") EXCEPT !.down = 400], [Mill("pocket") EXCEPT !.radius = 250],
          [Mill("slice") EXCEPT !.safe = 150]} \X {"block"}
    \cup {[Mill("perimeter") EXCEPT !.climb = TRUE, !.passes = 3]} \X {"pyramid", "square"}

SurfaceJobs ==
    {[Mill("zigzag") EXCEPT !.pattern = pat, !.scan = sc, !.radius = r] :
        pat \in {"zigzag", "one_way"}, sc \in {"x", "y"}, r \in {0, 50}} \X {"block", "pyramid", "towers"}
    \cup {[Mill("surface3d") EXCEPT !.pattern = pat, !.over = 150] : pat \in {"zigzag", "one_way"}}
        \X {"pyramid"}
    \cup {[Mill("surface3d") EXCEPT !.pattern = "spiral", !.over = o] : o \in {50, 100, 150}}
        \X {"block", "pyramid"}

DrawingJobs ==
    {[Mill(st) EXCEPT !.depth = d] : st \in {"contour", "perimeter"}, d \in {-250, -200, 0, 100}}
        \X {"square", "frame", "mixed"}
    \cup {[Mill("pocket") EXCEPT !.radius = r] : r \in {0, 50}} \X {"square", "frame", "mixed"}

LaserJobs ==
    {[Beam(st) EXCEPT !.repeats = n, !.air = a] :
        st \in {"laser_cut", "laser_engrave", "contour", "zigzag"}, n \in {1, 2}, a \in BOOLEAN}
        \X {"square", "bracket", "mixed"}
    \cup {Beam(st) : st \in {"laser_cut", "pocket", "perimeter", "slice"}} \X {"block"}

\* What the user changes her mind about, and how often.
EditedJobs ==
    {<<Mill("contour"), "block", 2>>, <<Mill("pocket"), "square", 2>>, <<Beam("laser_cut"), "square", 2>>}

AllJobs ==
    {<<j[1], j[2], 0>> : j \in MeshJobs \cup SurfaceJobs \cup DrawingJobs \cup LaserJobs} \cup EditedJobs
ContourForm == {Mill("contour")}
=============================================================================
