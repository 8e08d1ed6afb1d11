------------------------------- MODULE CamPage -------------------------------
(***************************************************************************)
(* The CAM page (www-cam/src/cam.ts, worker.ts, sim.ts) and the machine    *)
(* that executes the program downloaded from it.                           *)
(*                                                                         *)
(* The page keeps a form, the kind of the file chosen and its contents,    *)
(* which arrive later.  Generate posts what there is to a web worker, or   *)
(* calls the pipeline itself where there is no worker; when the program is *)
(* there, the page loads the simulation from the form and the file as they *)
(* are then.                                                               *)
(***************************************************************************)
EXTENDS Machining, BagsExt

CONSTANTS
    Shapes,       \* a function: the contents of every file, by its name
    Jobs,         \* a form, the name of a file, and how many edits follow
    OtherForms,   \* what the user may change the form to
    OtherFiles    \* and the files she may choose

VARIABLES
    form, fileType, fileData,   \* what the page reads when asked
    reading,    \* files chosen, whose contents have not arrived
    disabled,   \* the button
    worker,     \* "none", "booting" or "ready"
    inbox,      \* jobs posted to the worker
    gcode,      \* the job whose program is shown, in a sequence of at most one
    sim,        \* the moves of the simulation
    edits,      \* bound: how many are left
    program,    \* what the machine executes
    job,        \* history: what the program was made for
    line,       \* its next line; 0 while the page is open
    at, z,      \* where the tool or beam is
    on,         \* "off", "spindle" or "laser"
    s,          \* the S value in force: spindle speed or beam power
    moves       \* what the lines that name a place did, in order

page == <<form, fileType, fileData, reading, disabled, worker, inbox, gcode, sim, edits>>
machine == <<program, job, line, at, z, on, s, moves>>
vars == <<page, machine>>

Kind(file) == Shapes[file].kind

\* A job as posted: form, file and the kind it is taken for.  calm tells
\* whether form and file have been left alone since; the code keeps no
\* such thing.
Current == [form |-> form, file |-> fileData, type |-> fileType, worker |-> worker # "none", calm |-> TRUE]

\* What the pipeline works on.  The text of a drawing taken for a mesh has
\* no triangle with an extent.
Full(j) ==
    j.form @@ [kind |-> j.type, worker |-> j.worker]
           @@ (IF j.type = Kind(j.file) THEN Shapes[j.file] ELSE [Shapes[j.file] EXCEPT !.mesh = <<>>])

\* The origin is where the operator put it: on the top of the stock.
Init ==
    /\ \E j \in Jobs : form = j[1] /\ fileData = j[2] /\ fileType = Kind(j[2]) /\ edits = j[3]
    /\ worker \in {"none", "booting"}
    /\ reading = {} /\ disabled = FALSE
    /\ inbox = <<>> /\ gcode = <<>> /\ sim = <<>>
    /\ program = <<>> /\ job = <<>> /\ line = 0
    /\ at = Spot(<<0, 0>>) /\ z = 0
    /\ on = "off" /\ s = 0
    /\ moves = <<>>

-----------------------------------------------------------------------------
(* The page and its worker.                                                *)

Open == line = 0 /\ UNCHANGED machine
Disturbed == [i \in DOMAIN inbox |-> [inbox[i] EXCEPT !.calm = FALSE]]

ChangeForm ==
    /\ Open /\ edits > 0 /\ edits' = edits - 1
    /\ form' \in OtherForms \ {form}
    /\ inbox' = Disturbed
    /\ UNCHANGED <<fileType, fileData, reading, disabled, worker, gcode, sim>>

\* handleFile: the kind is known at once.
ChooseFile ==
    /\ Open /\ edits > 0 /\ edits' = edits - 1
    /\ \E f \in OtherFiles \ reading : fileType' = Kind(f) /\ reading' = reading \cup {f}
    /\ inbox' = Disturbed
    /\ UNCHANGED <<form, fileData, disabled, worker, gcode, sim>>

\* Its contents, in whatever order the reads end; the button is enabled.
FileRead ==
    /\ Open
    /\ \E f \in reading : fileData' = f /\ reading' = reading \ {f}
    /\ disabled' = FALSE
    /\ inbox' = Disturbed
    /\ UNCHANGED <<form, fileType, worker, gcode, sim, edits>>

WorkerBoots ==
    /\ Open /\ worker = "booting" /\ worker' = "ready"
    /\ UNCHANGED <<form, fileType, fileData, reading, disabled, inbox, gcode, sim, edits>>

\* The pipeline may fail: a strategy the machine does not have, on the main
\* thread only; a mesh taken for a drawing always, a drawing taken for a
\* mesh depending on its digits.
Succeeds(j) ==
    /\ j.worker \/ validate_strategy(Full(j))
    /\ j.type = Kind(j.file) \/ j.type = "stl"
MayFail(j) == ~Succeeds(j) \/ j.type # Kind(j.file)

\* The program is shown and loadSim asks for the form and file of now.
Show(j) ==
    /\ gcode' = <<j>>
    /\ sim' = IF fileType = Kind(fileData) THEN SimMoves(Full(Current)) ELSE <<>>
Answered(j) ==
    /\ disabled' = FALSE
    /\ \/ Succeeds(j) /\ Show(j)
       \/ MayFail(j) /\ UNCHANGED <<gcode, sim>>

Generate ==
    /\ Open /\ ~disabled
    /\ IF worker = "none" THEN Answered(Current) /\ UNCHANGED inbox
       ELSE /\ disabled' = TRUE
            /\ inbox' = Append(inbox, Current)
            /\ UNCHANGED <<gcode, sim>>
    /\ UNCHANGED <<form, fileType, fileData, reading, worker, edits>>

\* The worker's answer; while it boots it has none but an error.
WorkerAnswers ==
    /\ Open /\ inbox # <<>>
    /\ inbox' = Tail(inbox)
    /\ IF worker = "ready" THEN Answered(Head(inbox))
       ELSE disabled' = FALSE /\ UNCHANGED <<gcode, sim>>
    /\ UNCHANGED <<form, fileType, fileData, reading, worker, edits>>

\* The program shown is taken to the machine; the page is not looked at again.
Download ==
    /\ line = 0 /\ gcode # <<>>
    /\ job' = Full(gcode[1])
    /\ program' = Program(job')
    /\ line' = 1
    /\ UNCHANGED <<page, at, z, on, s, moves>>

-----------------------------------------------------------------------------
(* The machine.                                                            *)

Running == line > 0 /\ line <= Len(program)
Said(word, old) == IF word = <<>> THEN old ELSE word[1]

Execute(words) ==
    /\ Running /\ program[line].word \in words
    /\ line' = line + 1
    /\ s' = Said(program[line].s, s)
    /\ UNCHANGED <<page, program, job>>

\* G0 and G1: a straight line to the place and height named.
Move ==
    /\ Execute({"G0", "G1"})
    /\ at' = Said(program[line].at, at)
    /\ z' = Said(program[line].z, z)
    /\ moves' = IF program[line].at = <<>> THEN moves
                ELSE Append(moves, [from |-> at, at |-> at', z |-> z', s |-> s',
                                    rapid |-> program[line].word = "G0"])
    /\ UNCHANGED on

Switch ==
    /\ Execute({"M3", "M4", "M5"})
    /\ on' = CASE program[line].word = "M3" -> "spindle"
               [] program[line].word = "M4" -> "laser"
               [] OTHER                     -> "off"
    /\ UNCHANGED <<at, z, moves>>

\* Units, distance mode, coolant or air, end of program.
Note == Execute({"G21", "G90", "M8", "M9", "M2"}) /\ UNCHANGED <<at, z, on, moves>>

Next ==
    \/ ChangeForm \/ ChooseFile \/ FileRead \/ WorkerBoots \/ Generate \/ WorkerAnswers
    \/ Download \/ Move \/ Switch \/ Note
Spec == Init /\ [][Next]_vars

-----------------------------------------------------------------------------
(* Travels.                                                                *)

\* The worker's program is for a mill, and for a strategy it does not know a
\* contour, whatever was asked for.
ForThisMachine == job.worker => ~Laser(job) /\ validate_strategy(job)

Top == IF job.kind = "stl" /\ job.mesh # <<>> THEN Hi(Vertices(job.mesh), 3) ELSE 0

\* Back along the cut just made: how a closed contour is left, by way of its
\* last point.
Retraces == moves # <<>> /\ ~Last(moves).rapid /\ at' = Last(moves).from

MillStep(code) ==
    /\ code.word = "G0" => z' >= job.safe /\ (at' # at => z >= job.safe \/ Retraces)
    /\ code.word = "G1" /\ z >= job.safe /\ z' < job.safe - 1 => at' = at /\ code.f = <<"plunge">>
    /\ code.word = "G1" /\ at' # at => code.f = <<"feed">>
    /\ code.word = "G1" => on = "spindle"
    /\ on' # on => z >= job.safe

LaserStep(code) ==
    /\ z' = z
    /\ code.word = "G0" /\ at' # at => on = "off" \/ s' = 0
    /\ code.word = "G1" /\ at' # at => on = "laser" /\ s' = job.power

(* Over a whole program, whatever the strategy, the number of toolpaths    *)
(* and the order of their moves: a mill travels only at the safe height,   *)
(* or back over the cut it has just made, goes down into the stock only    *)
(* straight, at the plunge rate and with the spindle on, and a laser       *)
(* travels with its beam off.  The safe height is above the part.          *)
TravelsAreSafe ==
    [][Running /\ line' # line /\ ForThisMachine =>
          IF Laser(job) THEN LaserStep(program[line])
          ELSE job.safe > Top + 1 => MillStep(program[line])]_vars

-----------------------------------------------------------------------------
(* What was asked for, without chains, scanlines, rows or emitters.        *)

Repeats == IF Laser(job) THEN job.repeats ELSE 1
Repeated(seq) == FlattenSeq([k \in 1..Repeats |-> seq])

\* Where to look at the part and how deep to cut there: the middle of each
\* layer of a mesh, or for one thinner than half a layer its bottom, unless
\* the pipeline has no fallback; the multiples of step_down and cut_depth
\* for a drawing.  A beam has no depth.
Levels ==
    LET lo     == Lo(Vertices(job.mesh), 3)
        layers == {h \in lo..Hi(Vertices(job.mesh), 3) : 2 * (h - lo) % (2 * job.down) = job.down}
        depths == {d \in job.depth..0 : d = job.depth \/ (d < 0 /\ d % job.down = 0)}
        thin   == job.strategy \in {"contour", "laser_cut"} \/ (job.worker /\ job.strategy = "slice")
        CutAt(h) == <<h, IF Laser(job) THEN 0 ELSE h>>
    IN  IF job.kind = "svg" THEN {CutAt(d) : d \in IF Laser(job) THEN {0} ELSE depths}
        ELSE IF layers # {} THEN {CutAt(h) : h \in layers}
        ELSE IF thin THEN {<<lo + 1, job.depth>>} ELSE {}

\* The section of a triangle: where its edges meet the plane.
Section(t, h) ==
    {Lerp(e[1], e[2], h) : e \in {e \in ToSet(t) \X ToSet(t) : e[1][3] < h /\ h < e[2][3]}}

\* The outlines at a height, as edges; those of a mesh all together.
Outlines(h) ==
    LET Edges(c) == LET n == Len(c.points)
                    IN  [i \in 1..(IF c.closed THEN n ELSE n - 1) |-> {c.points[i], c.points[(i % n) + 1]}]
    IN  IF job.kind = "svg" THEN Each(job.drawing, Edges)
        ELSE <<SelectSeq(Each(job.mesh, LAMBDA t : Section(t, h)), LAMBDA e : e # {})>>

Box(edges) == LET ps == UNION ToSet(edges) IN
    IF ps = {} THEN 0 ELSE (Hi(ps, 1) - Lo(ps, 1)) * (Hi(ps, 2) - Lo(ps, 2))

\* The edges to follow and how far beside each, as often as each pass says.
Tracks(h) ==
    LET outs == Outlines(h)
        outer == SelectSeq(outs, LAMBDA o : \A p \in ToSet(outs) : Box(o) >= Box(p))
        Beside(os, by) == Each(FlattenSeq(os), LAMBDA e : <<e, by>>)
    IN  IF job.strategy = "perimeter"
        THEN FlattenSeq([k \in 1..Max({job.passes, 1}) |-> Beside(outer, job.radius + (k - 1) * job.over)])
        ELSE Beside(outs, IF job.strategy = "laser_cut" /\ job.kind = "svg" THEN 0 ELSE job.radius)

XY(spot) == <<spot[1], spot[2]>>
Cuts == SelectSeq(moves, LAMBDA m : ~m.rapid)
Strokes == SelectSeq(Cuts, LAMBDA m : m.at # m.from)

\* Every edge is cut exactly once a pass at every level, and one contour
\* after the other, without leaving one before it is done.
FollowsTracks ==
    LET AtLevel(l) == Each(Tracks(l[1]), LAMBDA e : <<e[1], e[2], l[2]>>)
        wanted == FlattenSeq(Each(SetToSeq(Levels), AtLevel))
    IN  /\ ToBag(Each(Strokes, LAMBDA m : <<{XY(m.from), XY(m.at)}, m.at[5], m.z>>)) = ToBag(Repeated(wanted))
        /\ job.kind = "stl" /\ job.contours > 0 /\ job.strategy # "perimeter" =>
              Len(SelectSeq(moves, LAMBDA m : m.rapid)) = 2 * Repeats * job.contours * Cardinality(Levels) + 1

\* Inside, by a ray upwards where the code scans across.
Inside(edges, x, y) ==
    Len(SelectSeq(edges, LAMBDA e : \E a, b \in e :
            /\ a[1] <= x /\ x < b[1]
            /\ (a[2] - y) * (b[1] - a[1]) + (x - a[1]) * (b[2] - a[2]) > 0)) % 2 = 1

\* Of every row just what is inside, by the tool's radius, is cut, seen at
\* every fifth of a millimetre.
FillsRows ==
    LET engraved == job.strategy = "laser_engrave"
        inset    == IF engraved THEN 0 ELSE job.radius
        Ys(o)    == {p[2] : p \in UNION ToSet(o)}
        RowsOf(o) == ToSet(Steps(Min(Ys(o)) + inset, Max(Ys(o)) - inset, StepOver(job)))
        Closed(outs) == {o \in ToSet(outs) :
            Len(o) >= 3 /\ \A p \in UNION ToSet(o) : Len(SelectSeq(o, LAMBDA e : p \in e)) = 2}
        xs == {x \in (-100)..700 : x % 20 = 7}
    IN  \A l \in Levels :
            LET rows == [o \in Closed(Outlines(l[1])) |-> RowsOf(o)]
                mine == {m \in ToSet(Strokes) : m.z = l[2]}
            IN  \A y \in {m.at[2] : m \in mine} \cup UNION Range(rows) : \A x \in xs :
                    (\E m \in mine : /\ m.at[2] = y /\ m.from[2] = y
                                    /\ Min({m.from[1], m.at[1]}) < x /\ x < Max({m.from[1], m.at[1]}))
                    <=> (\E o \in DOMAIN rows : y \in rows[o] /\ \A d \in {-inset, 0, inset} : Inside(o, x + d, y))

\* The tool is brought to the lowest height that clears the part at every
\* point of the grid, always the same way if asked; in a spiral at no point
\* twice, and no farther than a step and a half from any point of the part.
CoversSurface ==
    LET Clear(p) == Max({job.roof[q] : q \in DiscSamples(p, job.radius) \cap DOMAIN job.roof})
        ends == {<<XY(m.at), m.z>> : m \in ToSet(Cuts)}
        Near(p, q) == \A i \in 1..2 : 2 * Max({p[i] - q[i], q[i] - p[i]}) <= 3 * job.over
        along == IF job.scan = "y" THEN 2 ELSE 1
        Tick(p, axis) == LET d == p[axis] - Lo(Vertices(job.mesh), axis)
                         IN  d % job.over = 0 \/ (axis = along /\ p[axis] = Hi(Vertices(job.mesh), axis))
        grid == {p \in job.places :
                    Tick(p, 1) /\ Tick(p, 2) /\ DiscSamples(p, job.radius) \cap DOMAIN job.roof # {}}
    IN  IF job.pattern = "spiral"
        THEN /\ \A e \in ends : e[2] = Clear(e[1])
             /\ Cardinality(ends) = Len(Cuts)
             /\ \A p \in DOMAIN job.roof : \E e \in ends : Near(p, e[1])
        ELSE /\ ends = {<<p, Clear(p)>> : p \in grid}
             /\ job.pattern = "one_way" => \A m \in ToSet(Strokes) : m.at[along] > m.from[along]

\* What the page plays as the simulation is what the machine does, unless
\* the form or the file changed while the program was made.
FollowsSim ==
    LET Look(m) == <<m.at, m.rapid, IF Laser(job) THEN 0 ELSE m.z>>
    IN  Each(Front(moves), Look) = Repeated(Each(sim, Look))

(* When a program has run, the workpiece is what was asked for when        *)
(* Generate was pressed: each contour of each layer or depth followed once *)
(* a pass, each pocket or engraving filled, the surface covered; and the   *)
(* machine has moved as the simulation shows.  Not if a layer passes       *)
(* through a corner of the mesh, and a job that comes to nothing may still *)
(* be shown.                                                               *)
CutsAsPlanned ==
    line > Len(program) /\ program # <<>> /\ ForThisMachine /\ gcode[1].type = Kind(gcode[1].file) =>
        /\ Cuts # <<>> /\ gcode[1].calm => FollowsSim
        /\ CASE job.kind = "stl" /\ job.strategy \in {"zigzag", "surface3d"} -> CoversSurface
              [] job.kind = "stl" /\ \E v \in Vertices(job.mesh), l \in Levels : v[3] = l[1] -> TRUE
              [] job.strategy = "pocket" \/ (job.strategy = "laser_engrave" /\ job.kind = "svg") -> FillsRows
              [] OTHER -> FollowsTracks
=============================================================================
