------------------------------ MODULE Machining ------------------------------
(***************************************************************************)
(* From a job to a program: the three pipelines of crates/rustcam          *)
(* (process_*_impl on the page's main thread, process_*_progress in its    *)
(* web worker, build_toolpaths_* for the simulation it shows) and the      *)
(* G-code emitters.                                                        *)
(*                                                                         *)
(* A job is a configuration together with what is to be machined: a mesh   *)
(* from an STL file or polylines from an SVG file.                         *)
(***************************************************************************)
EXTENDS Toolpaths

Laser(job) == job.machine = "laser_cutter"

CncStrategies   == {"contour", "pocket", "slice", "zigzag", "surface3d", "perimeter"}
LaserStrategies == {"contour", "pocket", "perimeter", "laser_cut", "laser_engrave"}
validate_strategy(job) == job.strategy \in (IF Laser(job) THEN LaserStrategies ELSE CncStrategies)

-----------------------------------------------------------------------------
(* Toolpaths of a job.                                                     *)

GeneratePaths(strategy, contours, z, cfg) ==
    CASE strategy = "pocket"        -> PocketStrategy(contours, z, cfg)
      [] strategy = "perimeter"     -> PerimeterStrategy(contours, z, cfg)
      [] strategy = "laser_cut"     -> LaserCutStrategy(contours, cfg)
      [] strategy = "laser_engrave" -> LaserEngraveStrategy(contours, cfg)
      [] OTHER                      -> ContourStrategy(contours, z, cfg)

\* The strategies a mesh's layers know, and the worker: all others are contours.
MillStrategy(job) == IF job.strategy \in {"pocket", "perimeter"} THEN job.strategy ELSE "contour"

\* Layer by layer; if nothing came of it and the pipeline falls back, one
\* section a hundredth above the bottom, cut at cut_depth.
MeshToolpaths(job, fallsBack) ==
    LET layers == slice_mesh(job.mesh, job.down)
        all    == FlattenSeq(Each(layers, LAMBDA l : GeneratePaths(MillStrategy(job), l.contours, l.z, job)))
        bottom == slice_at_z(job.mesh, Lo(Vertices(job.mesh), 3) + 1)
    IN  IF job.mesh = <<>> THEN <<>>
        ELSE IF job.strategy \in {"surface3d", "zigzag"} THEN generate_surface(job.mesh, job)
        ELSE IF all = <<>> /\ fallsBack THEN GeneratePaths(MillStrategy(job), bottom, job.depth, job)
        ELSE all

process_stl(job) == MeshToolpaths(job, job.strategy \notin {"pocket", "slice", "perimeter"})
process_stl_progress(job) == MeshToolpaths(job, job.strategy \notin {"pocket", "perimeter"})
build_toolpaths_stl(job) == MeshToolpaths(job, TRUE)

\* From the top of the stock down by step_down, the last pass at cut_depth.
Depths(job) ==
    IF job.depth > 0 THEN <<>>
    ELSE [k \in 1..Max({1, (job.down - 1 - job.depth) \div job.down}) |-> Max({-k * job.down, job.depth})]

DrawnToolpaths(job, strategy, flat) ==
    IF flat THEN GeneratePaths(strategy, job.drawing, job.depth, job)
    ELSE FlattenSeq(Each(Depths(job), LAMBDA z : GeneratePaths(strategy, job.drawing, z, job)))

process_svg(job) == DrawnToolpaths(job, job.strategy, Laser(job))
process_svg_progress(job) == DrawnToolpaths(job, MillStrategy(job), FALSE)
build_toolpaths_svg(job) == DrawnToolpaths(job, job.strategy, Laser(job))

-----------------------------------------------------------------------------
(* G-code.  A line has a word and, as sequences of at most one value, what *)
(* it says of the place, the height, the feed and S.                       *)

Code(word, at, z, f, s) == [word |-> word, at |-> at, z |-> z, f |-> f, s |-> s]
Plain(word) == Code(word, <<>>, <<>>, <<>>, <<>>)
RetractLine(job) == Code("G0", <<>>, <<job.safe>>, <<>>, <<>>)
HomeLine == Code("G0", <<Spot(<<0, 0>>)>>, <<>>, <<>>, <<>>)

\* The first cut after a rapid that goes below the safe height is a plunge.
CncLines(path, job) ==
    [i \in DOMAIN path |->
        LET mv == path[i]
            lastRapid == i = 1 \/ path[i - 1].rapid
        IN  IF mv.rapid THEN Code("G0", <<mv.at>>, <<mv.z>>, <<>>, <<>>)
            ELSE Code("G1", <<mv.at>>, <<mv.z>>,
                      <<IF mv.z < job.safe - 1 /\ lastRapid THEN "plunge" ELSE "feed">>, <<>>)]

\* The profile's emitter, and the older emit_gcode, whose end has no M9.
MillProgram(paths, job, coolant) ==
    <<Plain("G21"), Plain("G90"), RetractLine(job), Code("M3", <<>>, <<>>, <<>>, <<job.speed>>)>>
    \o FlattenSeq(Each(paths, LAMBDA p : CncLines(p, job)))
    \o <<RetractLine(job), Plain("M5")>> \o coolant \o <<HomeLine, Plain("M2")>>
emit_gcode_cnc(paths, job) == MillProgram(paths, job, <<Plain("M9")>>)
emit_gcode(paths, job) == MillProgram(paths, job, <<>>)

\* As if G0 alone switched the beam off.
FaultyLaserLines(path, job) ==
    Each(path, LAMBDA mv :
        IF mv.rapid THEN Code("G0", <<mv.at>>, <<>>, <<>>, <<>>)
        ELSE Code("G1", <<mv.at>>, <<>>, <<"feed">>, <<job.power>>))

LaserLines(path, job) ==
    Each(path, LAMBDA mv :
        IF mv.rapid THEN Code("G0", <<mv.at>>, <<>>, <<>>, <<0>>)
        ELSE Code("G1", <<mv.at>>, <<>>, <<"feed">>, <<IF mv.power # NoPower THEN mv.power ELSE job.power>>))

emit_gcode_laser(paths, job) ==
    LET pass == FlattenSeq(Each(paths, LAMBDA p : LaserLines(p, job)))
    IN  <<Plain("G21"), Plain("G90"), Code("M4", <<>>, <<>>, <<>>, <<0>>)>>
        \o (IF job.air THEN <<Plain("M8")>> ELSE <<>>)
        \o FlattenSeq([k \in 1..job.repeats |-> pass])
        \o (IF job.air THEN <<Plain("M9")>> ELSE <<>>)
        \o <<Plain("M5"), HomeLine, Plain("M2")>>

\* The main thread checks the strategy and obeys the machine's profile; the
\* worker does neither.
Program(job) ==
    IF job.worker
    THEN emit_gcode(IF job.kind = "stl" THEN process_stl_progress(job) ELSE process_svg_progress(job), job)
    ELSE LET paths == IF job.kind = "stl" THEN process_stl(job) ELSE process_svg(job)
         IN  IF ~validate_strategy(job) THEN <<>>
             ELSE IF Laser(job) THEN emit_gcode_laser(paths, job)
             ELSE emit_gcode_cnc(paths, job)

SimMoves(job) ==
    FlattenSeq(IF job.kind = "stl" THEN build_toolpaths_stl(job) ELSE build_toolpaths_svg(job))
=============================================================================
