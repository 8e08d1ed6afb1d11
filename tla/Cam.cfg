SPECIFICATION Spec
CONSTANTS
    Shapes <- AllShapes
    Jobs <- AllJobs
    OtherForms <- ContourForm
    OtherFiles = {"block", "square"}
INVARIANT CutsAsPlanned
PROPERTY TravelsAreSafe
CHECK_DEADLOCK FALSE
