SPECIFICATION Spec
CONSTANTS
    mnist = mnist
    mnistCopy = mnistCopy
    resnet = resnet
    Executors = {c1, c3}
    Pollers = {}
    Models = {mnist}
    Flatbuffers = {}
    OutputDir <- MC_OutputDir
    NoError = NoError
    EmptyError = EmptyError
    MaxRuns = 2
    MaxPolls = 0
INVARIANT OneRunAtATime
CHECK_DEADLOCK FALSE
