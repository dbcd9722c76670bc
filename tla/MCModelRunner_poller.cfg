SPECIFICATION Spec
CONSTANTS
    mnist = mnist
    mnistCopy = mnistCopy
    resnet = resnet
    Executors = {c1}
    Pollers = {c2}
    Models = {mnist, mnistCopy, resnet}
    Flatbuffers = {resnet}
    OutputDir <- MC_OutputDir
    NoError = NoError
    EmptyError = EmptyError
    MaxRuns = 2
    MaxPolls = 1
INVARIANTS StatusHonest ArtifactsMatch
PROPERTIES RunsEnd PollsReturn
CHECK_DEADLOCK FALSE
