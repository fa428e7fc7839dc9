SPECIFICATION Spec
CONSTANTS
    Types = {"Dockerfile", "DockerfileExecEvent"}
    Words = {"", "7", "time"}
    Bytes = {7, 255}
    Date = "2016-05-04"
    MaxLen = 2
    MaxChanges = 2
INVARIANT StoredObjectsReadable
