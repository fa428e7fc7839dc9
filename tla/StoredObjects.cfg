SPECIFICATION Spec
CONSTANTS
    Types = {"IdentityValidationInfo", "Group", "User", "ACLEntry", "Realm", "Repo", "Dockerfile",
             "DockerImage", "DockerImageVersion", "ScanConfig", "ScanParameterValue", "Flag",
             "ScanEvent", "DockerfileExecEvent", "DockerfileExecParameterValue"}
    Words = {"", "7", "time"}
    Bytes = {7, 255}
    Date = "2016-05-04"
    MaxLen = 2
    MaxChanges = 2
INVARIANTS TypeOK RoundTrips NeverMisread
