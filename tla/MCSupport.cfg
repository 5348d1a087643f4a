\* One of the three installer files stands for all; one write and one failure anywhere.
SPECIFICATION QuietUploads
CONSTANTS
    Absent = Absent
    None = None
    Choices <- MCChoices
    MaxWrites = 1
    MaxFaults = 1
    HeadSize = 1
    MaxLines = 1
INVARIANTS SupportTypeOK ItemKept LastWriteKept  StoredAsAnnounced PlainOnlyByRedirect
PROPERTIES FailuresListed OthersRelocated UploadEnds
