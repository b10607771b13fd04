SPECIFICATION Spec
CONSTANTS
    FilesPerMinute = 2
    MaxFileSize = 1
    Gap = 0
    Expiry = 1
    CacheMax = 2
    UploadMax = 1
    Nums = {2}
    MaxMinute = 2
    MaxRecords = 3
    Limits <- OneOfEach
    MaxEvents = 2
INVARIANTS ArchivingKeeps LossesHaveCauses FilesInOrder
PROPERTY SubmitKeepsCurrent
CHECK_DEADLOCK FALSE
