SPECIFICATION FairSpec
CONSTANTS
    Thread = {t1, t2}
    Capacity = 1
    Policy = "DiscardNewest"
    MaxSeq = 3
PROPERTIES CallsEnd
