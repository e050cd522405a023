SPECIFICATION FairSpec
CONSTANTS
    Worker = {w1, w2}
    Nil = Nil
    Corpus <- Articles
    chunkSize = 2
    MaxFaults = 3
    MaxRestarts = 1
CHECK_DEADLOCK FALSE
INVARIANTS TypeOK OnePlace NothingLost SuccessIndexed CorpusIndexed
PROPERTIES ResultFinal OrphanForever ProducerReturns
