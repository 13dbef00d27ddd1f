SPECIFICATION Spec
CONSTANTS
    id1 = id1
    doc1 = doc1
    doc2 = doc2
    Ids = {id1}
    Contents = {doc1, doc2}
    MaxRevision = 2
    Subjects <- OneRevision
    Legacy <- LegacyFirst
    Credentials = {c1}
    Deciders = {api, cli}
    Cli = cli
    Importer = importer
    Ttl = 2
    MaxChallenges = 2
    MaxTime = 4
INVARIANTS
    NumberedWithoutGaps
    
    DecisionsAreConfirmed
    
    RevokedAttestsNothing
CHECK_DEADLOCK FALSE
