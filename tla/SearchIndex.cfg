\* Two snippets that share a word, jobs in order or not, one search at a time.
SPECIFICATION FairSpec
CONSTANTS
    w1 = w1
    w2 = w2
    Snippets = {s1, s2}
    Words = {w1, w2}
    Texts <- SomeTexts
    Queries <- SomeQueries
    Callers = {c1}
    MaxWrites = 4
    MaxMembers = 1
    ResultTTL = 2
    NULL = NULL
INVARIANTS
    IInv
    FirstTextFindable
    DeleteUnindexes
PROPERTIES
    KeptAnswersSettle
