SPECIFICATION FairSpec
CONSTANTS
    a = a b = b local = local none = none
    p1 = p1 p2 = p2
    Remote <- MCRemote
    Local = local
    Programs <- MCPrograms
    RequestLens <- MCRequestLens
    ResponseLens <- MCResponseLens
    SeqModulus = 2
    None = none
INVARIANTS AnswerMatchesRequest NoLostWakeup
PROPERTIES SubmittedProgramStable RetrievedWhenComplete ImplementsService 
