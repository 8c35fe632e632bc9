SPECIFICATION FairSpec
CONSTANTS
    t1 = t1
    t2 = t2
    peer1 = peer1
    peer2 = peer2
    Tx = {t1, t2}
    Peer = {peer1, peer2}
    Hub = {peer1, peer2}
    EventHub0 = peer1
INVARIANTS
    ResolvedIsCommitted
    RejectionIsDefinite
    ListenersAccounted
    EventsOnce
PROPERTIES
    AnswerFinal
    Answered
CHECK_DEADLOCK FALSE
