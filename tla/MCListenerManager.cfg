CONSTANTS
    Keys = {k1, k2}
    Listeners = {l1, l2, l3}
    NoListener = NoListener
SPECIFICATION Spec
INVARIANTS TypeOK RegisteredIsLive
PROPERTIES StoppedListenerEnds ShutdownEndsListeners
