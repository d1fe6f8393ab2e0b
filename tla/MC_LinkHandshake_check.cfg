\* Two honest relays, or one of them replaced by an adversary that sends up
\* to six cells, with the initiator a public server or not and connecting
\* to the responder's identity or the adversary's.
CONSTANTS
    I = I
    R = R
    Adv = Adv
    NoOne = NoOne
    MaxAdv = 6
SPECIFICATION FairSpec
INVARIANTS
    TypeOK
    AuthenticatedPeerIsTlsPeer
    OpenPeerKnown
    HonestViewsAgree
PROPERTIES
    HonestHandshakeOpens
CHECK_DEADLOCK FALSE
