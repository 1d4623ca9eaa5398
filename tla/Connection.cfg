SPECIFICATION FairSpec
CONSTANTS
    Packets = {"short", "long", "foreign", "refused", "oversize"}
    BodySize <- MCBodySize
    Garbage <- MCGarbage
    Invalid <- MCInvalid
    HeaderSize = 2
    MaxPacketSize = 2
    RecvBufSize = 5
    MaxSendBufSize = 7
    MaxSends = 3
PROPERTIES
    ChannelSpec
    ValidPeerKept
    TakenIsDelivered
