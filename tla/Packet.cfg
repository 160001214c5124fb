SPECIFICATION Spec
CONSTANTS
    Word = 2000000000
    HeaderBytes <- MCHeaderBytes
    FieldBytes <- MCFieldBytes
    Sizes <- MCSizes
INVARIANTS TypeOK FrameConsumed BadLengthRefused OwnMessageAccepted
