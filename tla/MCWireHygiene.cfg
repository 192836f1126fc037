\* Every envelope up to the second bucket and a little beyond.
SPECIFICATION Spec
CONSTANTS
    Buckets <- FirstBuckets
    Framing <- PadFraming
    MaxPayload = 16500
    MaxSize = 16600
INVARIANTS
    TypeOK
    
PROPERTY
    Returns
\* One envelope is padded.
CHECK_DEADLOCK FALSE
