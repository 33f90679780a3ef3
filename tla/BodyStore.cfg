\* Three rows, two of them with the same content, stored again and again.
SPECIFICATION StoreFairSpec
CONSTANTS
    w1 = w1
    w2 = w2
    w3 = w3
    b1 = b1
    b2 = b2
    Writers = {w1, w2, w3}
    Bodies = {b1, b2}
    Content <- SharedContent
INVARIANTS Inv
PROPERTIES OrphanIsRemoved
