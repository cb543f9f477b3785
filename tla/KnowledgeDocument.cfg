SPECIFICATION Spec
CONSTANTS
    NoDocument = NoDocument
    s1 = s1
    s2 = s2
    s3 = s3
    d1 = d1
    Sessions = {s1, s2, s3}
    Documents = {d1}
INVARIANTS WhatIsDeletedIsGone IndexedIsRetrievable IngestingIsSomeones
SYMMETRY MCSymmetry
CHECK_DEADLOCK FALSE
