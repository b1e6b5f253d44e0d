\* Two extra variants in flight at once.
CONSTANTS
    Jobs = {1}
    Workers = {w1, w2}
    Claims = {c1}
    Posts = {p1, p2}
    Deletes = {}
    Media = {m1, m2, m3, m4, m5, m6}
    NoJob = 0
    NoWorker = NoWorker
    NoMedia = NoMedia
    NoAge = NoAge
    Timeout = 1
    MaxExtras = 2
SPECIFICATION Spec
PROPERTY ExtrasAreAppended
