\* Two jobs, one daemon, two concurrent claims, one result at a time. No
\* symmetry: the properties are liveness properties.
CONSTANTS
    Jobs = {1, 2}
    Workers = {w1}
    Claims = {c1, c2}
    Posts = {p1}
    Deletes = {}
    Media = {m1, m2, m3}
    NoJob = 0
    NoWorker = NoWorker
    NoMedia = NoMedia
    NoAge = NoAge
    Timeout = 0
    MaxExtras = 0
SPECIFICATION RenderingSpec
PROPERTIES
    EveryJobFinishes
    StuckJobsMoveOn
