\* A primary variant written on a job that is no longer claimed.
CONSTANTS
    Jobs = {1}
    Workers = {w1, w2}
    Claims = {c1, c2}
    Posts = {p1, p2}
    Deletes = {}
    Media = {m1, m2, m3}
    NoJob = 0
    NoWorker = NoWorker
    NoMedia = NoMedia
    NoAge = NoAge
    Timeout = 1
    MaxExtras = 1
SPECIFICATION Spec
PROPERTY PrimaryOnlyWhileClaimed
