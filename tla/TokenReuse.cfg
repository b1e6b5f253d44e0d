\* Two calls of generate, one accepted job.
CONSTANTS
    Clicks = {c1, c2}
    MaxJobs = 1
    Limit = 1
SPECIFICATION Spec
PROPERTIES
    TokenIsOneShot
