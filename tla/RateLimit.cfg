\* Three addresses in two buckets: two of them share one.
CONSTANTS
    Ip = {0, 1, 2}
    NumBuckets = 2
    Cap = 6
    Cost = 3
    Rate = 2
    Word = 16
SPECIFICATION Spec
INVARIANT TypeOK RateHonoured LazyRefillExact
