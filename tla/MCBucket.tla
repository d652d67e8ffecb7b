------------------------------ MODULE MCBucket ------------------------------
EXTENDS Bucket

\* A key with a history and one with little of it.
DeepAndShallow == <<3, 1>>
=============================================================================
