----------------------------- MODULE MCBucketMap ------------------------------
EXTENDS BucketMap

MCMember == 1 .. 4
=============================================================================
