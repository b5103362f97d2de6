---------------------------- MODULE MCRetryBackoff ----------------------------
EXTENDS RetryBackoff
=============================================================================
