-------------------------- MODULE MCQueueEstimate --------------------------
\* One level, volumes of one and two contracts.
EXTENDS QueueEstimate
=============================================================================
