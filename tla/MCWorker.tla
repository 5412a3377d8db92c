------------------------------ MODULE MCWorker ------------------------------
\* Instances of the worker for TLC.
EXTENDS WorkerProperties
=============================================================================
