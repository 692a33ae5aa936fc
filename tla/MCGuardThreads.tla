--------------------------- MODULE MCGuardThreads ---------------------------
(* Two threads, two calls each: a waiter's thread and the main thread.    *)
EXTENDS GuardThreads

CONSTANTS t1, t2

MCThreads == {t1, t2}
MCMaxCalls == 2
=============================================================================
