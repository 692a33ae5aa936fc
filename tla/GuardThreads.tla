--------------------------- MODULE GuardThreads ---------------------------
(***************************************************************************)
(* GuardCondition.trigger and GuardCondition.close (waitset.py) called    *)
(* from several Python threads on one guard.  Each method is split at the *)
(* points where another thread can run: between bytecodes, and during a    *)
(* ctypes foreign call, which releases the GIL.                            *)
(*                                                                         *)
(* trigger:  t_check   if not self._handle: raise                          *)
(*           t_call    lib.hdds_guard_condition_set_trigger(self._handle)  *)
(*                     (self._handle is read as the call starts)            *)
(* close:    c_check   if self._handle:                                     *)
(*           c_call    lib.hdds_guard_condition_release(self._handle)       *)
(*           c_clear   self._handle = None                                  *)
(***************************************************************************)
EXTENDS Naturals, FiniteSets

CONSTANTS
    Threads,   \* Python threads using the guard
    MaxCalls   \* method calls each thread makes

NULL == "None"
G == "guard"   \* the native guard's address

VARIABLES
    handle,    \* the guard's _handle: G or NULL
    released,  \* hdds_guard_condition_release has run
    pc,        \* pc[t]: where thread t is
    calls,     \* calls[t]: method calls thread t has started
    misuse     \* native calls made on the released guard

gvars == <<handle, released, pc, calls, misuse>>

GInit ==
    /\ handle = G
    /\ released = FALSE
    /\ pc = [t \in Threads |-> "idle"]
    /\ calls = [t \in Threads |-> 0]
    /\ misuse = {}

(* A native call on address h: on the released guard it is misuse.        *)
NativeCall(h, name) ==
    misuse' = IF h = G /\ released THEN misuse \cup {name} ELSE misuse

(* A thread starts trigger() or close().                                   *)
Start(t, m) ==
    /\ pc[t] = "idle"
    /\ calls[t] < MaxCalls
    /\ calls' = [calls EXCEPT ![t] = @ + 1]
    /\ pc' = [pc EXCEPT ![t] = m]
    /\ UNCHANGED <<handle, released, misuse>>

(* GuardCondition.trigger, its check: RuntimeError once _handle is None.  *)
TriggerCheck(t) ==
    /\ pc[t] = "t_check"
    /\ pc' = [pc EXCEPT ![t] = IF handle = NULL THEN "idle" ELSE "t_call"]
    /\ UNCHANGED <<handle, released, calls, misuse>>

(* ... and its native call on _handle as it is now, then check_error.     *)
TriggerCall(t) ==
    /\ pc[t] = "t_call"
    /\ NativeCall(handle, "set_trigger")
    /\ pc' = [pc EXCEPT ![t] = "idle"]
    /\ UNCHANGED <<handle, released, calls>>

(* GuardCondition.close, its check: nothing to do once _handle is None.   *)
CloseCheck(t) ==
    /\ pc[t] = "c_check"
    /\ pc' = [pc EXCEPT ![t] = IF handle = NULL THEN "idle" ELSE "c_call"]
    /\ UNCHANGED <<handle, released, calls, misuse>>

(* ... the native release of _handle as it is now ...                     *)
CloseCall(t) ==
    /\ pc[t] = "c_call"
    /\ NativeCall(handle, "release")
    /\ released' = (released \/ handle = G)
    /\ pc' = [pc EXCEPT ![t] = "c_clear"]
    /\ UNCHANGED <<handle, calls>>

(* ... and _handle = None.                                                  *)
CloseClear(t) ==
    /\ pc[t] = "c_clear"
    /\ handle' = NULL
    /\ pc' = [pc EXCEPT ![t] = "idle"]
    /\ UNCHANGED <<released, calls, misuse>>

GNext ==
    \E t \in Threads :
        \/ \E m \in {"t_check", "c_check"} : Start(t, m)
        \/ TriggerCheck(t) \/ TriggerCall(t)
        \/ CloseCheck(t) \/ CloseCall(t) \/ CloseClear(t)

GSpec == GInit /\ [][GNext]_gvars

-----------------------------------------------------------------------------

(* trigger is "Thread-safe: can be called from any thread", and close is  *)
(* "Safe to call multiple times": no native call, set_trigger or release, *)
(* ever reaches a guard that was already released.                        *)
NoCallOnReleased == misuse = {}
====
