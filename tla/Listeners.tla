----------------------------- MODULE Listeners -----------------------------
(***************************************************************************)
(* Listener installation in the Python binding (listener.py).              *)
(*                                                                         *)
(* Each call of a listener's _to_c_listener wraps its methods in a fresh   *)
(* set of CFUNCTYPE thunks (a generation, numbered 1, 2, ...), stores them *)
(* on self._c_callbacks and returns a struct pointing at them, which       *)
(* set_*_listener stores on listener._active_c_listener.  The native      *)
(* entity calls whatever thunks it was last given.  A generation is alive  *)
(* while a listener still refers to it; once none does, Python frees it.  *)
(* Listener objects themselves stay referenced by the application.        *)
(***************************************************************************)
EXTENDS Naturals, FiniteSets

CONSTANTS
    Readers, Writers,                   \* reader and writer handles
    ReaderListeners, WriterListeners,   \* ReaderListener / WriterListener objects
    MaxGen                              \* bound on _to_c_listener calls

NONE == 0
Listeners == ReaderListeners \cup WriterListeners
EntitySet == Readers \cup Writers

VARIABLES
    gen,        \* thunk generations created so far
    cbs,        \* cbs[l]: the generation in l._c_callbacks (NONE before)
    active,     \* active[l]: the generation of l._active_c_listener
    installed,  \* installed[e]: the generation the native entity calls
    crashed     \* entities whose native callback ran freed thunks

lvars == <<gen, cbs, active, installed, crashed>>

(* The generations some listener object still refers to.                  *)
Held == {cbs[l] : l \in Listeners} \cup {active[l] : l \in Listeners}

LInit ==
    /\ gen = 0
    /\ cbs = [l \in Listeners |-> NONE]
    /\ active = [l \in Listeners |-> NONE]
    /\ installed = [e \in EntitySet |-> NONE]
    /\ crashed = {}

(* ReaderListener._to_c_listener / WriterListener._to_c_listener: a new   *)
(* generation, whose thunks call l's methods, replaces l._c_callbacks.    *)
ToCListener(l) ==
    /\ gen < MaxGen
    /\ gen' = gen + 1
    /\ cbs' = [cbs EXCEPT ![l] = gen + 1]

(* set_*_listener: _to_c_listener, the native set call, the struct stored *)
(* on listener._active_c_listener, and only then check_error; a failed    *)
(* call leaves the entity with what it had.                                *)
SetListener(e, l) ==
    /\ ToCListener(l)
    /\ active' = [active EXCEPT ![l] = gen + 1]
    /\ \E ok \in BOOLEAN :
          installed' = IF ok THEN [installed EXCEPT ![e] = gen + 1] ELSE installed
    /\ UNCHANGED crashed

SetReaderListener(e, l) ==
    /\ e \in Readers /\ l \in ReaderListeners
    /\ SetListener(e, l)

SetWriterListener(e, l) ==
    /\ e \in Writers /\ l \in WriterListeners
    /\ SetListener(e, l)

(* clear_*_listener: the native clear call and check_error; the listener  *)
(* keeps its references.                                                   *)
ClearListener(e) ==
    /\ \E ok \in BOOLEAN :
          installed' = IF ok THEN [installed EXCEPT ![e] = NONE] ELSE installed
    /\ UNCHANGED <<gen, cbs, active, crashed>>

ClearReaderListener(e) ==
    /\ e \in Readers
    /\ ClearListener(e)

ClearWriterListener(e) ==
    /\ e \in Writers
    /\ ClearListener(e)

(* The native entity invokes an installed callback (_on_data_available,  *)
(* _on_publication_matched, ...) of the generation it was given.         *)
Callback(e) ==
    /\ installed[e] # NONE
    /\ crashed' = IF installed[e] \in Held THEN crashed ELSE crashed \cup {e}
    /\ UNCHANGED <<gen, cbs, active, installed>>

(* A reader's thunks: _on_data_available, _on_subscription_matched,       *)
(* _on_liveliness_changed, _on_sample_lost, _on_sample_rejected,          *)
(* _on_deadline_missed, _on_incompatible_qos.                              *)
ReaderCallback(e) ==
    /\ e \in Readers
    /\ Callback(e)

(* A writer's thunks: _on_sample_written, _on_publication_matched,        *)
(* _on_offered_deadline_missed, _on_offered_incompatible_qos,             *)
(* _on_liveliness_lost.                                                    *)
WriterCallback(e) ==
    /\ e \in Writers
    /\ Callback(e)

LNext ==
    \/ \E e \in EntitySet, l \in Listeners : SetReaderListener(e, l) \/ SetWriterListener(e, l)
    \/ \E e \in EntitySet : ClearReaderListener(e) \/ ClearWriterListener(e)
    \/ \E e \in EntitySet : ReaderCallback(e) \/ WriterCallback(e)

LSpec == LInit /\ [][LNext]_lvars

-----------------------------------------------------------------------------

(* The thunks of an installed listener are kept from garbage collection   *)
(* "while the listener is active" (_to_c_listener's docstring, and the    *)
(* comment on _active_c_listener, "to keep it alive"): no native callback *)
(* ever runs thunks Python has freed.                                      *)
CallbacksAlive == crashed = {}
====
