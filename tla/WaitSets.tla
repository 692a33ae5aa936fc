------------------------------ MODULE WaitSets ------------------------------
(***************************************************************************)
(* GuardCondition and WaitSet of the Python binding (waitset.py), over the *)
(* entity layer of Entities: a WaitSet holds readers' status conditions    *)
(* and guard conditions, and those readers can be destroyed by             *)
(* Participant.close while they are attached.                              *)
(*                                                                         *)
(* A WaitSet keeps two Python mirrors of what it attached to the native    *)
(* waitset, _attached_readers and _attached_guards; natt[w] is the set of  *)
(* native conditions the native waitset w really holds.  Every native      *)
(* call goes through check_error (_native.py), which raises on any result  *)
(* but OK: a call on a NULL handle fails, and a call on live handles may   *)
(* still fail (the model lets it).                                         *)
(***************************************************************************)
EXTENDS Entities

VARIABLES
    attached_readers,  \* attached_readers[w]: WaitSet._attached_readers
    attached_guards,   \* attached_guards[w]: WaitSet._attached_guards
    natt               \* natt[w]: the conditions the native waitset holds

wvars == <<attached_readers, attached_guards, natt>>
allvars == <<vars, wvars>>

WInit ==
    /\ Init
    /\ attached_readers = [w \in Handles |-> <<>>]
    /\ attached_guards = [w \in Handles |-> <<>>]
    /\ natt = [w \in Handles |-> {}]

(* The native status condition that get_status_condition returned for r.  *)
ReaderCond(r) == CHOOSE h \in Handles : kind[h] = "status_condition" /\ parent[h] = r

(* The outcome of a native call on handles hs, as check_error sees it: a  *)
(* NULL handle always fails; otherwise the call may succeed or fail.      *)
NativeOutcomes(hs) == IF NULL \in hs THEN {FALSE} ELSE BOOLEAN

(* list.remove(x): the sequence without the first occurrence of x.        *)
ListRemove(s, x) == RemoveAt(s, SelectInSeq(s, LAMBDA y : y = x))

(* Entity operations that leave the WaitSet state alone.                   *)
EntityStep(A) == A /\ UNCHANGED wvars

(* GuardCondition(): hdds_guard_condition_create.                          *)
NewGuard ==
    /\ Spawn(NULL, "guard_condition")
    /\ UNCHANGED <<dlog, children, status_cond, stale>>
    /\ UNCHANGED wvars

(* WaitSet(): hdds_waitset_create, with empty mirrors.                     *)
NewWaitSet ==
    /\ Spawn(NULL, "waitset")
    /\ UNCHANGED <<dlog, children, status_cond, stale>>
    /\ UNCHANGED wvars

(* GuardCondition.trigger: RuntimeError once closed, else the native      *)
(* set_trigger call.                                                       *)
Trigger(g) ==
    /\ kind[g] = "guard_condition"
    /\ handle[g] # NULL
    /\ Call(g, "set_trigger")
    /\ UNCHANGED wvars

(* GuardCondition.close: hdds_guard_condition_release once, then None.     *)
(* Nothing detaches it from a WaitSet that holds it.                       *)
CloseGuard(g) ==
    /\ kind[g] = "guard_condition"
    /\ handle[g] # NULL
    /\ live' = live \ {g}
    /\ dlog' = Append(dlog, g)
    /\ handle' = [handle EXCEPT ![g] = NULL]
    /\ UNCHANGED <<next, kind, parent, children, status_cond, stale>>
    /\ UNCHANGED wvars

(* attach_reader with a membership check that is missing.                  *)
AttachReaderNoDedup(w, r) ==
    /\ kind[w] = "waitset" /\ kind[r] = "reader"
    /\ handle[r] # NULL
    /\ LET c == IF status_cond[r] = NULL THEN next ELSE status_cond[r]
       IN  /\ IF status_cond[r] = NULL
                 THEN /\ Spawn(handle[r], "status_condition")
                      /\ status_cond' = [status_cond EXCEPT ![r] = next]
                 ELSE /\ UNCHANGED <<next, kind, parent, live, handle, status_cond>>
           /\ \E ok \in NativeOutcomes({handle[w], c}) :
                 /\ natt' = IF ok THEN [natt EXCEPT ![w] = @ \cup {c}] ELSE natt
                 /\ attached_readers' = IF ok THEN [attached_readers EXCEPT ![w] = Append(@, r)]
                                        ELSE attached_readers
    /\ stale' = stale \cup StaleCall(handle[r])
    /\ UNCHANGED <<dlog, children, attached_guards>>

(* WaitSet.attach_reader: nothing if r is already in _attached_readers;   *)
(* else reader.get_status_condition() (RuntimeError on a destroyed reader, *)
(* and the condition is created and cached on first use, even when the    *)
(* attach then fails), the native attach, check_error, and only then the  *)
(* append.                                                                  *)
AttachReader(w, r) ==
    /\ r \notin ToSet(attached_readers[w])
    /\ AttachReaderNoDedup(w, r)

(* WaitSet.detach_reader: nothing if r is not attached; else              *)
(* reader.get_status_condition(), which raises on a destroyed reader, the *)
(* native detach, check_error, then the removal of r from the list.       *)
DetachReader(w, r) ==
    /\ kind[w] = "waitset"
    /\ r \in ToSet(attached_readers[w])
    /\ handle[r] # NULL
    /\ \E ok \in NativeOutcomes({handle[w], status_cond[r]}) :
          /\ natt' = IF ok THEN [natt EXCEPT ![w] = @ \ {status_cond[r]}] ELSE natt
          /\ attached_readers' =
                IF ok THEN [attached_readers EXCEPT ![w] = ListRemove(@, r)]
                ELSE attached_readers
    /\ stale' = stale \cup StaleCall(handle[r])
    /\ UNCHANGED <<next, kind, parent, live, dlog, handle, children, status_cond>>
    /\ UNCHANGED attached_guards

(* WaitSet.attach_guard / detach_guard: the guard's _handle (None once    *)
(* closed) is passed as it is; check_error, then the list is changed.     *)
AttachGuard(w, g) ==
    /\ kind[w] = "waitset" /\ kind[g] = "guard_condition"
    /\ g \notin ToSet(attached_guards[w])
    /\ \E ok \in NativeOutcomes({handle[w], handle[g]}) :
          /\ natt' = IF ok THEN [natt EXCEPT ![w] = @ \cup {g}] ELSE natt
          /\ attached_guards' = IF ok THEN [attached_guards EXCEPT ![w] = Append(@, g)]
                                ELSE attached_guards
    /\ UNCHANGED <<next, kind, parent, live, dlog, handle, children, status_cond, stale>>
    /\ UNCHANGED attached_readers

DetachGuard(w, g) ==
    /\ kind[w] = "waitset"
    /\ g \in ToSet(attached_guards[w])
    /\ \E ok \in NativeOutcomes({handle[w], handle[g]}) :
          /\ natt' = IF ok THEN [natt EXCEPT ![w] = @ \ {g}] ELSE natt
          /\ attached_guards' =
                IF ok THEN [attached_guards EXCEPT ![w] = ListRemove(@, g)]
                ELSE attached_guards
    /\ UNCHANGED <<next, kind, parent, live, dlog, handle, children, status_cond, stale>>
    /\ UNCHANGED attached_readers

(* WaitSet.wait: RuntimeError once closed, else one native wait.  Its     *)
(* result (OK, NOT_FOUND on timeout, another code raised) changes nothing *)
(* the binding keeps.                                                      *)
Wait(w) ==
    /\ kind[w] = "waitset"
    /\ handle[w] # NULL
    /\ UNCHANGED allvars

(* WaitSet.close: hdds_waitset_destroy once, None, both lists cleared.    *)
CloseWaitSet(w) ==
    /\ kind[w] = "waitset"
    /\ handle[w] # NULL
    /\ live' = live \ {w}
    /\ dlog' = Append(dlog, w)
    /\ handle' = [handle EXCEPT ![w] = NULL]
    /\ natt' = [natt EXCEPT ![w] = {}]
    /\ attached_readers' = [attached_readers EXCEPT ![w] = <<>>]
    /\ attached_guards' = [attached_guards EXCEPT ![w] = <<>>]
    /\ UNCHANGED <<next, kind, parent, children, status_cond, stale>>

(* Every entity operation of Entities, and every WaitSet operation.        *)
WNext ==
    \/ EntityStep(Next)
    \/ NewGuard \/ NewWaitSet
    \/ \E g \in Handles : Trigger(g) \/ CloseGuard(g)
    \/ \E w, r \in Handles : AttachReader(w, r) \/ DetachReader(w, r)
    \/ \E w, g \in Handles : AttachGuard(w, g) \/ DetachGuard(w, g)
    \/ \E w \in Handles : Wait(w) \/ CloseWaitSet(w)

WSpec == WInit /\ [][WNext]_allvars

-----------------------------------------------------------------------------

WTypeOK ==
    /\ TypeOK
    /\ \A w \in Handles :
          /\ attached_readers[w] \in Seq(Handles)
          /\ attached_guards[w] \in Seq(Handles)
          /\ natt[w] \subseteq Handles

(* The Python mirrors and the native waitset agree: after any sequence of *)
(* attach and detach calls, some failing in check_error, on readers and   *)
(* guards that may be attached twice, destroyed or closed meanwhile, the  *)
(* native waitset holds exactly the status conditions of the readers in   *)
(* _attached_readers and the guards in _attached_guards, each listed once. *)
MirrorMatchesNative ==
    \A w \in Handles :
        /\ natt[w] = {ReaderCond(r) : r \in ToSet(attached_readers[w])}
                      \cup ToSet(attached_guards[w])
        /\ IsInjective(attached_readers[w])
        /\ IsInjective(attached_guards[w])
====
