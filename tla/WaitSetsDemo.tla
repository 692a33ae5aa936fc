---------------------------- MODULE WaitSetsDemo ----------------------------
(***************************************************************************)
(* The WaitSets sample of the Python binding                               *)
(* (samples/07_advanced/python/waitsets.py): one WaitSet holding the       *)
(* status conditions of the readers of SensorTopic and CommandTopic and a  *)
(* shutdown GuardCondition; main runs four write/wait/take scenarios, then *)
(* a background thread triggers the guard while main waits on it.          *)
(*                                                                         *)
(* A sample is abstracted to its topic: the serializers are exact inverses *)
(* and nothing main does depends on the values.  Both writers are         *)
(* reliable, so a sample written is delivered to its reader's cache, but  *)
(* after a delay the code does not bound (it sleeps 50 ms for it): a       *)
(* delivery is an action of its own that may come at any point.  As in    *)
(* RequestReply, wait returns True exactly when some attached condition    *)
(* is active when it returns: a reader with a sample in its cache or the   *)
(* triggered guard; the guard is never reset.                              *)
(***************************************************************************)
EXTENDS Naturals, Sequences

Topics == {"sensor", "command"}

(* Scenarios 1 to 4 of main: what each writes before its wait, and the    *)
(* readers whose take loop it runs, in order, when the wait returns True.  *)
Scenarios ==
    << [writes |-> {},                      takes |-> <<>>],
       [writes |-> {"sensor"},              takes |-> <<"sensor">>],
       [writes |-> {"command"},             takes |-> <<"command">>],
       [writes |-> {"sensor", "command"},   takes |-> <<"sensor", "command">>] >>

VARIABLES
    sc,        \* the scenario main is in (1 .. 4, then 5)
    step,      \* where main is within it
    ti,        \* the take loop running: an index into Scenarios[sc].takes
    inflight,  \* per topic, the samples written and not yet delivered
    cache,     \* per topic, the samples in the reader's cache
    guard,     \* the shutdown guard's trigger value
    tpc,       \* the trigger_shutdown thread
    reported   \* main printed "GuardCondition triggered - shutdown requested!"

vars == <<sc, step, ti, inflight, cache, guard, tpc, reported>>

(* Everything is created and attached; nothing is written yet.             *)
Init ==
    /\ sc = 1
    /\ step = "write"
    /\ ti = 1
    /\ inflight = [t \in Topics |-> 0]
    /\ cache = [t \in Topics |-> 0]
    /\ guard = FALSE
    /\ tpc = "unstarted"
    /\ reported = FALSE

(* waitset.wait(timeout): True when an attached condition is active.       *)
Ready == (\E t \in Topics : cache[t] > 0) \/ guard

(* On to the next scenario; after the fourth, scenario 5.                  *)
NextScenario ==
    /\ sc' = sc + 1
    /\ step' = IF sc + 1 \in DOMAIN Scenarios THEN "write" ELSE "start"
    /\ ti' = 1

(* The scenario's writer.write calls, then time.sleep(0.05).               *)
Write ==
    /\ step = "write"
    /\ inflight' = [t \in Topics |->
                      inflight[t] + (IF t \in Scenarios[sc].writes THEN 1 ELSE 0)]
    /\ step' = "wait"
    /\ UNCHANGED <<sc, ti, cache, guard, tpc, reported>>

(* if waitset.wait(timeout=timeout_secs): the take loops, else on.         *)
Wait ==
    /\ step = "wait"
    /\ IF Ready /\ Scenarios[sc].takes # <<>>
       THEN step' = "take" /\ UNCHANGED <<sc, ti>>
       ELSE NextScenario
    /\ UNCHANGED <<inflight, cache, guard, tpc, reported>>

(* One reader.take() of the running loop: a sample, or None, which ends   *)
(* that loop and starts the next one, or the scenario.                     *)
Take ==
    /\ step = "take"
    /\ LET t == Scenarios[sc].takes[ti] IN
       IF cache[t] > 0
       THEN cache' = [cache EXCEPT ![t] = @ - 1] /\ UNCHANGED <<sc, step, ti>>
       ELSE /\ UNCHANGED cache
            /\ IF ti < Len(Scenarios[sc].takes)
               THEN ti' = ti + 1 /\ UNCHANGED <<sc, step>>
               ELSE NextScenario
    /\ UNCHANGED <<inflight, guard, tpc, reported>>

(* A reliable sample reaches its reader's cache, at any time after the    *)
(* write.                                                                  *)
Deliver(t) ==
    /\ inflight[t] > 0
    /\ inflight' = [inflight EXCEPT ![t] = @ - 1]
    /\ cache' = [cache EXCEPT ![t] = @ + 1]
    /\ UNCHANGED <<sc, step, ti, guard, tpc, reported>>

(* Scenario 5: trigger_thread.start().                                     *)
StartTrigger ==
    /\ step = "start"
    /\ tpc' = "sleeping"
    /\ step' = "wait5"
    /\ UNCHANGED <<sc, ti, inflight, cache, guard, reported>>

(* trigger_shutdown: after time.sleep(0.2), shutdown_guard.trigger().      *)
(* main's wait(5.0) outlasts the sleep, so the trigger may come before    *)
(* or after main starts waiting.                                           *)
Trigger ==
    /\ tpc = "sleeping"
    /\ guard' = TRUE
    /\ tpc' = "done"
    /\ UNCHANGED <<sc, step, ti, inflight, cache, reported>>

(* if waitset.wait(timeout=5.0): print "shutdown requested!".              *)
Wait5 ==
    /\ step = "wait5"
    /\ reported' = Ready
    /\ step' = "join"
    /\ UNCHANGED <<sc, ti, inflight, cache, guard, tpc>>

(* trigger_thread.join().                                                  *)
Join ==
    /\ step = "join"
    /\ tpc = "done"
    /\ step' = "cleanup"
    /\ UNCHANGED <<sc, ti, inflight, cache, guard, tpc, reported>>

(* Cleanup: both readers and the guard detached, the guard and the        *)
(* WaitSet closed; main returns.                                           *)
Cleanup ==
    /\ step = "cleanup"
    /\ step' = "done"
    /\ UNCHANGED <<sc, ti, inflight, cache, guard, tpc, reported>>

Next ==
    \/ Write \/ Wait \/ Take
    \/ \E t \in Topics : Deliver(t)
    \/ StartTrigger \/ Trigger \/ Wait5 \/ Join \/ Cleanup

Spec == Init /\ [][Next]_vars

(* The type of every variable.                                             *)
TypeOK ==
    /\ sc \in 1 .. Len(Scenarios) + 1
    /\ step \in {"write", "wait", "take", "start", "wait5", "join", "cleanup", "done"}
    /\ ti \in 1 .. 2
    /\ inflight \in [Topics -> 0 .. 2]
    /\ cache \in [Topics -> 0 .. 2]
    /\ guard \in BOOLEAN
    /\ tpc \in {"unstarted", "sleeping", "done"}
    /\ reported \in BOOLEAN

(* Scenario 5 prints "GuardCondition triggered - shutdown requested!" only *)
(* when the guard had been triggered: the wake it reports is the guard's.  *)
(* The code takes any True from wait as the guard's, while wait is also   *)
(* True for a sample still in a reader's cache.                            *)
ShutdownOnlyOnGuard == [][Wait5 /\ reported' => guard]_vars
=============================================================================
