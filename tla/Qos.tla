-------------------------------- MODULE Qos --------------------------------
(***************************************************************************)
(* The QoS builder of the Python binding (qos.py) and the QoS objects the  *)
(* endpoints keep (entities.py, participant.py).                           *)
(*                                                                         *)
(* A QoS object wraps a native profile, vals[q], a record of the policies  *)
(* the binding sets and reads.  Factories fill a fresh object; every       *)
(* fluent builder method changes the profile in place and returns self;   *)
(* create_writer / create_reader hand the native call the profile as it    *)
(* is then and keep the QoS object itself on the endpoint (_qos), which   *)
(* the endpoint's qos property returns.  Values the binding does not set   *)
(* come from the native library and are the model value Native.           *)
(***************************************************************************)
EXTENDS Integers, FiniteSets

CONSTANTS
    QosObjs,      \* Python QoS objects
    Endpoints,    \* DataWriter / DataReader objects
    Native,       \* a policy value chosen by the native library
    KeepAll,      \* the KEEP_ALL history kind
    SysMaxsize,   \* sys.maxsize
    Millis,       \* millisecond and second arguments
    Depths,       \* history depths
    Names,        \* partition names
    MaxBuilds     \* bound on builder calls

Fields == {"rel", "dur", "depth", "deadline", "lifespan", "live", "lease",
           "own", "strength", "parts", "tbf", "latency", "prio", "limits"}

(* The native profile of hdds_qos_default, as its docstring has it:       *)
(* BestEffort, Volatile, KeepLast(100), no partition.                     *)
DefaultProfile ==
    [f \in Fields |->
        CASE f = "rel" -> "best_effort"
          [] f = "dur" -> "volatile"
          [] f = "depth" -> 100
          [] f = "parts" -> {}
          [] OTHER -> Native]

(* The profile each factory method asks the native library for.           *)
Preset(f) ==
    CASE f = "default" -> DefaultProfile
      [] f = "reliable" -> [DefaultProfile EXCEPT !.rel = "reliable"]
      [] f = "best_effort" -> DefaultProfile
      [] OTHER -> [g \in Fields |-> IF g = "parts" THEN {} ELSE Native]

Factories == {"default", "reliable", "best_effort", "rti_defaults",
              "from_file", "from_fastdds_xml"}

VARIABLES
    alive,    \* QoS objects created so far
    vals,     \* vals[q]: the native profile behind q._handle
    ep_qos,   \* ep_qos[e]: e._qos, the QoS object the endpoint keeps
    ep_prof,  \* ep_prof[e]: the profile passed to the native create call
    builds    \* builder calls made so far

qvars == <<alive, vals, ep_qos, ep_prof, builds>>

NoQos == "none"   \* e._qos before the endpoint exists

QInit ==
    /\ alive = {}
    /\ vals = [q \in QosObjs |-> DefaultProfile]
    /\ ep_qos = [e \in Endpoints |-> NoQos]
    /\ ep_prof = [e \in Endpoints |-> DefaultProfile]
    /\ builds = 0

(* QoS.default / reliable / best_effort / rti_defaults / from_file /      *)
(* from_fastdds_xml: a native profile in a fresh, owned QoS object.       *)
NewQos(q, f) ==
    /\ q \notin alive
    /\ alive' = alive \cup {q}
    /\ vals' = [vals EXCEPT ![q] = Preset(f)]
    /\ UNCHANGED <<ep_qos, ep_prof, builds>>

(* QoS.clone: hdds_qos_clone, a deep copy in a fresh object.              *)
Clone(q, c) ==
    /\ q \in alive /\ c \notin alive
    /\ alive' = alive \cup {c}
    /\ vals' = [vals EXCEPT ![c] = vals[q]]
    /\ UNCHANGED <<ep_qos, ep_prof, builds>>

(* The fluent builder methods, each the profile it leaves.                 *)
TransientLocal(r) == [r EXCEPT !.dur = "transient_local"]
Volatile(r) == [r EXCEPT !.dur = "volatile"]
Persistent(r) == [r EXCEPT !.dur = "persistent"]
HistoryDepth(r, d) == [r EXCEPT !.depth = d]
HistoryKeepAll(r) == [r EXCEPT !.depth = KeepAll]
SetReliable(r) == [r EXCEPT !.rel = "reliable"]
SetBestEffort(r) == [r EXCEPT !.rel = "best_effort"]
DeadlineMs(r, m) == [r EXCEPT !.deadline = m * 1000000]
DeadlineSecs(r, s) == [r EXCEPT !.deadline = s * 1000000000]
LifespanMs(r, m) == [r EXCEPT !.lifespan = m * 1000000]
LifespanSecs(r, s) == [r EXCEPT !.lifespan = s * 1000000000]
(* int(lease_secs * 1_000_000_000), for whole seconds.                     *)
Liveliness(r, k, s) == [r EXCEPT !.live = k, !.lease = s * 1000000000]
OwnershipShared(r) == [r EXCEPT !.own = "shared"]
OwnershipExclusive(r, n) == [r EXCEPT !.own = "exclusive", !.strength = n]
Partition(r, n) == [r EXCEPT !.parts = @ \cup {n}]
TimeBasedFilterMs(r, m) == [r EXCEPT !.tbf = m * 1000000]
LatencyBudgetMs(r, m) == [r EXCEPT !.latency = m * 1000000]
TransportPriority(r, n) == [r EXCEPT !.prio = n]
(* resource_limits: a negative argument becomes sys.maxsize.               *)
SizeArg(n) == IF n < 0 THEN SysMaxsize ELSE n
ResourceLimits(r, ms, mi, mspi) ==
    [r EXCEPT !.limits = <<SizeArg(ms), SizeArg(mi), SizeArg(mspi)>>]

(* Every profile one builder call can leave r as.                         *)
Built(r) ==
    {TransientLocal(r), Volatile(r), Persistent(r), HistoryKeepAll(r),
     SetReliable(r), SetBestEffort(r), OwnershipShared(r)}
    \cup UNION {{HistoryDepth(r, m), DeadlineMs(r, m), DeadlineSecs(r, m),
                 LifespanMs(r, m), LifespanSecs(r, m), OwnershipExclusive(r, m),
                 TimeBasedFilterMs(r, m), LatencyBudgetMs(r, m),
                 TransportPriority(r, m), ResourceLimits(r, -1, m, -1)}
                : m \in Millis \cup Depths}
    \cup {Liveliness(r, k, s) : k \in {"automatic", "manual_participant", "manual_topic"},
                                s \in Millis}
    \cup {Partition(r, n) : n \in Names}

(* q.<builder>(...): check_error of the native setter, then self.          *)
Build(q) ==
    /\ q \in alive
    /\ builds < MaxBuilds
    /\ builds' = builds + 1
    /\ \E r \in Built(vals[q]) : vals' = [vals EXCEPT ![q] = r]
    /\ UNCHANGED <<alive, ep_qos, ep_prof>>

(* Participant.create_writer / create_reader, Publisher.create_writer,    *)
(* Subscriber.create_reader with a QoS: the native create reads q's       *)
(* profile, and the endpoint keeps q.                                      *)
CreateWithQos(e, q) ==
    /\ ep_qos[e] = NoQos
    /\ q \in alive
    /\ ep_qos' = [ep_qos EXCEPT ![e] = q]
    /\ ep_prof' = [ep_prof EXCEPT ![e] = vals[q]]
    /\ UNCHANGED <<alive, vals, builds>>

(* The same without a QoS: QoS.default() in a fresh object, kept by the   *)
(* endpoint.                                                               *)
CreateDefault(e, q) ==
    /\ ep_qos[e] = NoQos
    /\ q \notin alive
    /\ alive' = alive \cup {q}
    /\ vals' = [vals EXCEPT ![q] = DefaultProfile]
    /\ ep_qos' = [ep_qos EXCEPT ![e] = q]
    /\ ep_prof' = [ep_prof EXCEPT ![e] = DefaultProfile]
    /\ UNCHANGED builds

QNext ==
    \/ \E q \in QosObjs, f \in Factories : NewQos(q, f)
    \/ \E q, c \in QosObjs : Clone(q, c)
    \/ \E q \in QosObjs : Build(q)
    \/ \E e \in Endpoints, q \in QosObjs : CreateWithQos(e, q) \/ CreateDefault(e, q)

QSpec == QInit /\ [][QNext]_qvars

-----------------------------------------------------------------------------

(* What the inspection methods of a QoS object report of profile r:       *)
(* is_reliable, is_transient_local, is_ownership_exclusive,                *)
(* get_history_depth, get_deadline_ns, get_lifespan_ns,                    *)
(* get_ownership_strength, get_liveliness_kind, get_liveliness_lease_ns,   *)
(* get_transport_priority, get_time_based_filter_ns,                       *)
(* get_latency_budget_ns and the three resource limits.                    *)
Inspect(r) ==
    <<r.rel = "reliable", r.dur = "transient_local", r.own = "exclusive",
      r.depth, r.deadline, r.lifespan, r.strength, r.live, r.lease,
      r.prio, r.tbf, r.latency, r.limits>>

(* An endpoint's qos property is "the QoS profile used by this writer"    *)
(* (DataWriter.qos; DataReader.qos likewise): what its inspection methods *)
(* report is the profile the endpoint was created with.                   *)
EndpointQosAsCreated ==
    \A e \in Endpoints :
        ep_qos[e] # NoQos => Inspect(vals[ep_qos[e]]) = Inspect(ep_prof[e])
====
