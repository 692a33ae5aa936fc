------------------------------ MODULE Entities ------------------------------
(***************************************************************************)
(* The entity layer of the Python binding (sdk/python/hdds): Participant,  *)
(* Publisher, Subscriber, DataWriter, DataReader (participant.py,          *)
(* entities.py) and ReadCondition / QueryCondition (conditions.py).        *)
(*                                                                         *)
(* The native library is not part of the repository; it is abstracted to  *)
(* a table of handles: each native create returns a fresh handle, whose    *)
(* parent is the handle it was created from, and each destroy call ends   *)
(* one.  A Python object is identified by the handle it was created with; *)
(* handle[o] is its _handle attribute, NULL once the object is destroyed. *)
(* The containers' lists (_writers, _readers, _publishers, _subscribers)  *)
(* are children[o][k] for k the kind of entity they hold.                 *)
(***************************************************************************)
EXTENDS Integers, Sequences, SequencesExt, FiniteSets

CONSTANT MaxHandles   \* native handles the model may allocate

NULL == 0
Handles == 1 .. MaxHandles

Kinds == {"participant", "publisher", "subscriber", "writer", "reader",
          "status_condition", "read_condition", "query_condition",
          "guard_condition", "waitset"}
ListKinds == {"publisher", "subscriber", "writer", "reader"}

VARIABLES
    next,         \* the next handle the native library returns
    kind,         \* kind[h]: what handle h is ("none" before it is allocated)
    parent,       \* parent[h]: the handle h was created from, or NULL
    live,         \* handles the native library has not destroyed
    dlog,         \* the native destroy calls, in order
    handle,       \* handle[o]: the object's _handle (o, or NULL)
    children,     \* children[o][k]: the object's list of entities of kind k
    status_cond,  \* status_cond[r]: DataReader._status_condition
    stale         \* handles passed to a native call after they or an
                  \* ancestor were destroyed

vars == <<next, kind, parent, live, dlog, handle, children, status_cond, stale>>

(* A handle the native library can still use: neither it nor any entity   *)
(* it was created from has been destroyed.                                 *)
RECURSIVE Usable(_)
Usable(h) == h \in live /\ (parent[h] = NULL \/ Usable(parent[h]))

StaleCall(h) == IF h # NULL /\ ~Usable(h) THEN {h} ELSE {}

(* A native create from handle par: the next handle, of kind k.            *)
Spawn(par, k) ==
    /\ next <= MaxHandles
    /\ next' = next + 1
    /\ kind' = [kind EXCEPT ![next] = k]
    /\ parent' = [parent EXCEPT ![next] = par]
    /\ live' = live \cup {next}
    /\ handle' = [handle EXCEPT ![next] = next]

Init ==
    /\ next = 1
    /\ kind = [h \in Handles |-> "none"]
    /\ parent = [h \in Handles |-> NULL]
    /\ live = {}
    /\ dlog = <<>>
    /\ handle = [h \in Handles |-> NULL]
    /\ children = [h \in Handles |-> [k \in ListKinds |-> <<>>]]
    /\ status_cond = [h \in Handles |-> NULL]
    /\ stale = {}

(* Participant(name): hdds_participant_create_with_transport.  A NULL     *)
(* result raises RuntimeError and leaves nothing behind.                   *)
NewParticipant ==
    /\ Spawn(NULL, "participant")
    /\ UNCHANGED <<dlog, children, status_cond, stale>>

(* The create-and-append step of Participant.create_writer (and of every *)
(* create_* of the binding): the entity is created from the container's   *)
(* handle and appended to its list.  A NULL handle makes the native call  *)
(* return NULL, which raises RuntimeError and changes nothing.            *)
AddEntity(o, k) ==
    /\ handle[o] # NULL
    /\ Spawn(handle[o], k)
    /\ stale' = stale \cup StaleCall(handle[o])
    /\ children' = [children EXCEPT ![o][k] = Append(@, next)]
    /\ UNCHANGED <<dlog, status_cond>>

(* Participant.create_writer / create_reader / create_publisher /         *)
(* create_subscriber: no check of _handle of its own.                      *)
ParticipantCreate(p, k) ==
    /\ kind[p] = "participant"
    /\ AddEntity(p, k)

(* Publisher.create_writer: RuntimeError on a destroyed publisher.        *)
PublisherCreateWriter(g) ==
    /\ kind[g] = "publisher"
    /\ AddEntity(g, "writer")

(* Subscriber.create_reader: RuntimeError on a destroyed subscriber.      *)
SubscriberCreateReader(g) ==
    /\ kind[g] = "subscriber"
    /\ AddEntity(g, "reader")

(* ContentFilteredTopic.create_reader(participant): the reader is created *)
(* from participant._handle (and the filtered topic's handle, which the   *)
(* binding has no factory for and the model leaves out) and returned      *)
(* without being appended to any of the participant's lists.             *)
FilteredCreateReader(p) ==
    /\ kind[p] = "participant"
    /\ handle[p] # NULL
    /\ Spawn(handle[p], "reader")
    /\ stale' = stale \cup StaleCall(handle[p])
    /\ UNCHANGED <<dlog, children, status_cond>>

(* One native call on o's handle whose result does not change the        *)
(* binding's state.                                                        *)
Call(o, op) ==
    /\ stale' = stale \cup StaleCall(handle[o])
    /\ UNCHANGED <<next, kind, parent, live, dlog, handle, children, status_cond>>

(* DataWriter.write / _write_raw: RuntimeError on a destroyed writer, else *)
(* hdds_writer_write and check_error.                                      *)
Write(w) ==
    /\ kind[w] = "writer"
    /\ handle[w] # NULL
    /\ Call(w, "write")

(* DataReader.take / _take_raw: RuntimeError on a destroyed reader, else   *)
(* hdds_reader_take (NOT_FOUND gives None, another error raises).          *)
Take(r) ==
    /\ kind[r] = "reader"
    /\ handle[r] # NULL
    /\ Call(r, "take")

(* DataReader.get_status_condition: the native condition is fetched once  *)
(* and cached; it belongs to the reader.                                   *)
GetStatusCondition(r) ==
    /\ kind[r] = "reader"
    /\ handle[r] # NULL
    /\ status_cond[r] = NULL
    /\ Spawn(handle[r], "status_condition")
    /\ stale' = stale \cup StaleCall(handle[r])
    /\ status_cond' = [status_cond EXCEPT ![r] = next]
    /\ UNCHANGED <<dlog, children>>

(* ReadCondition(reader) / QueryCondition(reader, query): created from    *)
(* reader._handle without a check (NULL makes the native call fail and    *)
(* raise); the condition is owned by the Python object, not the reader.  *)
NewCondition(r, k) ==
    /\ kind[r] = "reader"
    /\ handle[r] # NULL
    /\ Spawn(NULL, k)
    /\ stale' = stale \cup StaleCall(handle[r])
    /\ UNCHANGED <<dlog, children, status_cond>>

(* QueryCondition(reader, query, params): the same, with the query.       *)
NewQueryCondition(r) == NewCondition(r, "query_condition")

(* ReadCondition.trigger_value: False without a call once closed.          *)
TriggerValue(c) ==
    /\ kind[c] = "read_condition"
    /\ handle[c] # NULL
    /\ Call(c, "get_trigger")

(* ReadCondition.close / QueryCondition.close: delete once, then NULL.     *)
CloseCondition(c) ==
    /\ kind[c] \in {"read_condition", "query_condition"}
    /\ handle[c] # NULL
    /\ live' = live \ {c}
    /\ dlog' = Append(dlog, c)
    /\ handle' = [handle EXCEPT ![c] = NULL]
    /\ UNCHANGED <<next, kind, parent, children, status_cond, stale>>

(* A _destroy that calls the native destroy without checking _handle.      *)
DestroyUnguarded(x) == <<handle[x]>>

(* x._destroy() for a writer or reader: the native destroy call when       *)
(* _handle is set.                                                         *)
Destroy(x) == IF handle[x] # NULL THEN <<handle[x]>> ELSE <<>>

DestroyAll(s) == FlattenSeq([i \in DOMAIN s |-> Destroy(s[i])])

(* A Publisher._destroy that forgets its writers.                          *)
GroupTeardownSelfOnly(x, k) == Destroy(x)

(* Publisher._destroy / Subscriber._destroy: its writers (readers) first,  *)
(* then itself.                                                            *)
GroupTeardown(x, k) == DestroyAll(children[x][k]) \o Destroy(x)

(* A close that destroys the participant before its children.             *)
CloseLogSelfFirst(p) ==
    LET pubs == children[p]["publisher"]
        subs == children[p]["subscriber"]
    IN  Destroy(p)
          \o FlattenSeq([i \in DOMAIN pubs |-> GroupTeardown(pubs[i], "writer")])
          \o FlattenSeq([i \in DOMAIN subs |-> GroupTeardown(subs[i], "reader")])
          \o DestroyAll(children[p]["writer"])
          \o DestroyAll(children[p]["reader"])

(* The destroy calls of Participant.close, in the order it makes them:    *)
(* publishers (each with its writers), subscribers (each with its         *)
(* readers), the participant's own writers, its readers, then itself.     *)
CloseLog(p) ==
    LET pubs == children[p]["publisher"]
        subs == children[p]["subscriber"]
    IN  FlattenSeq([i \in DOMAIN pubs |-> GroupTeardown(pubs[i], "writer")])
          \o FlattenSeq([i \in DOMAIN subs |-> GroupTeardown(subs[i], "reader")])
          \o DestroyAll(children[p]["writer"])
          \o DestroyAll(children[p]["reader"])
          \o Destroy(p)

(* A close that leaves the participant's own _handle set.                 *)
ClearedByKeepSelf(p) == ToSet(CloseLog(p)) \ {p}

(* The objects whose _handle close sets to None: every one destroyed.      *)
ClearedBy(p) == ToSet(CloseLog(p))

(* Participant.close (also run by __exit__ and __del__): every destroy    *)
(* call of CloseLog; each destroyed object's _handle is None, a reader's  *)
(* cached status condition is dropped, and every list it walked is        *)
(* cleared.  A second call finds empty lists and a None handle.           *)
Close(p) ==
    LET log     == CloseLog(p)
        groups  == ToSet(children[p]["publisher"]) \cup ToSet(children[p]["subscriber"])
        cleared == ClearedBy(p)
    IN  /\ kind[p] = "participant"
        /\ log # <<>>
        /\ live' = live \ ToSet(log)
        /\ dlog' = dlog \o log
        /\ handle' = [o \in Handles |-> IF o \in cleared THEN NULL ELSE handle[o]]
        /\ status_cond' = [o \in Handles |-> IF o \in cleared THEN NULL ELSE status_cond[o]]
        /\ children' = [o \in Handles |->
                           IF o = p THEN [k \in ListKinds |-> <<>>]
                           ELSE IF o \in groups THEN [children[o] EXCEPT !["writer"] = <<>>,
                                                                         !["reader"] = <<>>]
                           ELSE children[o]]
        /\ UNCHANGED <<next, kind, parent, stale>>

(* Every operation of the binding's entities reached through the         *)
(* Participant, Publisher and Subscriber factories.                        *)
Next ==
    \/ NewParticipant
    \/ \E p \in Handles, k \in ListKinds : ParticipantCreate(p, k)
    \/ \E g \in Handles : PublisherCreateWriter(g) \/ SubscriberCreateReader(g)
    \/ \E o \in Handles : Write(o) \/ Take(o)
    \/ \E r \in Handles : GetStatusCondition(r)
    \/ \E r \in Handles : NewCondition(r, "read_condition") \/ NewQueryCondition(r)
    \/ \E c \in Handles : TriggerValue(c) \/ CloseCondition(c)
    \/ \E p \in Handles : Close(p)

Spec == Init /\ [][Next]_vars

(* The same, with readers also created through a ContentFilteredTopic.    *)
NextFiltered == Next \/ \E p \in Handles : FilteredCreateReader(p)

SpecFiltered == Init /\ [][NextFiltered]_vars

-----------------------------------------------------------------------------

TypeOK ==
    /\ next \in 1 .. MaxHandles + 1
    /\ kind \in [Handles -> Kinds \cup {"none"}]
    /\ live \subseteq Handles
    /\ dlog \in Seq(Handles)
    /\ \A o \in Handles : handle[o] \in {o, NULL}
    /\ status_cond \in [Handles -> Handles \cup {NULL}]
    /\ stale \subseteq Handles

(* Participant.close destroys every child entity before the entity it was *)
(* created from ("before destroying the participant itself"), and no      *)
(* publisher, subscriber, writer or reader outlives its parent: the       *)
(* native library never holds an entity whose parent it has freed.        *)
NoOrphans ==
    /\ \A i, j \in DOMAIN dlog : i < j => parent[dlog[j]] # dlog[i]
    /\ \A h \in live : kind[h] # "status_condition" => parent[h] \in live \cup {NULL}

(* No native object is destroyed twice, whatever the order and number of *)
(* close calls ("Safe to call multiple times").                           *)
DestroyedOnce == IsInjective(dlog)

(* No write, take, status-condition fetch, condition query or create is   *)
(* made on a handle the native library has destroyed, or whose           *)
(* participant, publisher or subscriber it has destroyed.                 *)
NoCallOnDestroyed == stale = {}
=============================================================================
