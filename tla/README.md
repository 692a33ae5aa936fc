# TLA+ models of hdds's Python code

This directory holds TLA+ modules and TLC configurations for the Python code
of hdds. The models cover these parts:
- the offline RTPS/SEDP validator `src/tools/validate_sedp.py`;
- the Python binding `src/sdk/python/hdds`: the handle discipline of its
  entities, its WaitSet and GuardCondition, its listeners and its QoS objects;
- the request-reply sample `src/sdk/samples/07_advanced/python/request_reply.py`,
  which runs as several processes over the binding;
- the latency benchmark `src/sdk/samples/06_performance/python/latency.py`,
  a ping process and an echoing pong process;
- the WaitSets sample `src/sdk/samples/07_advanced/python/waitsets.py`, a main
  thread and a thread that triggers a guard condition.

The binding is a ctypes layer over a native DDS runtime that is not in this
repository. Its models therefore abstract the native library to what the
binding assumes of it: handles that are created from a parent and destroyed
once, and calls that may fail.

## The system

### The validator

The validator reads a pcap file and runs each packet through a fixed pipeline
in one thread:

1. **CaptureReader** (`read_pcap`, lines 149-191). It checks the global header
   magic and reads records until the file ends, a record header is partial,
   or a record's data is truncated.
2. **FrameDecapsulator** (`parse_ethernet`, `parse_ip`, lines 193-243). It
   handles Ethernet II with EtherType IPv4 and IPv4 with protocol UDP. It
   skips IHL*4 bytes and takes everything after the 8-byte UDP header.
3. **RtpsMessageParser** (`parse_rtps_header`, lines 249-267). It checks the
   "RTPS" magic and the 20-byte header, then names where the submessages start.
4. **SubmessageDecoder** (`parse_submessages`, lines 269-317). It walks the
   submessages by octetsToNextHeader (read little-endian). A DATA submessage
   whose body has at least 20 bytes has its fields extracted and its writer
   classified.
5. **EntityClassifier** (`classify_entity_id`, `ENTITY_IDS`, lines 49-59 and
   319-330). It maps a writer entity id to SPDP, SEDP_PUB, SEDP_SUB, another
   builtin endpoint, or USER.
6. **CdrParameterListDecoder** (`parse_cdr_parameter_list`, lines 336-402).
   It skips the 4-byte encapsulation header and reads (pid, length, value)
   triples with 4-byte alignment until the sentinel, the end of the buffer,
   or a short header. It decodes the topic and type names, the endpoint
   GUID, reliability and durability.
7. **SedpValidator** (`validate_sedp_packet`, lines 408-446). For a SEDP
   publication or subscription it reports each required PID that is missing,
   each empty or undecodable topic or type name, and a zero sequence number
   as a warning.
8. **Reporter** (`analyze_pcap`, lines 452-542). It drives 1-7 for each packet
   and counts RTPS, SPDP, SEDP_PUB and SEDP_SUB DATA submessages. It counts
   validated announcements and issues, and prints a summary.

The pipeline has no concurrency, no persistence and no network. Its hard
behaviour is in the data:
- captures cut by a snap length at any byte;
- declared lengths that lie;
- numeric edges of alignment, string lengths and byte order;
- loops that must end on adversarial input;
- tables that must agree with one another.

The models therefore check each decoder on every cut of every message a small
writer produces. They do not check interleavings.

### The Python binding

Every native call of the binding goes through `check_error` (`_native.py`),
which raises on any result but OK. The parts modelled:

- **Entities** (`participant.py`, `entities.py`, `conditions.py`).
  - A `Participant` creates publishers, subscribers, writers and readers, and
    keeps each in a list.
  - A `Publisher` or `Subscriber` creates writers or readers and keeps them too.
  - A `DataReader` fetches and caches its status condition.
  - `ReadCondition` and `QueryCondition` own a native condition made from a reader.
  - `Participant.close` (also run by `__exit__` and `__del__`) walks the
    lists and destroys the children before the participant.
  - Each object's `_handle` is set to None when it is destroyed.
- **WaitSet and GuardCondition** (`waitset.py`). A WaitSet mirrors what it
  attached to the native waitset in two Python lists. The lists are changed
  only after `check_error` accepts the native attach or detach.
- **Listeners** (`listener.py`). Installing a listener wraps its methods in
  ctypes thunks. The native entity calls those thunks, and Python frees them
  once nothing refers to them.
- **QoS** (`qos.py`). Fluent builder methods change a native profile in place.
  Endpoints keep the QoS object they were created with.

Python code runs in the application's threads. ctypes releases the GIL during
every foreign call, so two threads can interleave inside one method.

### The request-reply sample

`request_reply.py` runs either as a server (`--server`) or as a client with a
client id. Both use the topics `Calculator_Request` and `Calculator_Reply`,
which are reliable and transient-local.
- **Client:** it writes requests 1, 2 and 3, recording each as pending. It
  then takes replies until it has three of its own, or until a 2-second wait
  times out. Finally it sends request 99 and waits one second.
- **Server:** it answers up to 10 requests, then closes its shutdown guard.
- **Matching:** a client accepts a reply when the client id is its own and
  the request id is pending.

Processes start, stop and restart independently. A transient-local writer
delivers its history to readers that join later.

### The latency sample

`latency.py` runs as a ping process (the default) or a pong process
(`--pong`), over the topics `LatencyPing` and `LatencyPong`, both reliable
and volatile.
- **Ping:** `main` caps `argv[1]` at 10000 samples. `run_ping` then sends
  100 warmup pings, each followed by one `wait(1.0)` and at most one `take`.
  Next come `num_samples` measured pings. Each measured ping is written with
  its sequence number and `send_time`, followed by one `wait(1.0)` and one
  `take`. The RTT recorded is the receive time minus `send_time`. A progress
  test `(i + 1) % (num_samples // 10)` ends each step.
- **Pong:** `run_pong` waits up to 5 seconds at a time, takes every ping and
  writes it back unchanged, until Ctrl+C.

### The WaitSets sample

`waitsets.py` attaches the status conditions of a SensorTopic reader and a
CommandTopic reader, both reliable, and a shutdown GuardCondition to one
WaitSet. Main then runs four scenarios. Each writes nothing, a sensor
sample, a command, or both. Each then sleeps 50 ms, calls `wait(1.0)`, and
on True runs `take` loops until `None`: on the sensor reader, on the
command reader, or on both. In scenario 5 a thread sleeps 0.2 s and
triggers the guard, while main calls `wait(5.0)`. On True, main prints
"GuardCondition triggered - shutdown requested!". Main then joins the
thread, detaches everything and closes.

## Modules

| Module | Models | Source |
|---|---|---|
| `CdrBytes` | slicing, `struct.unpack` of `<H`, `>H`, `<I`, `>I`, the `(n+3)&~3` alignment, `bytes.hex()`, `decode('utf-8', errors='ignore')` | lines 259-400, the reads |
| `RtpsTables` | `RTPS_SUBMSG_DATA`, `ENTITY_IDS`, `PID_MAP`, the required-PID tables, `classify_entity_id` | lines 45-143, 319-330 |
| `ParameterList` | `parse_cdr_parameter_list` as a state machine | lines 336-402 |
| `Submessages` | `parse_submessages` as a state machine | lines 269-317 |
| `SedpValidator` | `validate_sedp_packet` as an operator | lines 408-446 |
| `PcapReader` | `read_pcap` as a state machine: global header, byte order, the record loop and its two exits | lines 149-191 |
| `Frames` | `parse_ethernet`, `parse_ip`, `parse_rtps_header` as operators | lines 193-267 |
| `Pipeline` | `analyze_pcap`. It composes `Submessages` and `ParameterList` through `INSTANCE ... WITH` renamed variables (`sm_*`, `pl_*`), with `Frames`, `SedpValidator` and the counters | lines 452-542 |
| `RecordStream` | abstract spec: a reader that returns the records of its input in order, up to an end record (kept or not), and then stops. It is refined by all three readers: `read_pcap`, the submessage walk and the parameter-list walk | spec sections 3, 4.1 and 4.4-4.6 |
| `MCReaders` | harness: the three decoder harnesses below instanced over renamed variables (`f_*`, `l_*`, `s_*`) in one model. In each behaviour one decoder gets every input of its harness and the other two the shortest one | - |
| `MCParameterList`, `MCSubmessages` | harnesses: a writer that encodes record lists, every cut of them, and the refinement mapping to `RecordStream` | - |
| `MCPcapReader` | harness: a writer of capture files in either byte order (or with the nanosecond magic), every cut of them, and the refinement mapping to `RecordStream` | - |
| `MCPipeline` | harness: a writer of captures (Ethernet, IPv4 with or without options, UDP, RTPS, DATA with PL_CDR), whole or cut by a snap length, and the reports and counts the design prescribes for them, computed from what was written | - |
| `Entities` | the binding's entity layer over a native handle table: every create, `write`, `take`, `get_status_condition`, the conditions, and `Participant.close` with the exact order of its destroy calls | participant.py 57-326, entities.py, conditions.py 138-372 |
| `WaitSets` | extends `Entities` with GuardCondition and WaitSet: both Python mirrors and `natt`, the set of conditions the native waitset holds; every native call may fail | waitset.py 52-265 |
| `GuardThreads` | `GuardCondition.trigger` and `close` split at the points where another thread can run | waitset.py 60-90 |
| `Listeners` | thunk generations of `_to_c_listener`, what each listener object still refers to, and what each native entity calls | listener.py 277-549 |
| `Qos` | the QoS factories, `clone`, every fluent builder method, and the endpoints' `_qos` | qos.py, entities.py 47-176 |
| `RequestReply` | `main`, `run_client`, `run_server` and `CalculatorService.process` over process slots that start, stop and restart | request_reply.py 122-326 |
| `Latency` | `main`, `run_ping` (warmup and measurement loops, the progress test) and `run_pong` (the echo loop, Ctrl+C) | latency.py 137-275 |
| `WaitSetsDemo` | `main` of the WaitSets sample as a table of scenarios (what each writes and which take loops it runs), the trigger thread, and reliable samples delivered at any time after their write | waitsets.py 105-271 |
| `MCEntities`, `MCWaitSets`, `MCGuardThreads`, `MCListeners`, `MCQos`, `MCRequestReply` | harnesses: the bounds and model values of each run | - |

**Byte representation.** A buffer is a sequence of integers 0..255 with
0-based offsets, as in the code. Python integers are unbounded. A 32-bit
value with its top bit set is represented by `U32Big`. The code only
compares such values with small constants or uses them as slice bounds past
the end, so that representative is exact for every use.

**Loop state machines.** The while loops of `parse_cdr_parameter_list` and
`parse_submessages` are actions:
- **Loop variables:** `offset` and the list built so far.
- **`pc`:** `start`, `loop` or `done`.
- **Exits:** each `break` and the loop condition is an action of its own.
- **Loop body:** one iteration is one action, and the append and the cursor
  advance are in that same action.

The input buffer is chosen in `Init` from the constant set `Payloads` or
`Messages`. The MC module computes that set from its writer.

**Composition.** `Pipeline` has one phase per loop of `analyze_pcap`.
- `packet`: the outer for loop. A frame the three parsers reject is skipped. An RTPS frame is counted and the walker started at offset 20.
- `walk`: the walker's steps (`SM!Next`) run until it returns. Then the inner for loop visits each submessage: it skips it, counts it as SPDP, or counts it as SEDP and starts the decoder on its payload.
- `decode`: the decoder's steps (`PL!Next`) run until it returns. Then `validate_sedp_packet` gives the report.
- `done`: the summary has been printed.

The code builds the submessage list before it iterates over it. The model keeps that order: the inner loop starts only when the walker has returned.

A report keeps what the printed block says that a property can be about: the packet, the role, the parameter ids and names, the issues and the warnings.

**Refinement.** Both decoders are shown to implement `RecordStream`.
- **Abstract input:** computed from the ghost variable `written`, the
  writer's record list and cut.
- **Abstract output:** the decoder's list projected to the abstract fields.
- **`done`:** `pc = "done"`.

The abstract spec is a `PROPERTY` of the run. It states the round trip:
- what the writer wrote is what the reader returns;
- nothing is returned after the end record;
- a record the capture cuts keeps exactly what the capture holds;
- the reader returns.

**Native handles.** `Entities` represents the native library by:
- `next`, the next handle a create returns;
- `kind` and `parent` of each handle;
- `live`, the handles not yet destroyed;
- `dlog`, the destroy calls in the order they were made.

A Python object is named by the handle it was created with, and `handle[o]`
is its `_handle`. A native call on a handle that, or any of whose ancestors,
was destroyed is recorded in `stale`. `Usable` is the recursive test. A call
on a NULL handle fails. A call on usable handles may succeed or fail
(`NativeOutcomes`), since the native library's errors are not in the
repository. `MaxHandles` (5) bounds the handles allocated. Five handles hold
any of the following:
- a participant with a publisher and its writer;
- a reader with its status condition;
- a guard and a waitset next to a reader;
- two participants.

**Threads.** `GuardThreads` splits each method at the points where another
thread can run:
- `trigger`: the `_handle` test, then the foreign call, which reads
  `_handle` as it starts;
- `close`: the test, the foreign release, then `_handle = None`.

**Request-reply delivery.** `RequestReply` keeps, per process slot:
- `pc`, the point its program is at (`off` when it is not running);
- `runs`, how many times the slot has been started;
- `hist[p]`, the samples the current writer of `p` has written;
- `got[p][q]`, how many of `hist[q]` the current reader of `p` has taken.

A reader takes the next sample of any running writer, in order per writer and
in any interleaving across writers. The transient-local history of a running
writer is therefore delivered to a reader that joins later. When a process
stops, its history and cache are lost.

`waitset.wait` returns True exactly when a sample is available. The client's
timeout branch is taken when none is, which covers a reply that is still in
flight. Messages are records: the byte serializers are exact inverses on the
sample's values. The fields `from` and `to` are ghosts naming the run that
sent a request, and `accepted` is a ghost holding the replies a client run
took as its own.

## Runs

| Run | Expect | What it shows |
|---|---|---|
| `readers_refine` | pass | The three decoders of the validator each implement `RecordStream` (`ReadsWrittenFrames`, `DecodesWrittenRecords`, `WalksWrittenSubmessages`), plus `ReadersTypeOK`. They are checked in one model through `INSTANCE ... WITH`. |
| `readers_refine` (captures) | pass | Every cut of every capture file of up to 3 frames (of 0, 1 and 3 bytes) is read correctly. The files are little-endian, big-endian, or carry the nanosecond magic. A file yields exactly the frames of its whole records, in order, and the reader returns. |
| `readers_refine` (parameter lists) | pass | Every cut of every list of up to 3 records is decoded as written, up to the first sentinel, and the decoder returns. A topic or type name the capture holds whole decodes to exactly the string written, without its NUL (the round trip of section 8, `NamesRoundTrip`). The records are an empty topic name, the type name "BC", a vendor pid with length 3 (padding 1), an inline-QoS pid with length 0, reliability and the sentinel. |
| `readers_refine` (lying lengths) | pass | Lists of up to 2 records whose declared lengths lie still end the loop: the refinement mapping sends such a capture to the empty stream, so all it asks is that the decode ends. The lies are 0 for 6 bytes, 9 for 3 and 2 for 0. Short type names, a GUID and an unknown durability kind have honest lengths and get the full round trip. |
| `readers_refine` (submessages) | pass | Every cut past the RTPS header of every list of up to 3 submessages is walked as written. The submessages are SEDP publication DATA, SPDP DATA, user DATA, INFO_TS and a final PAD of length 0. Each DATA is classified by the role of its writer (`DataRolesAsWritten`). |
| `pipeline` (whole captures) | pass | Over every capture of up to 3 packets, each SEDP announcement is reported with its writer's role and its parameters in the order written. The packets are RTPS with and without IPv4 options, RTPS with 6 bytes of Ethernet padding, ARP, TCP and non-RTPS UDP. A report has exactly the issues and warnings that sections 4.7 and 8 prescribe for what was written. The analysis returns with the RTPS, SPDP and SEDP counts of what was written. (`ReportsAsWritten`, `SummaryReported`, `TypeOK`) |
| `pipeline` (cut captures) | pass | In the same run, the first packet of a capture (P1, or P2 with IPv4 options and an SPDP DATA after the announcement) is cut by a snap length at every byte, and a whole packet follows it. The reference takes what the capture kept. A packet whose headers were cut is not RTPS. A DATA with fewer than 20 body bytes kept has no role. An announcement is reported with exactly the parameters whose 4-byte header was kept. A name whose value was lost is flagged as empty or invalid. |
| `waitsets` | pass | All entity operations, `Participant.close`, and the WaitSet and GuardCondition operations interleave, with any native call failing. The Python mirrors of every WaitSet always match what the native waitset holds, with no duplicates (`MirrorMatchesNative`). `close` destroys every child before its parent (`NoOrphans`), destroys nothing twice (`DestroyedOnce`), and no call ever reaches a destroyed handle (`NoCallOnDestroyed`). (`WTypeOK` too) |
| `entities_filtered` | violation | A reader created by `ContentFilteredTopic.create_reader` outlives its participant after `Participant.close`. (`NoOrphans`) |
| `listeners_reuse` | violation | Installing one listener on a second entity, or again where the native call fails, frees thunks a native entity still calls. (`CallbacksAlive`) |
| `qos_alias` | violation | A builder call on the QoS object an endpoint keeps changes what the endpoint's `qos` reports after creation. (`EndpointQosAsCreated`) |
| `guard_threads` | violation | With two threads, `trigger` reaches the native `set_trigger` after `close` has released the guard. (`NoCallOnReleased`) |
| `request_reply` | pass | Two clients with distinct ids and a server run twice interleave, and any process may be killed at any step. Every reply a client run accepts answers a request of that very run, and `received` counts each request once. This holds whatever the restarted server answers again and whatever replies to the other client arrive in between. (`RepliesCorrelated`, `TypeOK`) |
| `request_reply_rerun` | violation | A client slot run twice with the same client id, while the server keeps running, accepts the replies the server wrote for its first run. (`RepliesCorrelated`) |
| `latency_stale` | violation | A warmup ping's echo arrives after its one-second wait has timed out. It stays in the PONG reader's cache, and the first measured ping's wait returns at once and takes it. The RTT recorded is measured from ping 1 to the echo of ping 0, and every later pairing is shifted the same way. (`RttOfOwnPing`) |
| `latency_raise` | violation | With `argv[1]` = 3, `run_ping` raises ZeroDivisionError at the progress test of its first measured ping and reports nothing. (`RunPingReturns`) |
| `waitsets_demo` | violation | A sample arrives late. In TLC's trace, scenario 2's wait times out with the sensor sample still in flight, and the sample arrives later. Alternatively, in scenario 4 the wait wakes on the sensor sample while the command is still in flight. The command loop then finds nothing, and the command arrives later. Scenario 5's wait returns True at once, before the guard is triggered, and main reports a shutdown request. (`ShutdownOnlyOnGuard`) |

**Bounds.** Three records or submessages cover every ordered pair of
distinct kinds and every pair of equal ones. They also cover a record after
the sentinel or after a zero-length submessage, which must not be returned.
Cutting at every byte covers:
- a cut inside a header;
- a cut inside a value or body;
- a cut inside the padding;
- a cut exactly at a boundary.

Value lengths 0, 3, 5, 6 and 12 cover all four residues mod 4 of the
alignment.

The pipeline's packets cover the following:
- compliant announcements;
- an announcement missing its topic (the section 8 scenario);
- an announcement with an empty topic name and sequence number 0;
- SPDP, builtin-topic and user DATA next to SEDP DATA;
- non-DATA submessages;
- frames each of the three parsers rejects.

Three packets give every count up to 3 and every order of these kinds.
`SnapWrites` cuts P1 and P2 at every byte, from 0 to the whole frame. This
covers a cut in each of these places:
- the Ethernet, IPv4 or UDP header;
- the RTPS header;
- the first 20 bytes of a DATA body;
- the encapsulation;
- each parameter header and value;
- the sentinel;
- the SPDP DATA that follows.

`MaxParams` (16) and `MaxSubmessages` (8) are guards of the loop actions. A
correct decoder never reaches them on these inputs, because each list has
at most 3 records. A decoder that does not advance its cursor reaches them.
It then stops without returning, and the liveness properties catch that.

The binding's bounds are the following:
- **`waitsets`:** `MaxHandles` = 5 (see above).
- **`guard_threads`:** two threads making two calls each. That is enough for
  one thread's `trigger` to run between another's release and its
  `_handle = None`.
- **`listeners_reuse`:** two readers, one writer, one listener of each kind,
  and three thunk generations. Two installs of one listener and one more are
  enough to free a generation that is still installed.
- **`qos_alias`:** two QoS objects, one endpoint and two builder calls.

For `request_reply`:
- **Processes:** two clients and a server run twice. This is the least
  instance in which other clients' replies and a restarted server's second
  answers both occur.
- **`ServeLimit`:** 3 stands for the server's 10. The server closes after
  `ServeLimit` requests, and two clients send 8 requests between them. With
  10, the server's closing path is never taken in this instance. With 3, it
  is taken both before and after every client's batch.
- **Symmetry:** the two clients are interchangeable model values, so the run
  uses client symmetry.
- **Termination:** whether `run_client` always ends (its timeouts) is not
  checked. Liveness checking of this state space (3.6 million states without
  symmetry) takes TLC several minutes.

`readers_refine` gives the decoders not under test the shortest input
their harness writes: an empty capture, an empty payload, or a bare RTPS
header. These decoders return within two steps. The decoders share no
state, so interleaving them adds no behaviour of any one of them. The run
has 370,104 distinct states and takes about two minutes.

`waitsets_demo` needs no bound: every scenario writes at most one sample
per topic.

For `latency_stale` and `latency_raise`, one warmup ping stands for the 100. The arguments 0,
3 and 10 give an empty measurement, a `num_samples // 10` of zero, and ten
measured pings with a progress print after the tenth. The pong starts at
any point and may be interrupted at any point.

**Fairness.** The decoders of the validator are checked under weak
fairness of each decoder's next-state action. Each loop is straight-line code in one
thread that never blocks, so once an iteration is enabled it runs.
`CHECK_DEADLOCK FALSE` is set because the decoders really return:
`pc = "done"` is a final state.

The binding's and the sample's specifications have no fairness, and their
runs check only invariants. Every binding operation is a call the
application may or may not make. A sample process may be killed at any
point. Their runs set `CHECK_DEADLOCK FALSE` because every handle can be
spent and every process can end.

**Mutants.** Each property of a passing run is shown to fail under a plausible
bug of the code:
- a signed `<h` read;
- a name slice that keeps the NUL terminator;
- `(n+2)&~3` alignment;
- an advance that forgets the 4-byte header;
- a signed `>i` read;
- a little-endian entity-id read;
- octetsToNextHeader read big-endian;
- validating builtin-topic DATA as SEDP;
- taking the payload from octetsToInlineQos whenever it is at least 16;
- ignoring IHL;
- reading incl_len little-endian whatever the magic said;
- a truncation test one byte short;
- `Participant.close` destroying the participant before its children;
- a close that leaves the participant's own `_handle` set;
- a group teardown that skips the group's writers or readers;
- a `_destroy` without its `_handle` test;
- `attach_reader` without its membership test;
- a reply check without the pending test, or without the client-id test.

## Findings

Each finding below is a run that TLC finds violated.

- **`entities_filtered`** (`conditions.py:172`): `ContentFilteredTopic.create_reader`
  creates the reader from `participant._handle` but appends it to none of
  the participant's lists. `Participant.close` then destroys the participant
  and leaves that reader alive. The close docstring promises that all child
  entities are destroyed first.
- **`listeners_reuse`** (`listener.py:498`): `set_*_listener` overwrites
  `_c_callbacks` and `_active_c_listener` on every call. This happens even
  when `check_error` is about to raise. A listener installed on a second
  entity, or installed again where the native call fails, drops the thunks
  the first entity still calls.
- **`qos_alias`** (`entities.py:57`): an endpoint keeps the caller's QoS
  object itself. Builder methods change it in place, so `w.qos.reliable()`
  makes a best-effort writer report RELIABLE.
- **`guard_threads`** (`waitset.py:75`): `close` releases the native guard
  before it sets `_handle` to None, and the GIL is released during the
  release. A `trigger` on another thread can pass its test and call
  `set_trigger` on the released guard, although `trigger` is documented as
  thread-safe.
- **`latency_stale`** (`latency.py:177`): `run_ping` takes whatever echo
  is in the PONG reader's cache after each ping. It computes `recv_time -
  send_time` without reading back the sequence number it serialized
  (`deserialize_latency_msg` is never called). After one wait times out,
  the late echo answers the next ping, and every later RTT pairs a ping
  with an earlier ping's echo. The statistics then under-report the
  latency.
- **`latency_raise`** (`latency.py:183`): `main` accepts any integer
  sample count, capping it only at 10000, and catches only
  KeyboardInterrupt. For 1 to 9 samples, `num_samples // 10` is 0 and the
  progress test raises ZeroDivisionError after the first measured ping. No
  statistics are printed.
- **`waitsets_demo`** (`waitsets.py:228`): scenario 5 takes any True from
  `wait` as the guard's wake. `wait` is also True while an attached reader
  holds a sample. A sample delivered late makes the wait return before
  `trigger_shutdown` runs, and the shutdown is reported falsely. The
  sample can be late in two ways: it arrives after its scenario's one-second
  wait has timed out, as in TLC's trace, or after its take loop ended. The
  code sleeps only 50 ms for propagation.
- **`request_reply_rerun`** (`request_reply.py:279`): replies are matched
  only by client id and request id, and every client run uses ids 1, 2
  and 3. The reply writer is transient-local. So a client run again while
  the server lives takes its previous run's replies as its own, contrary
  to the overview's "request_id: unique per request".

While the validator was modelled, four more disagreements were met. They
are no longer runs of their own, and are recorded here and as hazards:
- `validate_sedp.py:370`: a string length that overruns its value gives a
  truncated name, not `<decode error>` (design section 4.6).
- `validate_sedp.py:281`: a submessage whose body the capture cut keeps its
  declared length (design sections 3 and 8).
- `validate_sedp.py:75`: PID_MAP names 0x001A and 0x001D
  `PID_DESTINATION_ORDER` and `PID_PRESENTATION`, while the required tables
  call them `PID_RELIABILITY` and `PID_DURABILITY`.
- `validate_sedp.py:304`: the payload is taken at body offset 20 whatever
  the InlineQosFlag says. A DATA that carries inline QoS is therefore
  reported as missing every required parameter.

## Not modelled

- **The validator's command line** (`main`): argument and file checks only.
- **Printing and formatting.** No property is about text. Issues are records
  naming the PID and kind the printed text names.
- **Big-endian submessages** (flag E clear): the validator reads them
  little-endian by design.
- **`telemetry.py`, `logging.py` and `_native.py`.**
  - `telemetry.py` and `logging.py` wrap single native calls.
  - `_native.py`'s library loading and signature setup are FFI plumbing.
  - `check_error` is modelled as `NativeOutcomes`.
- **The binding's read-only properties and `__repr__` methods.**
- **`ContentFilteredTopic`'s own handle.** The binding has no factory for
  it; only `create_reader` is modelled.
- **The native library.** Whether a condition of a destroyed reader is still
  valid, what a waitset does with a released condition, and the 2^32 and
  2^64 wrap-arounds of ctypes arguments are all beyond the repository.
- **`latency.py`'s statistics.** `percentile`, `calculate_stats` and
  `print_histogram` are float arithmetic and formatting over the recorded
  samples. The model keeps which ping and which echo each sample pairs.
  The ZeroDivisionError of the progress test is the run `latency_raise`.
- **Samples that cannot get past their setup.** 26 samples and examples call
  `waitset.attach(...)` on a reader, a read condition or a status
  condition. `WaitSet` does not define `attach`; it has `attach_reader` and
  `attach_guard`. Examples are `hello_world.py`, `multi_participant.py`, the
  `02_qos` samples and `sensor_fusion.py`. Their readers end with
  AttributeError before any loop. `guard_condition.py` calls
  `GuardCondition.set_trigger` and `WaitSet.detach`, which do not exist
  either. A model of these programs is one failing step.
- **The other samples, examples, SDK tests and the ESP32 scripts.**
  - The samples call the binding one step after another in a single process,
    so each adds no behaviour beyond the binding's models.
  - `dynamic_data.py` builds JSON dictionaries in one thread.
  - The ESP32 scripts are serial-port I/O.
