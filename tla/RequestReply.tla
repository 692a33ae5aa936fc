---------------------------- MODULE RequestReply ----------------------------
(***************************************************************************)
(* The request-reply sample of the Python binding                          *)
(* (samples/07_advanced/python/request_reply.py): processes run either     *)
(* run_server or run_client over the topics Calculator_Request and         *)
(* Calculator_Reply, both reliable and transient-local.                    *)
(*                                                                         *)
(* A process slot runs the program, stops (returns, is interrupted or      *)
(* killed) and may be run again: each run is an incarnation with fresh     *)
(* endpoints.  A writer keeps the history of what it wrote while its       *)
(* process runs (transient-local, depth 100, never reached here), and a    *)
(* reader of the other topic takes that history in order per writer, from *)
(* the moment both exist, interleaving the writers in any order.  A       *)
(* reader's position in each writer's history stands for its cache: what  *)
(* is written is available to take (a sample still in flight is one       *)
(* written later), and what a stopped writer had not yet delivered is      *)
(* lost with it.                                                           *)
(* A message is a record: the byte serializers of Request and Reply are    *)
(* exact inverses on the strings the sample uses and are left out.  The    *)
(* field from / to is a ghost naming the run that sent the request.        *)
(***************************************************************************)
EXTENDS Integers, Sequences, FiniteSets, Functions

CONSTANTS
    Clients,       \* process slots running run_client
    Servers,       \* process slots running run_server
    ClientId,      \* ClientId[c]: argv[2] of slot c, "Client1" by default
    MaxRuns,       \* MaxRuns[p]: how often slot p is started
    ServeLimit     \* the server's "up to 10 requests"

Procs == Clients \cup Servers

(* The requests of run_client, in order, then its timeout request.        *)
Batch == <<[id |-> 1, op |-> "add"], [id |-> 2, op |-> "echo"], [id |-> 3, op |-> "time"]>>
Late == [id |-> 99, op |-> "slow_operation"]

VARIABLES
    pc,        \* pc[p]: where slot p's program is ("off" when not running)
    runs,      \* runs[p]: incarnations of p started so far
    hist,      \* hist[p]: the samples p's current writer has written
    got,       \* got[p][q]: how many of hist[q] p's current reader took
    pending,   \* pending[c]: run_client's pending ids
    received,  \* received[c]: run_client's received
    count,     \* count[s]: run_server's request_count
    accepted   \* accepted[c]: replies run_client took as its own (ghost)

vars == <<pc, runs, hist, got, pending, received, count, accepted>>

Me(p) == <<p, runs[p]>>   \* the current run of p

Init ==
    /\ pc = [p \in Procs |-> "off"]
    /\ runs = [p \in Procs |-> 0]
    /\ hist = [p \in Procs |-> <<>>]
    /\ got = [p \in Procs |-> [q \in Procs |-> 0]]
    /\ pending = [c \in Clients |-> {}]
    /\ received = [c \in Clients |-> 0]
    /\ count = [s \in Servers |-> 0]
    /\ accepted = [c \in Clients |-> {}]

(* main: a new run creates its participant, reader, writer and waitset;   *)
(* its locals start empty.                                                 *)
Start(p) ==
    /\ pc[p] = "off"
    /\ runs[p] < MaxRuns[p]
    /\ runs' = [runs EXCEPT ![p] = @ + 1]
    /\ pc' = [pc EXCEPT ![p] = IF p \in Clients THEN "send" ELSE "wait"]
    /\ pending' = [c \in Clients |-> IF c = p THEN {} ELSE pending[c]]
    /\ received' = [c \in Clients |-> IF c = p THEN 0 ELSE received[c]]
    /\ count' = [s \in Servers |-> IF s = p THEN 0 ELSE count[s]]
    /\ accepted' = [c \in Clients |-> IF c = p THEN {} ELSE accepted[c]]
    /\ UNCHANGED <<hist, got>>

(* The process ends: main returns, Ctrl+C, or a kill at any point.  Its   *)
(* endpoints go with it, the writer's history and the reader's cache too.  *)
Stop(p) ==
    /\ pc[p] # "off"
    /\ pc' = [pc EXCEPT ![p] = "off"]
    /\ hist' = [hist EXCEPT ![p] = <<>>]
    /\ got' = [q \in Procs |-> [r \in Procs |-> IF p \in {q, r} THEN 0 ELSE got[q][r]]]
    /\ UNCHANGED <<runs, pending, received, count, accepted>>

(* The running writers whose samples p's reader has not all taken, on     *)
(* the topic p reads: replies for a client, requests for a server.        *)
Writers(p) == IF p \in Clients THEN Servers ELSE Clients
Available(p) == {q \in Writers(p) : pc[q] # "off" /\ got[p][q] < Len(hist[q])}

(* take(): the next sample of writer q, which leaves p's cache.            *)
Taken(p, q) == hist[q][got[p][q] + 1]
TakeFrom(p, q) == got' = [got EXCEPT ![p][q] = @ + 1]

(* request_writer.write of req, after pending[req.request_id] = req.      *)
SendRequest(c, req) ==
    /\ pending' = [pending EXCEPT ![c] = @ \cup {req.id}]
    /\ hist' = [hist EXCEPT ![c] =
                   Append(@, [id |-> req.id, client |-> ClientId[c], op |-> req.op, from |-> Me(c)])]

(* run_client: the loop over the three requests.                           *)
SendBatch(c) ==
    /\ pc[c] = "send"
    /\ SendRequest(c, Batch[Len(hist[c]) + 1])
    /\ pc' = [pc EXCEPT ![c] = IF Len(hist[c]) + 1 = Len(Batch) THEN "wait" ELSE "send"]
    /\ UNCHANGED <<runs, got, received, count, accepted>>

(* while received < len(requests): waitset.wait(timeout=2.0) returns True *)
(* once the reply reader holds data; False on timeout, which breaks the   *)
(* loop, and the loop ends too once three replies were received.          *)
ClientWait(c) ==
    /\ pc[c] = "wait"
    /\ \/ received[c] < Len(Batch) /\ Available(c) # {} /\ pc' = [pc EXCEPT ![c] = "take"]
       \/ received[c] < Len(Batch) /\ Available(c) = {} /\ pc' = [pc EXCEPT ![c] = "late"]
       \/ received[c] >= Len(Batch) /\ pc' = [pc EXCEPT ![c] = "late"]
    /\ UNCHANGED <<runs, hist, got, pending, received, count, accepted>>

(* A reply check without the client_id test.                               *)
IsMineAnyClient(c, r) == r.id \in pending[c]

(* A reply check without the pending test.                                 *)
IsMineNoPending(c, r) == r.client = ClientId[c]

(* The reply check: addressed to this client_id and still pending.         *)
IsMine(c, r) == r.client = ClientId[c] /\ r.id \in pending[c]

(* reply_reader.take(): None ends the inner loop; a reply that is ours    *)
(* leaves pending and counts as received.                                  *)
ClientTake(c) ==
    /\ pc[c] = "take"
    /\ \/ /\ Available(c) = {}
          /\ pc' = [pc EXCEPT ![c] = "wait"]
          /\ UNCHANGED <<got, pending, received, accepted>>
       \/ \E q \in Available(c) :
             LET r == Taken(c, q) IN
             /\ TakeFrom(c, q)
             /\ IF IsMine(c, r)
                   THEN /\ pending' = [pending EXCEPT ![c] = @ \ {r.id}]
                        /\ received' = [received EXCEPT ![c] = @ + 1]
                        /\ accepted' = [accepted EXCEPT ![c] = @ \cup {r}]
                   ELSE UNCHANGED <<pending, received, accepted>>
             /\ UNCHANGED pc
    /\ UNCHANGED <<runs, hist, count>>

(* The timeout demonstration: request 99 is sent, and one wait of a       *)
(* second, whatever it returns, ends run_client.                           *)
SendLate(c) ==
    /\ pc[c] = "late"
    /\ SendRequest(c, Late)
    /\ pc' = [pc EXCEPT ![c] = "late_wait"]
    /\ UNCHANGED <<runs, got, received, count, accepted>>

LateWait(c) ==
    /\ pc[c] = "late_wait"
    /\ pc' = [pc EXCEPT ![c] = "done"]
    /\ UNCHANGED <<runs, hist, got, pending, received, count, accepted>>

(* CalculatorService.process: the reply's status_code.  The add request   *)
(* of the sample carries two numbers.                                      *)
Status(op) == IF op \in {"add", "echo", "time"} THEN 0 ELSE -1

Process(req) == [id |-> req.id, client |-> req.client, status |-> Status(req.op), to |-> req.from]

(* while request_count < 10: waitset.wait(timeout=1.0) returns True once  *)
(* the request reader holds data (a timeout only loops again).             *)
ServerWait(s) ==
    /\ pc[s] = "wait"
    /\ \/ count[s] < ServeLimit /\ Available(s) # {} /\ pc' = [pc EXCEPT ![s] = "take"]
       \/ count[s] >= ServeLimit /\ pc' = [pc EXCEPT ![s] = "close"]
    /\ UNCHANGED <<runs, hist, got, pending, received, count, accepted>>

(* request_reader.take(): None ends the inner loop; a request is counted, *)
(* processed and its reply written.                                        *)
ServerTake(s) ==
    /\ pc[s] = "take"
    /\ \/ /\ Available(s) = {}
          /\ pc' = [pc EXCEPT ![s] = "wait"]
          /\ UNCHANGED <<got, hist, count>>
       \/ \E q \in Available(s) :
             /\ TakeFrom(s, q)
             /\ count' = [count EXCEPT ![s] = @ + 1]
             /\ hist' = [hist EXCEPT ![s] = Append(@, Process(Taken(s, q)))]
             /\ UNCHANGED pc
    /\ UNCHANGED <<runs, pending, received, accepted>>

(* shutdown.close() after the loop; run_server returns.                    *)
ServerClose(s) ==
    /\ pc[s] = "close"
    /\ pc' = [pc EXCEPT ![s] = "done"]
    /\ UNCHANGED <<runs, hist, got, pending, received, count, accepted>>

Next ==
    \/ \E p \in Procs : Start(p) \/ Stop(p)
    \/ \E c \in Clients : SendBatch(c) \/ ClientWait(c) \/ ClientTake(c) \/ SendLate(c) \/ LateWait(c)
    \/ \E s \in Servers : ServerWait(s) \/ ServerTake(s) \/ ServerClose(s)

Spec == Init /\ [][Next]_vars

-----------------------------------------------------------------------------

Samples == [id : {1, 2, 3, 99}, client : Range(ClientId), op : {"add", "echo", "time", "slow_operation"},
            from : Procs \X Nat]
           \cup [id : {1, 2, 3, 99}, client : Range(ClientId), status : {0, -1}, to : Procs \X Nat]

TypeOK ==
    /\ pc \in [Procs -> {"off", "send", "wait", "take", "late", "late_wait", "close", "done"}]
    /\ \A p \in Procs : /\ runs[p] \in 0 .. MaxRuns[p]
                        /\ hist[p] \in Seq(Samples)
                        /\ got[p] \in [Procs -> Nat]
    /\ \A c \in Clients : pending[c] \subseteq {1, 2, 3, 99} /\ received[c] \in 0 .. Len(Batch)
    /\ count \in [Servers -> Nat]

(* The ids of the replies a client run took as its own.                    *)
Answered(c) == {r.id : r \in accepted[c]}

(* Correlation by client_id and request_id ("Correlation IDs for matching *)
(* responses"): every reply a running client takes as its own answers a   *)
(* request this very run sent, and received counts each of its requests   *)
(* once, however many servers (or restarted servers, which receive the    *)
(* request history again) answer it and whatever other clients' replies   *)
(* arrive in between.                                                      *)
RepliesCorrelated ==
    \A c \in Clients : pc[c] # "off" =>
        /\ \A r \in accepted[c] : r.to = Me(c)
        /\ received[c] = Cardinality(Answered(c))

====
