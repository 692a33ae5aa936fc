------------------------------ MODULE Latency ------------------------------
(***************************************************************************)
(* The latency benchmark of the Python binding                             *)
(* (samples/06_performance/python/latency.py): one process runs run_ping,  *)
(* another run_pong, over the reliable, volatile topics LatencyPing and    *)
(* LatencyPong.                                                            *)
(*                                                                         *)
(* A message is its sequence number: the 8-byte timestamp and the 64 zero *)
(* bytes after it never change what either side does, and the echo is    *)
(* the ping's bytes unchanged.  As in RequestReply, a writer's history    *)
(* stands for what it sent and a reader's position in it for its cache:   *)
(* a sample the other side has not produced yet is one still in flight.   *)
(* The pong's reader, being volatile, gets only the pings written after   *)
(* it exists; when it starts is chosen freely, which covers the second    *)
(* of sleep the ping leaves for discovery.  An RTT sample is recorded as  *)
(* the pair (ping sent, echo received) its two timestamps come from.      *)
(***************************************************************************)
EXTENDS Integers, Sequences

CONSTANTS
    WARMUP_SAMPLES,   \* warmup pings (100 in the code)
    MAX_SAMPLES,      \* the cap main puts on argv[1] (10000 in the code)
    Args              \* the values of int(sys.argv[1]) considered

VARIABLES
    num_samples,  \* main's num_samples
    k,            \* the ping loop's step: warmup i, then WARMUP_SAMPLES + i
    sent,         \* the sequence number of the last ping written
    pings,        \* the pings written, in order (the PING writer's history)
    pongs,        \* the echoes written, in order (the PONG writer's history)
    pingGot,      \* how many of pongs the ping's reader took
    pongGot,      \* how far into pings the pong's reader is
    ppc,          \* where run_ping is
    opc,          \* where run_pong is
    count,        \* run_pong's count
    samples       \* stats.samples: one [ping, pong] pair per RTT recorded

vars == <<num_samples, k, sent, pings, pongs, pingGot, pongGot, ppc, opc, count, samples>>

Min2(a, b) == IF a < b THEN a ELSE b

(* run_ping before its first write: the writer on PING, the reader on     *)
(* PONG and its waitset exist, nothing was sent, stats.samples is empty.   *)
PingSetup ==
    /\ k = 0
    /\ sent = -1
    /\ pings = <<>>
    /\ pingGot = 0
    /\ samples = <<>>

(* main: num_samples = min(int(argv[1]), MAX_SAMPLES), then run_ping; the  *)
(* pong process has not started.                                           *)
Init ==
    /\ \E a \in Args : num_samples = Min2(a, MAX_SAMPLES)
    /\ PingSetup
    /\ ppc = IF WARMUP_SAMPLES + num_samples > 0 THEN "write" ELSE "done"
    /\ pongs = <<>>
    /\ pongGot = 0
    /\ opc = "off"
    /\ count = 0

InWarmup == k < WARMUP_SAMPLES
(* range(num_samples) is empty when num_samples <= 0.                       *)
Steps == WARMUP_SAMPLES + (IF num_samples > 0 THEN num_samples ELSE 0)

PongArrived == pingGot < Len(pongs)
PingArrived == opc # "off" /\ opc # "stopped" /\ pongGot < Len(pings)

(* The end of a loop iteration.  In the measurement loop the progress     *)
(* test (i + 1) % (num_samples // 10) comes first, and raises             *)
(* ZeroDivisionError when num_samples // 10 is 0; after the last step     *)
(* calculate_stats runs and run_ping returns.                              *)
EndStep ==
    IF ~InWarmup /\ num_samples \div 10 = 0
    THEN ppc' = "raised" /\ k' = k
    ELSE /\ k' = k + 1
         /\ ppc' = IF k + 1 < Steps THEN "write" ELSE "done"

(* writer.write(serialize_latency_msg(seq, get_time_ns(), PAYLOAD_SIZE)). *)
PingWrite ==
    /\ ppc = "write"
    /\ pings' = Append(pings, k)
    /\ sent' = k
    /\ ppc' = "wait"
    /\ UNCHANGED <<num_samples, k, pongs, pingGot, pongGot, opc, count, samples>>

(* waitset.wait(timeout=1.0): True as soon as the PONG reader holds an    *)
(* echo, False when none came within the second.                           *)
PingWait ==
    /\ ppc = "wait"
    /\ \/ PongArrived /\ ppc' = "take" /\ UNCHANGED k
       \/ ~PongArrived /\ EndStep
    /\ UNCHANGED <<num_samples, sent, pings, pongs, pingGot, pongGot, opc, count, samples>>

(* reader.take(): the next echo in the cache, whichever ping it echoes.   *)
(* In the warmup it is dropped; in the measurement the RTT is taken from  *)
(* send_time, the time the last ping was sent.                             *)
PingTake ==
    /\ ppc = "take"
    /\ pingGot' = pingGot + 1
    /\ samples' = IF InWarmup THEN samples
                  ELSE Append(samples, [ping |-> sent, pong |-> pongs[pingGot + 1]])
    /\ EndStep
    /\ UNCHANGED <<num_samples, sent, pings, pongs, pongGot, opc, count>>

(* run_pong starts: its reader exists from now on, and being volatile     *)
(* gets none of the pings written before.                                  *)
PongStart ==
    /\ opc = "off"
    /\ opc' = "wait"
    /\ pongGot' = Len(pings)
    /\ UNCHANGED <<num_samples, k, sent, pings, pongs, pingGot, ppc, count, samples>>

(* waitset.wait(timeout=5.0): True once a ping is there; on timeout it    *)
(* prints and waits again.                                                 *)
PongWait ==
    /\ opc = "wait"
    /\ \/ PingArrived /\ opc' = "take"
       \/ ~PingArrived /\ UNCHANGED opc
    /\ UNCHANGED <<num_samples, k, sent, pings, pongs, pingGot, pongGot, ppc, count, samples>>

(* The inner loop: take until None, writing every ping back unchanged.    *)
PongTake ==
    /\ opc = "take"
    /\ \/ /\ PingArrived
          /\ pongs' = Append(pongs, pings[pongGot + 1])
          /\ pongGot' = pongGot + 1
          /\ count' = count + 1
          /\ UNCHANGED opc
       \/ /\ ~PingArrived
          /\ opc' = "wait"
          /\ UNCHANGED <<pongs, pongGot, count>>
    /\ UNCHANGED <<num_samples, k, sent, pings, pingGot, ppc, samples>>

(* Ctrl+C ends run_pong wherever it is.  The echoes the ping's reader     *)
(* already holds stay there (at least the one its wait saw); the ones     *)
(* still in flight are lost.                                               *)
Delivered == pingGot + (IF ppc = "take" THEN 1 ELSE 0)

PongStop ==
    /\ opc \in {"wait", "take"}
    /\ opc' = "stopped"
    /\ \E n \in Delivered .. Len(pongs) : pongs' = SubSeq(pongs, 1, n)
    /\ UNCHANGED <<num_samples, k, sent, pings, pingGot, pongGot, ppc, count, samples>>

Next ==
    \/ PingWrite \/ PingWait \/ PingTake
    \/ PongStart \/ PongWait \/ PongTake \/ PongStop

Spec == Init /\ [][Next]_vars

(* The type of every variable.                                            *)
TypeOK ==
    /\ num_samples \in Int
    /\ k \in 0 .. WARMUP_SAMPLES + MAX_SAMPLES
    /\ ppc \in {"write", "wait", "take", "raised", "done"}
    /\ opc \in {"off", "wait", "take", "stopped"}
    /\ pingGot \in 0 .. Len(pongs)
    /\ pongGot \in 0 .. Len(pings)
    /\ \A j \in DOMAIN samples : samples[j] \in [ping : Nat, pong : Nat]

(* Every round-trip time run_ping records is measured from the ping it    *)
(* just sent to the echo of that same ping (the pairing the docstring's   *)
(* "Subscriber echoes back, Publisher calculates round-trip time" means). *)
(* The code takes whatever echo is in the reader's cache and never looks  *)
(* at the sequence number it serialized (deserialize_latency_msg is       *)
(* unused).                                                                *)
RttOfOwnPing == \A j \in DOMAIN samples : samples[j].pong = samples[j].ping

(* run_ping, once main has accepted num_samples, runs its loop to the end *)
(* and reports its statistics: main takes any integer argv[1], capping it *)
(* only from above, and catches only KeyboardInterrupt.  The progress     *)
(* test divides by num_samples // 10, which is 0 for 1 to 9 samples.       *)
RunPingReturns == ppc # "raised"
=============================================================================
