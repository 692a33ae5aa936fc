------------------------------- MODULE MCQos -------------------------------
(* Two QoS objects, so a clone or a second profile exists, one endpoint,  *)
(* and two builder calls: one before and one after the endpoint is made.  *)
EXTENDS Qos

CONSTANTS q1, q2, e1, p1

MCQosObjs == {q1, q2}
MCEndpoints == {e1}
MCMillis == {1}
MCDepths == {2}
MCNames == {p1}
MCMaxBuilds == 2
=============================================================================
