-------------------------- MODULE MCAcknowledgement --------------------------
(* Instances of Acknowledgement for TLC: the clusters of MCLeadership.       *)
EXTENDS Acknowledgement, MCLeadership
=============================================================================
