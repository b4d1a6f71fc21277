---------------------------- MODULE MCSqsConsumer ----------------------------
(* Model-checking instance of SqsConsumer.                                 *)
EXTENDS SqsConsumer
=============================================================================
