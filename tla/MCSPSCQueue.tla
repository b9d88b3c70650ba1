---------------------------- MODULE MCSPSCQueue ----------------------------
(* Model-checking instance of SPSCQueue: two payloads tell items apart. *)
EXTENDS SPSCQueue

CONSTANTS a, b

MCValues == {a, b}
===========================================================================
