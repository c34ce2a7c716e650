-------------------------- MODULE MCNetworkCapture --------------------------
(* Three requests and two workers: a queue forms, every limit is reached. *)
EXTENDS NetworkCapture, TLC
=============================================================================
