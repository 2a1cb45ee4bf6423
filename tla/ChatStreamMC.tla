---------------------------- MODULE ChatStreamMC ----------------------------
(* Instances of ChatStream for TLC; the streams, the threads, and the      *)
(* requests are interchangeable.                                           *)
EXTENDS ChatStream, TLC

Symmetry == Permutations(Stream) \cup Permutations(Post) \cup Permutations(Thread)
=============================================================================
