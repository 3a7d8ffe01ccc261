---------------------------- MODULE MCRtspServer ----------------------------
(* RtspServer with two connections for TLC.                                *)
EXTENDS RtspServer, TLC

(* The connections are interchangeable, and so are the descriptors.        *)
ConnFdSymmetry == Permutations(Conn) \cup Permutations(Fd)
=============================================================================
