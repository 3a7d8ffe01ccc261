---------------------------- MODULE MCRtspAddress ----------------------------
(* The URLs that TLC puts to RtspAddress.                                  *)
EXTENDS RtspAddress

(* Parts of an address: none, bytes, a leading zero, just too large, too   *)
(* long, and not a number.                                                 *)
Parts == {<<>>, <<0>>, <<7>>, <<0, 7>>, <<2, 5, 5>>, <<2, 5, 6>>,
          <<1, 0, 0, 0>>, <<9, Letter>>}

Dotted(parts) == FoldLeft(LAMBDA h, p : h \o <<Dot>> \o p, parts[1], Tail(parts))

MCHosts ==
  {Dotted(p) : p \in [1 .. 4 -> Parts]}
    \cup {Dotted(p) : p \in UNION {[1 .. n -> {<<>>, <<7>>}] : n \in {1, 2, 3, 5}}}
    \cup {[i \in 1 .. n |-> 1] : n \in {63, 64}}

MCPorts == {<<>>, <<0>>, <<8, 5, 5, 4>>, <<6, 5, 5, 3, 6>>, <<6, 6, 0, 9, 0>>,
            <<Minus, 1>>, <<8, Colon, 9>>}

MCPaths == {<<>>, <<Slash, Letter, Colon, 1>>}
=============================================================================
