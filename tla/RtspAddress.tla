------------------------------ MODULE RtspAddress ------------------------------
(***************************************************************************)
(* What ab_rtsp_client_new makes of the URL it is given: the host and the  *)
(* port that parse_rtsp_addr cuts out of it, the test of the host by       *)
(* ip_check.c, and whether the client goes on to connect.                  *)
(*                                                                         *)
(* A character is a digit, 0 to 9, or one of a few others.  The host has   *)
(* no colon when ip_check sees it, so that its IPv6 half never runs and is *)
(* left out.  The URLs fit the buffers they are copied to.                 *)
(***************************************************************************)
EXTENDS Integers, Sequences, FiniteSetsExt, SequencesExt

CONSTANTS
  Hosts,     \* what a URL may have for a host: no colon and no slash
  Ports,     \* what may stand after the colon: at most 7 characters, no slash
  Paths,     \* what may follow: empty, or a slash and more
  NoPort     \* the URL has no colon before its path

Dot    == 10
Colon  == 11
Slash  == 12
Minus  == 13
Letter == 14
Digit  == 0 .. 9
Char   == Digit \cup {Dot, Colon, Slash, Minus, Letter}

ASSUME AddressAssumption ==
  /\ Hosts \cup Ports \cup Paths \subseteq Seq(Char)
  /\ \A h \in Hosts : Range(h) \cap {Colon, Slash} = {}
  /\ \A p \in Ports : Len(p) <= 7 /\ Slash \notin Range(p)
  /\ \A p \in Paths : p = <<>> \/ p[1] = Slash
  /\ NoPort \notin Ports

VARIABLES
  url,      \* [scheme: whether "rtsp://" is there, host, port, path]
  host,     \* host_buf
  port,     \* the port
  verdict   \* "new", "parsed", "connect" or "refused" (NULL is returned)

vars == <<url, host, port, verdict>>

(* What stands after "rtsp://".                                            *)
Text(u) ==
  u.host \o (IF u.port = NoPort THEN <<>> ELSE <<Colon>> \o u.port) \o u.path

Init ==
  /\ url \in [scheme : BOOLEAN, host : Hosts, port : Ports \cup {NoPort},
              path : Paths]
  /\ host = <<>> /\ port = 0 /\ verdict = "new"

-----------------------------------------------------------------------------
(* parse_rtsp_addr.                                                        *)

(* The part of s before the first c, all of it when there is none.         *)
Before(s, c) ==
  SubSeq(s, 1, Min({i \in DOMAIN s : s[i] = c} \cup {Len(s) + 1}) - 1)

After(s, c) == SubSeq(s, Len(Before(s, c)) + 2, Len(s))

HostBufSize == 64

(* Fault: the colon is sought before the path is cut off.                  *)
WholeText(s) == s

WithoutPath(s) == Before(s, Slash)

(* What the digits of s amount to.                                         *)
Number(s) ==
  LET n[i \in 0 .. Len(s)] == IF i = 0 THEN 0 ELSE 10 * n[i - 1] + s[i]
  IN n[Len(s)]

(* atoi: a sign, then the digits up to the first other character.          *)
Digits(s) ==
  SubSeq(s, 1, Min({i \in DOMAIN s : s[i] \notin Digit} \cup {Len(s) + 1}) - 1)

Atoi(s) == IF s # <<>> /\ s[1] = Minus THEN 0 - Number(Digits(Tail(s)))
                                       ELSE Number(Digits(s))

(* Fault: a port is not cut to 16 bits.                                    *)
AsInt(n) == n

AsUnsignedShort(n) == n % 65536

Parse ==
  /\ verdict = "new"
  /\ LET buf  == WithoutPath(Text(url))
         name == Before(buf, Colon)
     IN \/ /\ ~url.scheme \/ (Contains(buf, Colon) /\ Len(name) >= HostBufSize)
           /\ verdict' = "refused" /\ UNCHANGED <<host, port>>
        \/ /\ url.scheme /\ Contains(buf, Colon) /\ Len(name) < HostBufSize
           /\ host' = name /\ port' = AsUnsignedShort(Atoi(After(buf, Colon)))
           /\ verdict' = "parsed"
        \/ /\ url.scheme /\ ~Contains(buf, Colon)
           /\ host' = IF Len(buf) < HostBufSize THEN buf ELSE host
           /\ port' = 554
           /\ verdict' = "parsed"
  /\ UNCHANGED url

-----------------------------------------------------------------------------
(* ip_check.                                                               *)

(* Fault: a leading zero is let through.                                   *)
AnyIPV4Num(s) == Len(s) <= 3 /\ Range(s) \subseteq Digit /\ Number(s) <= 255

isValidIPV4Num(s) ==
  /\ s # <<>> /\ s[1] = 0 => Len(s) = 1
  /\ Len(s) <= 3
  /\ Range(s) \subseteq Digit
  /\ Number(s) <= 255

(* doCheck of a host with a dot.  No part but the first can be empty: the  *)
(* character after a dot is looked at, the one before it is not.           *)
doCheck(h) ==
  LET dots   == {i \in DOMAIN h : h[i] = Dot}
      begins == {1} \cup {i + 1 : i \in dots}
  IN /\ \A i \in dots : i + 1 \in DOMAIN h \ dots
     /\ \A b \in begins :
          isValidIPV4Num(Before(SubSeq(h, b, Len(h)), Dot))
     /\ Cardinality(begins) = 4

ip_check(h) == Contains(h, Dot) /\ doCheck(h)

Check ==
  /\ verdict = "parsed"
  /\ verdict' = IF ip_check(host) /\ port # 0 THEN "connect" ELSE "refused"
  /\ UNCHANGED <<url, host, port>>

Next == Parse \/ Check

Spec == Init /\ [][Next]_vars

-----------------------------------------------------------------------------
(* What the two are for, said without them.                                *)

(* The decimal numerals of a byte.                                         *)
Numerals ==
  {<<n>> : n \in Digit}
    \cup {<<n \div 10, n % 10>> : n \in 10 .. 99}
    \cup {<<n \div 100, (n \div 10) % 10, n % 10>> : n \in 100 .. 255}

(* Four numerals with dots between them, the first of which may be empty.  *)
Quad(h) ==
  \E i, j, k \in {d \in DOMAIN h : h[d] = Dot} :
    /\ i < j /\ j < k
    /\ SubSeq(h, 1, i - 1) \in Numerals \cup {<<>>}
    /\ {SubSeq(h, i + 1, j - 1), SubSeq(h, j + 1, k - 1),
        SubSeq(h, k + 1, Len(h))} \subseteq Numerals

(* The value of a port: each of its digits, at most 7, has a place value.  *)
Place(p, k) == IF k < Len(p) THEN p[Len(p) - k] ELSE 0

Value(p) ==
  Place(p, 0) + 10 * Place(p, 1) + 100 * Place(p, 2) + 1000 * Place(p, 3)
    + 10000 * Place(p, 4) + 100000 * Place(p, 5) + 1000000 * Place(p, 6)

-----------------------------------------------------------------------------
(* The client connects to four bytes in decimal and to nothing else, but   *)
(* for an address whose first byte is missing, which ip_check.c:70 lets    *)
(* through; and an address with four bytes is refused for its port only.   *)
QuadsAccepted ==
  /\ verdict = "connect" => url.scheme /\ host = url.host /\ Quad(url.host)
  /\ verdict = "refused" => ~url.scheme \/ ~Quad(url.host) \/ port = 0

(* A port is the number the URL says, modulo 2^16: one that does not fit   *)
(* is not refused, and 554 stands for none.  The port is never 0.          *)
PortTaken ==
  verdict = "connect" =>
    /\ port \in Nat /\ 0 < port /\ port < 65536
    /\ url.port = NoPort => port = 554
    /\ url.port # NoPort /\ Range(url.port) \subseteq Digit
         => port = Value(url.port) % 65536
=============================================================================
