------------------------------- MODULE Checksum -------------------------------
(***************************************************************************)
(* The address translation of one IPv4 datagram, internal/mux's rewrite:   *)
(* the header and transport checksums are computed again, or, in the first *)
(* fragment of a datagram whose rest is not at hand, adjusted.  Bytes are  *)
(* digits of any Base and a word is two of them (256 and 16 bits in the    *)
(* code): ones'-complement arithmetic is the same.  An address is one word *)
(* instead of two.  A datagram may be translated any number of times, as   *)
(* it is when both ends run the daemon.                                    *)
(***************************************************************************)
EXTENDS Integers, Sequences

CONSTANTS
  Base,      \* 256
  Addrs,     \* the addresses, words
  MaxData    \* bound on the bytes of data

Bytes == 0 .. Base - 1
M == Base * Base
Words == 0 .. M - 1

ASSUME BaseAssumption == Base \in Nat /\ Base > 1 /\ Addrs \subseteq Words

ASSUME MaxDataAssumption == MaxData \in Nat

VARIABLES
  d,        \* the datagram
  outcome   \* of its last rewrite: "ok", "dropped" for an error, "panic"

vars == <<d, outcome>>

\* Protocol numbers, nonzero as 1, 6 and 17 are, and another protocol.
Number == [icmp |-> 1, tcp |-> 2, udp |-> 3, other |-> 1]

Complement(w) == M - 1 - w

\* for s>>16 != 0 { s = (s & 0xffff) + (s >> 16) }
fold[s \in Nat] == IF s < M THEN s ELSE fold[(s % M) + (s \div M)]

\* The sum of the words in p, where an odd last byte is the high one of its word.
\* The 2^15 words of the longest datagram do not overflow the code's uint32.
WordSum(p) ==
  LET partial[i \in 0 .. Len(p)] ==
        IF i = 0 THEN 0 ELSE partial[i - 1] + (IF i % 2 = 1 THEN p[i] * Base ELSE p[i])
  IN  partial[Len(p)]

\* sum, of words that add up to s followed by the bytes p.
sum(s, p) == Complement(fold[s + WordSum(p)])

\* Mutant of adjustChecksum: the old words are not complemented.
adjustChecksumAdds(old, oldWords, newWords) ==
  LET s1 == fold[Complement(old) + oldWords[1] + newWords[1]]
      s2 == fold[s1 + oldWords[2] + newWords[2]]
  IN  Complement(s2)

\* RFC 1624: the old words, the two addresses, are taken out of the sum one after
\* the other, and the new ones put in.
adjustChecksum(old, oldWords, newWords) ==
  LET s1 == fold[Complement(old) + Complement(oldWords[1]) + newWords[1]]
      s2 == fold[s1 + Complement(oldWords[2]) + newWords[2]]
  IN  Complement(s2)

\* The words of the pseudo-header; the length is that of the transport part.
Pseudo(x, src, dst) == src + dst + Number[x.proto] + Len(x.data)

\* The checksum computed from nothing, over the pseudo-header and the transport
\* part; in UDP zero would say that there is none.
Computed(x, src, dst) ==
  LET c == sum(Pseudo(x, src, dst), x.data)
  IN  IF x.proto = "udp" /\ c = 0 THEN M - 1 ELSE c

\* The checks on the length.  A TCP checksum ends at byte 18 of the transport
\* part, yet an unfragmented segment is only checked to have 8.
Short(x) ==
  \/ x.proto \in {"tcp", "udp", "icmp"} /\ x.len = "short" /\ ~(x.proto = "icmp" /\ x.mf)
  \/ x.proto = "tcp" /\ x.len = "part" /\ x.mf
OutOfRange(x) == x.proto = "tcp" /\ x.len = "part" /\ ~x.mf

\* rewrite's transport checksum; a fragmented ICMP message keeps its own, which
\* does not cover the addresses.
Transport(x, src, dst) ==
  CASE x.proto \in {"tcp", "udp"} /\ x.mf ->
         adjustChecksum(x.ck, <<x.src, x.dst>>, <<src, dst>>)
    [] x.proto \in {"tcp", "udp"} /\ ~x.mf -> Computed(x, src, dst)
    [] x.proto = "icmp" /\ ~x.mf -> sum(0, x.data)
    [] OTHER -> x.ck

\* rewrite: the addresses and the header checksum, then the transport checksum.
\* Later fragments, which have no transport header, only get the former.
rewrite(x, src, dst) ==
  [x EXCEPT !.src = src, !.dst = dst,
            !.ipck = sum(src + dst + x.flags, <<>>),
            !.ck = Transport(x, src, dst)]

\* How a receiver checks the header, and the reassembled datagram.
HeaderVerifies(x) == fold[x.src + x.dst + x.flags + x.ipck] = M - 1

Verifies(x) ==
  CASE x.proto \in {"tcp", "udp"} ->
         \/ x.proto = "udp" /\ x.ck = 0
         \/ sum(Pseudo(x, x.src, x.dst) + x.ck, x.data) = 0
    [] x.proto = "icmp" -> sum(x.ck, x.data) = 0
    [] OTHER -> TRUE

\* A datagram as its sender made it: verified, or UDP without a checksum.
Init ==
  /\ outcome = "ok"
  /\ \E proto \in DOMAIN Number, mf \in BOOLEAN, len \in {"short", "part", "full"},
        src, dst \in Addrs, k \in 0 .. MaxData, bare \in BOOLEAN :
       \E data \in [1 .. k -> Bytes], ck \in Words :
         /\ d = [proto |-> proto, mf |-> mf, len |-> len, src |-> src, dst |-> dst,
                 flags |-> IF mf THEN 1 ELSE 0, data |-> data, ck |-> ck, bare |-> bare,
                 ipck |-> sum(src + dst + (IF mf THEN 1 ELSE 0), <<>>)]
         /\ bare => proto = "udp" /\ ck = 0
         /\ ~bare => ck = IF proto \in {"tcp", "udp"} THEN Computed(d, src, dst)
                          ELSE sum(0, data)

\* The mux translates the datagram.
Translate ==
  /\ outcome = "ok"
  /\ ~Short(d) /\ ~OutOfRange(d)
  /\ \E src, dst \in Addrs : d' = rewrite(d, src, dst)
  /\ UNCHANGED outcome

\* rewrite returns an error: the packet is dropped.
TranslateFails ==
  /\ outcome = "ok"
  /\ Short(d)
  /\ outcome' = "dropped"
  /\ UNCHANGED d

\* The checksum is written past the end of the segment.
TranslatePanics ==
  /\ outcome = "ok"
  /\ OutOfRange(d)
  /\ outcome' = "panic"
  /\ UNCHANGED d

Next == Translate \/ TranslateFails \/ TranslatePanics

Spec == Init /\ [][Next]_vars

-----------------------------------------------------------------------------
\* Properties.

\* Every variable has its type.
TypeOK ==
  /\ outcome \in {"ok", "dropped", "panic"}
  /\ d \in [proto : DOMAIN Number, mf : BOOLEAN, len : {"short", "part", "full"},
            src : Words, dst : Words, flags : {0, 1}, data : Seq(Bytes),
            ck : Words, bare : BOOLEAN, ipck : Words]

\* However often its addresses are translated, an accepted datagram is still
\* accepted by its receiver, for every protocol, odd lengths and the two zeros of
\* ones' complement included, whether the checksum is computed anew or adjusted
\* without the rest of the data; and unfragmented UDP never turns into UDP without
\* a checksum.  The exception is fragmented UDP sent without one: its zero is
\* adjusted as if it were a checksum.
StaysVerified ==
  /\ HeaderVerifies(d)
  /\ ~(d.bare /\ d.mf) => Verifies(d)
  /\ d.proto = "udp" /\ ~d.mf /\ ~d.bare => d.ck # 0
===============================================================================
