----------------------------- MODULE ByteQueues -----------------------------
(***************************************************************************)
(* What evbuffers promise (event2/buffer.h): each is a queue of bytes that *)
(* is changed at its ends, by whole strings, and by no operation on        *)
(* another buffer than those that take two.                                *)
(***************************************************************************)
EXTENDS Naturals, Sequences, SequencesExt

CONSTANTS Buf, Byte

VARIABLE content

Init == content = [b \in Buf |-> <<>>]

First(n, s) == SubSeq(s, 1, n)
Rest(n, s) == SubSeq(s, n + 1, Len(s))

\* One buffer: bytes are appended, prepended, or removed from its front.
Changed(old, new, b) ==
  /\ \A c \in Buf \ {b} : new[c] = old[c]
  /\ IsPrefix(old[b], new[b]) \/ IsSuffix(old[b], new[b]) \/ IsSuffix(new[b], old[b])

\* Two buffers: the first n bytes of one go to the end of the other, or all of them to its
\* front, or all of them are copied.
Passed(old, new, src, dst) ==
  /\ src # dst
  /\ \A c \in Buf \ {src, dst} : new[c] = old[c]
  /\ \/ \E n \in 1..Len(old[src]) :
          new[src] = Rest(n, old[src]) /\ new[dst] = old[dst] \o First(n, old[src])
     \/ new[src] = <<>> /\ new[dst] = old[src] \o old[dst]
     \/ new[src] = old[src] /\ new[dst] = old[dst] \o old[src]

Step(old, new) ==
  \/ \E b \in Buf : Changed(old, new, b)
  \/ \E src, dst \in Buf : Passed(old, new, src, dst)

Next == content' \in [Buf -> Seq(Byte)] /\ Step(content, content')

Spec == Init /\ [][Next]_content
=============================================================================
