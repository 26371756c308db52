------------------------------ MODULE EvBuffer ------------------------------
(***************************************************************************)
(* buffer.c: evbuffers, whose bytes lie in chains of memory.               *)
(*                                                                         *)
(* Every operation runs under the locks of its buffers and is one step.    *)
(* The operators below take a state and give the next.  The memory of a    *)
(* chain is a block of cells; a block is in use as long as a chain of some *)
(* buffer refers to it, which stands for the reference counts of chains.   *)
(* A cell that no chain counts among its bytes holds Junk.                 *)
(***************************************************************************)
EXTENDS Naturals, Sequences, SequencesExt, FiniteSetsExt

CONSTANTS
  Buf, Byte, Junk,
  Input,                    \* the strings that are given to a call
  Api,                      \* the operations that are called
  Block,                    \* the memory blocks there are, 1..n
  MaxData, MaxLen,          \* the most bytes asked for by one call, and in all buffers
  EVBUFFER_CHAIN_SIZE,      \* the header of a chain
  MIN_BUFFER_SIZE,          \* the smallest allocation
  EVBUFFER_CHAIN_MAX_AUTO_SIZE

EvBufferAssumption ==
  /\ Junk \notin Byte /\ Input \subseteq Seq(Byte) /\ Block = 1..Cardinality(Block)
  /\ {MaxData, MaxLen, EVBUFFER_CHAIN_SIZE, EVBUFFER_CHAIN_MAX_AUTO_SIZE} \subseteq Nat
  /\ MIN_BUFFER_SIZE \in Nat \ {0}

VARIABLES
  chains,           \* the chains of each buffer, from first to last
  last_with_data,   \* the index of the chain at *last_with_datap
  total_len,
  n_add_for_cb, n_del_for_cb,
  reported,         \* the size that the callbacks of each buffer saw last
  memory            \* the cells of each block

vars == <<chains, last_with_data, total_len, n_add_for_cb, n_del_for_cb, reported, memory>>

Init ==
  /\ chains = [b \in Buf |-> <<>>]
  /\ last_with_data = [b \in Buf |-> 1]
  /\ total_len = [b \in Buf |-> 0]
  /\ n_add_for_cb = [b \in Buf |-> 0] /\ n_del_for_cb = [b \in Buf |-> 0]
  /\ reported = [b \in Buf |-> 0]
  /\ memory = [m \in Block |-> <<>>]

State == [chains |-> chains, lwd |-> last_with_data, total |-> total_len,
          added |-> n_add_for_cb, deleted |-> n_del_for_cb, reported |-> reported,
          memory |-> memory]

-----------------------------------------------------------------------------
(* Chains                                                                  *)

Space(c) == IF c.immutable THEN 0 ELSE c.len - (c.misalign + c.off)

Data(S, c) == SubSeq(S.memory[c.block], c.misalign + 1, c.misalign + c.off)

Content(S, b) == FoldLeft(LAMBDA s, c : s \o Data(S, c), <<>>, S.chains[b])

Bufs == SetToSeq(Buf)

\* The blocks that chains refer to, in the order of the chains.
UsedBlocks(S) ==
  LET cs == FoldLeft(LAMBDA s, b : s \o S.chains[b], <<>>, Bufs)
  IN  FoldLeft(LAMBDA ms, c : IF c.block \in ToSet(ms) THEN ms ELSE Append(ms, c.block), <<>>, cs)

\* Blocks that no chain refers to are freed, cells that no chain counts are junk, and the
\* blocks are numbered anew (their addresses do not matter).
Swept(S) ==
  LET all == UNION {ToSet(S.chains[b]) : b \in Buf}
      used == UsedBlocks(S)
      counted(m) == UNION {(c.misalign + 1)..(c.misalign + c.off) : c \in {d \in all : d.block = m}}
      number(m) == CHOOSE k \in DOMAIN used : used[k] = m
  IN  [S EXCEPT
         !.memory = [k \in Block |->
            IF k > Len(used) THEN <<>>
            ELSE LET m == used[k]
                     cells == counted(m)
                 IN  [i \in DOMAIN S.memory[m] |-> IF i \in cells THEN S.memory[m][i] ELSE Junk]],
         !.chains = [b \in Buf |-> [i \in DOMAIN S.chains[b] |->
                       [S.chains[b][i] EXCEPT !.block = number(@)]]]]

\* The sizes are powers of two with the header.
ChainLen(size) ==
  LET k == CHOOSE k \in 0..(size + EVBUFFER_CHAIN_SIZE) :
             /\ MIN_BUFFER_SIZE * 2^k >= size + EVBUFFER_CHAIN_SIZE
             /\ \A j \in 0..(k - 1) : MIN_BUFFER_SIZE * 2^j < size + EVBUFFER_CHAIN_SIZE
  IN  MIN_BUFFER_SIZE * 2^k - EVBUFFER_CHAIN_SIZE

\* evbuffer_chain_new: a chain and the state in which its block is allocated.
FreeBlock(S) == Min({m \in Block : S.memory[m] = <<>>})

NewChain(S, size) ==
  [block |-> FreeBlock(S), misalign |-> 0, off |-> 0, len |-> ChainLen(size),
   immutable |-> FALSE, multicast |-> FALSE]

Allocated(S, size) ==
  [S EXCEPT !.memory[FreeBlock(S)] = [i \in 1..ChainLen(size) |-> Junk]]

Write(S, m, at, data) ==
  [S EXCEPT !.memory[m] = [i \in DOMAIN @ |->
     IF i \in (at + 1)..(at + Len(data)) THEN data[i - at] ELSE @[i]]]

Emptied(S, b) == [S EXCEPT !.chains[b] = <<>>, !.lwd[b] = 1, !.total[b] = 0]

\* evbuffer_free_trailing_empty_chains: the chains that are left.
Untrailed(S, b) ==
  LET cs == S.chains[b]
      empty == {i \in S.lwd[b]..Len(cs) : cs[i].off = 0}
  IN  IF empty = {} THEN cs ELSE SubSeq(cs, 1, Min(empty) - 1)

evbuffer_chain_insert(S, b, c) ==
  LET kept == Untrailed(S, b)
  IN  [S EXCEPT !.chains[b] = Append(kept, c), !.total[b] = @ + c.off,
                !.lwd[b] = IF S.chains[b] # <<>> /\ c.off > 0 THEN Len(kept) + 1 ELSE @]

evbuffer_chain_insert_new(S, b, size) ==
  evbuffer_chain_insert(Allocated(S, size), b, NewChain(S, size))

\* The end of a run of chains that follow one another with data in them.
advance_last_with_data(S, b) ==
  LET cs == S.chains[b]
      last == Max({j \in S.lwd[b]..Len(cs) : \A i \in (S.lwd[b] + 1)..j : cs[i].off > 0})
  IN  IF cs = <<>> THEN S ELSE [S EXCEPT !.lwd[b] = last]

evbuffer_chain_should_realign(c, datlen) == c.len - c.off >= datlen /\ c.off < c.len \div 2

\* Fault: the bytes are left where they are.
AlignOnly(S, b, i) == [S EXCEPT !.chains[b][i].misalign = 0]

evbuffer_chain_align(S, b, i) ==
  LET c == S.chains[b][i]
  IN  [Write(S, c.block, 0, Data(S, c)) EXCEPT !.chains[b][i].misalign = 0]

evbuffer_invoke_callbacks_(S, b) ==
  IF S.added[b] = 0 /\ S.deleted[b] = 0 THEN S
  ELSE [S EXCEPT !.reported[b] = @ + S.added[b] - S.deleted[b],
                 !.added[b] = 0, !.deleted[b] = 0]

\* Fault: the callbacks are not to hear of the bytes.
AddedOnly(S, b, n) == [S EXCEPT !.total[b] = @ + n]

Added(S, b, n) == [S EXCEPT !.total[b] = @ + n, !.added[b] = @ + n]

-----------------------------------------------------------------------------
(* Adding and removing bytes                                               *)

\* The bytes go to the end of chain i, which has room for them.
Fill(S, b, i, data) ==
  LET c == S.chains[b][i]
  IN  Added([Write(S, c.block, c.misalign + c.off, data)
               EXCEPT !.chains[b][i].off = @ + Len(data)], b, Len(data))

\* The bytes that do not fit into the last chain with data go to a new one.
AddInNewChain(T, b, first, rest, size) ==
  LET new == [NewChain(T, size) EXCEPT !.off = Len(rest)]
      U == Fill(Allocated(T, size), b, T.lwd[b], first)
  IN  [evbuffer_chain_insert(Write(U, new.block, 0, rest), b, new) EXCEPT !.added[b] = @ + Len(rest)]

\* The length of that chain, which doubles as long as chains are small.
NextSize(len, n) ==
  LET double == IF len <= EVBUFFER_CHAIN_MAX_AUTO_SIZE \div 2 THEN 2 * len ELSE len
  IN  IF n > double THEN n ELSE double

AddTo(T, b, data) ==
  LET i == T.lwd[b]
      c == T.chains[b][i]
      remain == Space(c)
  IN  IF ~c.immutable /\ remain >= Len(data) THEN Fill(T, b, i, data)
      ELSE IF ~c.immutable /\ evbuffer_chain_should_realign(c, Len(data))
      THEN Fill(evbuffer_chain_align(T, b, i), b, i, data)
      ELSE AddInNewChain(T, b, SubSeq(data, 1, remain), SubSeq(data, remain + 1, Len(data)),
                         NextSize(c.len, Len(data)))

\* The buffer with a chain, if it had none.
WithChain(S, b, size) == IF S.chains[b] = <<>> THEN evbuffer_chain_insert_new(S, b, size) ELSE S

evbuffer_add(S, b, data) ==
  evbuffer_invoke_callbacks_(AddTo(WithChain(S, b, Len(data)), b, data), b)

\* Fault: when the last chain with data is the first one, the new chain is taken for it.
PrependFirst(S, b, data) ==
  LET c == [NewChain(S, Len(data)) EXCEPT !.off = Len(data),
                                          !.misalign = ChainLen(Len(data)) - Len(data)]
      T == Write(Allocated(S, Len(data)), c.block, c.misalign, data)
  IN  evbuffer_invoke_callbacks_(
        Added([T EXCEPT !.chains[b] = <<c>> \o @, !.lwd[b] = IF @ = 1 THEN 1 ELSE @ + 1],
              b, Len(data)), b)

\* The bytes end where `at` cells of the first chain end.
PutBefore(T, b, at, data) ==
  Added([Write(T, T.chains[b][1].block, at - Len(data), data)
           EXCEPT !.chains[b][1].misalign = at - Len(data),
                  !.chains[b][1].off = @ + Len(data)], b, Len(data))

PrependChain(T, b, data) ==
  LET new == [NewChain(T, Len(data)) EXCEPT !.off = Len(data),
                                            !.misalign = ChainLen(Len(data)) - Len(data)]
  IN  Added([Write(Allocated(T, Len(data)), new.block, new.misalign, data)
               EXCEPT !.chains[b] = <<new>> \o @, !.lwd[b] = @ + 1], b, Len(data))

\* As much as there is room for goes in front of the first chain's bytes.
PrependTo(T, b, data) ==
  LET c == T.chains[b][1]
      at == IF c.off = 0 THEN c.len ELSE c.misalign
  IN  IF c.immutable THEN PrependChain(T, b, data)
      ELSE IF at >= Len(data) THEN PutBefore(T, b, at, data)
      ELSE PrependChain(PutBefore(T, b, at, SubSeq(data, Len(data) - at + 1, Len(data))), b,
                        SubSeq(data, 1, Len(data) - at))

evbuffer_prepend(S, b, data) ==
  evbuffer_invoke_callbacks_(PrependTo(WithChain(S, b, Len(data)), b, data), b)

\* The number of bytes in chains f to t of a sequence.
Bytes(cs, f, t) == FoldSet(LAMBDA i, n : n + cs[i].off, 0, f..t)

\* How many chains, from f on, hold no more than n bytes.
Whole(cs, f, n) == Max({j \in (f - 1)..Len(cs) : Bytes(cs, f, j) <= n})

evbuffer_drain(S, b, len) ==
  LET cs == S.chains[b]
      k == Whole(cs, 1, len)
      rest == len - Bytes(cs, 1, k)
      T == IF len = S.total[b] THEN Emptied(S, b)
           ELSE [S EXCEPT !.chains[b] = [SubSeq(cs, k + 1, Len(cs)) EXCEPT
                                           ![1].misalign = @ + rest, ![1].off = @ - rest],
                          !.lwd[b] = IF @ <= k + 1 THEN 1 ELSE @ - k,
                          !.total[b] = @ - len]
  IN  evbuffer_invoke_callbacks_([T EXCEPT !.deleted[b] = @ + len], b)

-----------------------------------------------------------------------------
(* Two buffers                                                             *)

Moved(S, src, dst, T) ==
  evbuffer_invoke_callbacks_(
    evbuffer_invoke_callbacks_(
      [Emptied(T, src) EXCEPT !.deleted[src] = @ + S.total[src],
                              !.added[dst] = @ + S.total[src]], src), dst)

\* COPY_CHAIN, when dst has no bytes.
Taken(S, src, dst) ==
  [S EXCEPT !.chains[dst] = S.chains[src], !.lwd[dst] = S.lwd[src], !.total[dst] = S.total[src]]

evbuffer_add_buffer(S, dst, src) ==
  LET kept == Untrailed(S, dst)
  IN  IF S.total[src] = 0 THEN S
      ELSE Moved(S, src, dst,
             IF S.total[dst] = 0 THEN Taken(S, src, dst)
             ELSE [S EXCEPT !.chains[dst] = kept \o S.chains[src],
                            !.lwd[dst] = Len(kept) + S.lwd[src],
                            !.total[dst] = @ + S.total[src]])

evbuffer_prepend_buffer(S, dst, src) ==
  IF S.total[src] = 0 THEN S
  ELSE Moved(S, src, dst,
         IF S.total[dst] = 0 THEN Taken(S, src, dst)
         ELSE [S EXCEPT !.chains[dst] = S.chains[src] \o @,
                        !.lwd[dst] = @ + Len(S.chains[src]),
                        !.total[dst] = @ + S.total[src]])

\* The chains of src become read-only, and dst gets chains that refer to their blocks.
APPEND_CHAIN_MULTICAST(S, dst, src) ==
  LET full == SelectSeq(S.chains[src], LAMBDA c : c.off > 0)
      T == FoldSet(LAMBDA i, U : [U EXCEPT !.chains[src][i].immutable = TRUE], S,
                   {i \in DOMAIN S.chains[src] : S.chains[src][i].off > 0})
  IN  FoldLeft(LAMBDA U, c : evbuffer_chain_insert(
                               U, dst, [c EXCEPT !.immutable = TRUE, !.multicast = TRUE]),
               T, full)

evbuffer_add_buffer_reference(S, dst, src) ==
  IF S.total[src] = 0 \/ \E i \in DOMAIN S.chains[src] : S.chains[src][i].multicast THEN S
  ELSE evbuffer_invoke_callbacks_(
         [APPEND_CHAIN_MULTICAST(S, dst, src) EXCEPT !.added[dst] = @ + S.total[src]], dst)

\* Whole chains go over, and the rest of the bytes are copied.
evbuffer_remove_buffer(S, src, dst, datlen) ==
  LET cs == S.chains[src]
      k == Whole(cs, 1, datlen)
      nread == Bytes(cs, 1, k)
      rest == datlen - nread
      chain == cs[k + 1]
      T == IF nread = 0
           THEN [S EXCEPT !.lwd[src] = IF @ = k + 1 THEN 1 ELSE @]
           ELSE Added(advance_last_with_data(
                  [S EXCEPT !.chains[dst] = Untrailed(S, dst) \o SubSeq(cs, 1, k),
                            !.chains[src] = SubSeq(cs, k + 1, Len(cs)),
                            !.lwd[src] = IF @ = k + 1 THEN 1 ELSE @ - k], dst), dst, nread)
      i == IF nread = 0 THEN k + 1 ELSE 1
      U == evbuffer_add(T, dst, SubSeq(Data(S, chain), 1, rest))
      V == [U EXCEPT !.chains[src][i].misalign = @ + rest, !.chains[src][i].off = @ - rest,
                     !.total[src] = @ - datlen, !.deleted[src] = @ + datlen]
  IN  IF datlen >= S.total[src] THEN evbuffer_add_buffer(S, dst, src)
      ELSE evbuffer_invoke_callbacks_(evbuffer_invoke_callbacks_(V, dst), src)

-----------------------------------------------------------------------------
(* Room and contiguous bytes                                               *)

\* Chain tmp takes the bytes of the chains from f on, and stands in front of what they leave.
PullInto(T, b, size, tmp, f) ==
  LET cs == T.chains[b]
      k == Whole(cs, f, size - tmp.off)
      rest == size - tmp.off - Bytes(cs, f, k)
      after == SubSeq(cs, k + 1, Len(cs))
      left == IF after = <<>> THEN <<>>
              ELSE [after EXCEPT ![1].misalign = @ + rest, ![1].off = @ - rest]
  IN  [Write(T, tmp.block, tmp.misalign + tmp.off, SubSeq(Content(T, b), tmp.off + 1, size))
         EXCEPT !.chains[b] = <<[tmp EXCEPT !.off = size]>> \o left,
                !.lwd[b] = CASE @ \in f..k -> 1
                             [] @ = k + 1 -> IF left # <<>> /\ left[1].off > 0 THEN 2 ELSE 1
                             [] OTHER -> @ - k + 1]

\* The first chain takes the bytes of others, in place if its block is long enough.
evbuffer_pullup(S, b, size) ==
  LET first == S.chains[b][1]
  IN  IF size = 0 \/ size > S.total[b] \/ first.off >= size THEN S
      ELSE IF first.len - first.misalign >= size THEN PullInto(S, b, size, first, 2)
      ELSE PullInto(Allocated(S, size), b, size, NewChain(S, size), 1)

\* The state, and the index of the chain that has room for datlen bytes.
evbuffer_expand_singlechain(S, b, datlen) ==
  LET cs == S.chains[b]
      i == IF cs # <<>> /\ Space(cs[S.lwd[b]]) = 0 THEN S.lwd[b] + 1 ELSE S.lwd[b]
      c == cs[i]
      I == evbuffer_chain_insert_new(S, b, datlen)
      insert_new == [state |-> I, at |-> Len(I.chains[b])]
      larger == [NewChain(S, c.off + datlen) EXCEPT !.off = c.off]
  IN  CASE i > Len(cs) -> insert_new
        [] i <= Len(cs) /\ c.immutable -> insert_new
        [] i <= Len(cs) /\ ~c.immutable ->
             IF Space(c) >= datlen THEN [state |-> S, at |-> i]
             ELSE IF c.off = 0 THEN insert_new
             ELSE IF evbuffer_chain_should_realign(c, datlen)
             THEN [state |-> evbuffer_chain_align(S, b, i), at |-> i]
             ELSE IF Space(c) >= c.len \div 8
             THEN [state |-> [Write(Allocated(S, c.off + datlen), larger.block, 0, Data(S, c))
                                EXCEPT !.chains[b][i] = larger], at |-> i]
             ELSE IF i < Len(cs) /\ Space(cs[i + 1]) >= datlen
             THEN [state |-> S, at |-> i + 1]
             ELSE insert_new

\* Room for datlen bytes in at most n chains from the last one with data on.
evbuffer_expand_fast_(S, b, datlen, n) ==
  LET cs == S.chains[b]
      from == S.lwd[b]
      room(i) == IF cs[i].off > 0 THEN Space(cs[i]) ELSE cs[i].len
      avail(j) == FoldSet(LAMBDA i, a : a + room(i), 0, from..j)
      used(j) == Cardinality({i \in from..j : cs[i].off = 0 \/ room(i) > 0})
      ends == {j \in from..Len(cs) : avail(j) >= datlen \/ used(j) = n}
      stop == IF ends = {} THEN Len(cs) ELSE Min(ends)
      T == FoldSet(LAMBDA i, U : [U EXCEPT !.chains[b][i].misalign = 0], S,
                   {i \in from..stop : cs[i].off = 0})
      kept == IF cs[from].off = 0 THEN <<>> ELSE SubSeq(T.chains[b], 1, from)
      missing == IF kept = <<>> THEN datlen ELSE datlen - Space(cs[from])
  IN  IF cs = <<>> \/ Last(cs).immutable THEN evbuffer_chain_insert_new(S, b, datlen)
      ELSE IF avail(stop) >= datlen THEN T
      ELSE IF used(stop) < n
      THEN [Allocated(T, datlen - avail(stop))
              EXCEPT !.chains[b] = Append(@, NewChain(S, datlen - avail(stop)))]
      ELSE [Allocated(T, missing) EXCEPT !.chains[b] = Append(kept, NewChain(S, missing))]

\* evbuffer_read_setup_vecs_: the first chain with room.
FirstRoom(S, b) == S.lwd[b] + (IF Space(S.chains[b][S.lwd[b]]) = 0 THEN 1 ELSE 0)

\* Bytes at the end of chain i, which is then the last with data, if there are any.
FillPart(S, b, i, data) ==
  IF data = <<>> THEN S ELSE [Fill(S, b, i, data) EXCEPT !.lwd[b] = i]

\* The parts of the bytes go to the ends of chain i and of the next.
FillTwo(S, b, i, one, two) == FillPart(FillPart(S, b, i, one), b, i + 1, two)

\* recv() fills what space two chains have, one after the other.
ReadInto(T, b, data) ==
  LET i == FirstRoom(T, b)
      space == Space(T.chains[b][i])
      m == IF Len(data) > space THEN space ELSE Len(data)
      more == IF i < Len(T.chains[b]) THEN Space(T.chains[b][i + 1]) ELSE 0
      n == IF Len(data) > m + more THEN m + more ELSE Len(data)
  IN  IF data = <<>> THEN T
      ELSE evbuffer_invoke_callbacks_(
             FillTwo(T, b, i, SubSeq(data, 1, m), SubSeq(data, m + 1, n)), b)

evbuffer_read(S, b, howmuch, data) ==
  ReadInto(evbuffer_expand_fast_(S, b, howmuch, 4), b, data)

\* Space for size bytes is reserved in one chain, and some of it is committed.
CommitAt(T, b, i, data) ==
  IF data = <<>> THEN T
  ELSE IF i = Len(T.chains[b]) THEN advance_last_with_data(Fill(T, b, i, data), b)
  ELSE [Fill(T, b, i, data) EXCEPT !.lwd[b] = i]

CommitOne(S, b, size, data) ==
  LET x == evbuffer_expand_singlechain(S, b, size)
  IN  evbuffer_invoke_callbacks_(CommitAt(x.state, b, x.at, data), b)

\* The same with two chains, of which the first need not be filled; parts that do not fit
\* are refused.
CommitInto(T, b, one, two) ==
  LET cs == T.chains[b]
      i == FirstRoom(T, b)
      more == IF i < Len(cs) THEN Space(cs[i + 1]) ELSE 0
  IN  IF Len(one) > Space(cs[i]) \/ Len(two) > more THEN T
      ELSE evbuffer_invoke_callbacks_(FillTwo(T, b, i, one, two), b)

CommitTwo(S, b, size, one, two) ==
  CommitInto(evbuffer_expand_fast_(S, b, size, 2), b, one, two)

-----------------------------------------------------------------------------
(* Actions                                                                 *)

Is(T) ==
  /\ chains' = T.chains /\ last_with_data' = T.lwd /\ total_len' = T.total
  /\ n_add_for_cb' = T.added /\ n_del_for_cb' = T.deleted /\ reported' = T.reported
  /\ memory' = T.memory

Become(S) == Is(Swept(S))

AllLen == FoldSet(LAMBDA b, n : n + total_len[b], 0, Buf)

\* Whether the bound leaves room for n more bytes.
Fits(n) == AllLen + n <= MaxLen

Calls(b) ==
  \/ \E data \in Input : Fits(Len(data)) /\
       \/ "add" \in Api /\ Become(evbuffer_add(State, b, data))
       \/ "prepend" \in Api /\ Become(evbuffer_prepend(State, b, data))
  \/ \E n \in 1..total_len[b] :
       \/ "drain" \in Api /\ Become(evbuffer_drain(State, b, n))
       \/ "pullup" \in Api /\ Become(evbuffer_pullup(State, b, n))
  \/ "expand" \in Api /\ \E n \in 1..MaxData :
       Become(evbuffer_expand_singlechain(State, b, n).state)
  \/ "read" \in Api /\ \E data \in Input \cup {<<>>} :
       Fits(Len(data)) /\ Become(evbuffer_read(State, b, MaxData, data))
  \/ "commit" \in Api /\ \E data \in Input \cup {<<>>} :
       /\ Fits(Len(data))
       /\ \/ Become(CommitOne(State, b, MaxData, data))
          \/ \E k \in 0..Len(data) :
               Become(CommitTwo(State, b, MaxData, SubSeq(data, 1, k), SubSeq(data, k + 1, Len(data))))

Next ==
  \/ \E b \in Buf : Calls(b)
  \/ \E src, dst \in Buf : src # dst /\
       \/ "add_buffer" \in Api /\ Become(evbuffer_add_buffer(State, dst, src))
       \/ "prepend_buffer" \in Api /\ Become(evbuffer_prepend_buffer(State, dst, src))
       \/ /\ "add_buffer_reference" \in Api
          /\ Fits(total_len[src])
          /\ total_len[dst] = 0 => chains[dst] = <<>>
          /\ Become(evbuffer_add_buffer_reference(State, dst, src))
       \/ "remove_buffer" \in Api /\ \E n \in 1..total_len[src] :
            Become(evbuffer_remove_buffer(State, src, dst, n))

Spec == Init /\ [][Next]_vars

-----------------------------------------------------------------------------
TypeOK ==
  /\ \A b \in Buf :
       /\ last_with_data[b] \in 1..Len(chains[b]) \cup {1}
       /\ \A i \in DOMAIN chains[b] :
            LET c == chains[b][i]
            IN  c.block \in Block /\ c.misalign + c.off <= c.len
  /\ \A m \in Block : memory[m] \in Seq(Byte \cup {Junk})

\* last_with_datap points to the last chain with data, or to the first one when there is no
\* data, whatever chains are split, joined, freed or put in front; else bytes would be
\* added in the middle, and chains with data freed for being empty.
LastWithData ==
  \A b \in Buf :
    LET full == {i \in DOMAIN chains[b] : chains[b][i].off > 0}
    IN  last_with_data[b] = IF full = {} THEN 1 ELSE Max(full)

\* The callbacks have been told of every change of size, though the bytes of one call are
\* counted in different places.
SizesReported ==
  \A b \in Buf :
    /\ total_len[b] = Len(Content(State, b))
    /\ reported[b] = total_len[b] /\ n_add_for_cb[b] = 0 /\ n_del_for_cb[b] = 0

\* The chains of a buffer are what its other fields say.
ChainsOK == TypeOK /\ LastWithData /\ SizesReported

Contents == [b \in Buf |-> Content(State, b)]

Queues == INSTANCE ByteQueues WITH content <- Contents

\* The buffers are queues of bytes: no operation loses, reorders or overwrites bytes, also
\* of another buffer that shares the memory.
ImplementsByteQueues == Queues!Spec
=============================================================================
