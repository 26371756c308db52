---------------------------- MODULE Win32Select ----------------------------
(***************************************************************************)
(* The fd sets of win32select.c: for each direction an array of sockets,   *)
(* filled from the front, and for each fd its position in the array plus   *)
(* one, kept in the fdinfo of evmap.c.  A removal moves the last socket    *)
(* into the hole.  The sets that select() overwrites are copies, whose     *)
(* arrays are enlarged at the next dispatch after those they copy.         *)
(***************************************************************************)
EXTENDS Naturals, Sequences, SequencesExt

CONSTANTS
  Fd,
  NEVENT      \* the first length of the arrays

Direction == {"read", "write"}

Win32Assumption == NEVENT \in Nat \ {0}

\* struct win32op with the struct idx_info of every fd.
win32_init ==
  [ set |-> [d \in Direction |-> <<>>],
    pos |-> [d \in Direction |-> [fd \in Fd |-> 0]],
    num_fds |-> NEVENT,
    out_size |-> NEVENT,
    resize_out_sets |-> FALSE ]

\* Fault: the arrays of the copies are not enlarged.
GrowOnly(op) == [op EXCEPT !.num_fds = 2 * @]

grow_fd_sets(op) == [op EXCEPT !.num_fds = 2 * @, !.resize_out_sets = TRUE]

do_fd_set(op, fd, d) ==
  LET n == Len(op.set[d])
      room == IF n = op.num_fds THEN grow_fd_sets(op) ELSE op
  IN IF op.pos[d][fd] > 0 THEN op
     ELSE [room EXCEPT !.set[d] = Append(@, fd), !.pos[d][fd] = n + 1]

do_fd_clear(op, fd, d) ==
  LET p == op.pos[d][fd]
      moved == Last(op.set[d])
  IN IF p = 0 THEN op
     ELSE [op EXCEPT !.set[d] = Front([@ EXCEPT ![p] = moved]),
                     !.pos[d] = [[@ EXCEPT ![moved] = p] EXCEPT ![fd] = 0]]

win32_add(op, fd, events) ==
  LET r == IF "read" \in events THEN do_fd_set(op, fd, "read") ELSE op
  IN IF "write" \in events THEN do_fd_set(r, fd, "write") ELSE r

win32_del(op, fd, events) ==
  LET r == IF "read" \in events THEN do_fd_clear(op, fd, "read") ELSE op
  IN IF "write" \in events THEN do_fd_clear(r, fd, "write") ELSE r

\* The first part of win32_dispatch.
resize(op) ==
  [op EXCEPT !.out_size = IF op.resize_out_sets THEN op.num_fds ELSE @,
             !.resize_out_sets = FALSE]

\* A socket stands in an array once, where its position says, and a position of 0 says
\* that it does not stand there.
PositionsOK(op) ==
  \A d \in Direction :
    /\ \A i \in DOMAIN op.set[d] : op.pos[d][op.set[d][i]] = i
    /\ \A fd \in Fd : op.pos[d][fd] \in 0..Len(op.set[d])
    /\ \A fd \in Fd : op.pos[d][fd] > 0 => op.set[d][op.pos[d][fd]] = fd

\* No array is written past its end: neither those the events are added to nor, at the
\* next dispatch, their copies.
RoomOK(op) ==
  \A d \in Direction :
    /\ Len(op.set[d]) <= op.num_fds
    /\ Len(op.set[d]) <= resize(op).out_size
=============================================================================
