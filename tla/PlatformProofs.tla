--------------------------- MODULE PlatformProofs ---------------------------
(***************************************************************************)
(* What is proved of the map of fds over the select backend, of signal     *)
(* handling and of the emulated condition variable, part by part, and that *)
(* it holds where the parts are put together: a step of another part       *)
(* leaves its variables alone.                                             *)
(***************************************************************************)
EXTENDS Platform, Sequences, FiniteSetTheorems, TLAPS

-----------------------------------------------------------------------------
(* The map of fds, for any number of them and of events.  BackendOK is     *)
(* not inductive alone: the copies that select() overwrites are as large   *)
(* as the sets, or marked to be enlarged, which RoomOK does not say while  *)
(* the sets are still smaller.                                             *)

\* struct win32op
MapOps ==
  [set : [Map!Direction -> Seq(Fd)], pos : [Map!Direction -> [Fd -> Nat]],
   num_fds : Nat \ {0}, out_size : Nat, resize_out_sets : BOOLEAN]

\* An array and its positions: a part of PositionsOK.
MapAgree(s, p) ==
  /\ s \in Seq(Fd) /\ p \in [Fd -> Nat]
  /\ \A i \in 1 .. Len(s) : p[s[i]] = i
  /\ \A fd \in Fd : p[fd] \in 0 .. Len(s) /\ (p[fd] > 0 => s[p[fd]] = fd)

\* The copies have the size of what they copy, or are to be enlarged.
MapSizesOK(o) == ~o.resize_out_sets => o.out_size = o.num_fds

\* The sets agree with the positions, fit, and will fit.
MapSound(o) == o \in MapOps /\ Map!PositionsOK(o) /\ Map!RoomOK(o) /\ MapSizesOK(o)

\* The inductive invariant
MapIInv ==
  /\ Map!BackendOK /\ MapSound(map_op)
  /\ IsFiniteSet(map_events) /\ map_result \in [MapEvent -> SUBSET Map!Kind]

-----------------------------------------------------------------------------
(* The theorems about finite sets are about Cardinality and IsFiniteSet as *)
(* they are named here.                                                    *)

LEMMA MapCardinality == \A S : Map!Cardinality(S) = Cardinality(S)
  BY DEF Cardinality, Map!Cardinality

LEMMA CondCardinality == \A S : Cond!Cardinality(S) = Cardinality(S)
  BY DEF Cardinality, Cond!Cardinality

LEMMA SignalCardinality ==
  \A S : /\ Signals!Cardinality(S) = Cardinality(S)
         /\ Signals!IsFiniteSet(S) <=> IsFiniteSet(S)
<1>1. \A S : Signals!Cardinality(S) = Cardinality(S)
  BY DEF Cardinality, Signals!Cardinality
<1>2. \A S : Signals!IsFiniteSet(S) <=> IsFiniteSet(S)
  BY DEF IsFiniteSet, Signals!IsFiniteSet
<1> QED
  BY <1>1, <1>2

-----------------------------------------------------------------------------
(* An array and its positions                                              *)

LEMMA MapElements ==
  ASSUME NEW s, NEW p, MapAgree(s, p)
  PROVE  /\ Len(s) \in Nat /\ DOMAIN s = 1 .. Len(s)
         /\ \A i \in 1 .. Len(s) : s[i] \in Fd
         /\ Map!ToSet(s) = { fd \in Fd : p[fd] > 0 }
<1>1. Len(s) \in Nat /\ DOMAIN s = 1 .. Len(s) /\ \A i \in 1 .. Len(s) : s[i] \in Fd
  BY DEF MapAgree
<1>2. Map!ToSet(s) = { s[i] : i \in 1 .. Len(s) }
  BY <1>1 DEF Map!ToSet
<1>3. \A i \in 1 .. Len(s) : s[i] \in Fd /\ p[s[i]] > 0
  BY <1>1 DEF MapAgree
<1>4. \A fd \in Fd : p[fd] > 0 => p[fd] \in 1 .. Len(s) /\ s[p[fd]] = fd
  BY <1>1 DEF MapAgree
<1> QED
  BY <1>1, <1>2, <1>3, <1>4

\* A socket is added at the end.
LEMMA MapAgreeAppend ==
  ASSUME NEW s, NEW p, MapAgree(s, p), NEW fd \in Fd, p[fd] = 0
  PROVE  /\ MapAgree(Append(s, fd), [p EXCEPT ![fd] = Len(s) + 1])
         /\ Len(Append(s, fd)) = Len(s) + 1
<1> DEFINE n == Len(s)
           t == Append(s, fd)
           q == [p EXCEPT ![fd] = n + 1]
<1>1. s \in Seq(Fd) /\ p \in [Fd -> Nat] /\ n \in Nat /\ \A i \in 1 .. n : s[i] \in Fd
  BY MapElements DEF MapAgree
<1>2. /\ t \in Seq(Fd) /\ Len(t) = n + 1
      /\ \A i \in 1 .. n : t[i] = s[i]
      /\ t[n + 1] = fd
      /\ q \in [Fd -> Nat]
      /\ q[fd] = n + 1
      /\ \A g \in Fd : g # fd => q[g] = p[g]
  BY <1>1
<1> HIDE DEF n, t, q
<1>3. \A i \in 1 .. n : p[s[i]] = i
  BY DEF MapAgree, n
<1>4. \A g \in Fd : p[g] \in 0 .. n /\ (p[g] > 0 => s[p[g]] = g)
  BY DEF MapAgree, n
<1>5. ASSUME NEW i \in 1 .. n + 1
      PROVE  q[t[i]] = i
  <2>1. CASE i = n + 1
    BY <1>2, <2>1
  <2>2. CASE i # n + 1
    <3>1. i \in 1 .. n
      BY <1>1, <2>2
    <3>2. t[i] = s[i] /\ s[i] \in Fd /\ p[s[i]] = i /\ s[i] # fd
      BY <1>1, <1>2, <1>3, <3>1
    <3> QED
      BY <1>2, <3>2
  <2> QED
    BY <2>1, <2>2
<1>6. ASSUME NEW g \in Fd
      PROVE  q[g] \in 0 .. n + 1 /\ (q[g] > 0 => t[q[g]] = g)
  <2>1. CASE g = fd
    BY <1>1, <1>2, <2>1
  <2>2. CASE g # fd
    <3>1. q[g] = p[g] /\ p[g] \in 0 .. n
      BY <1>2, <1>4, <2>2
    <3>2. ASSUME p[g] > 0
          PROVE  t[p[g]] = g
      <4>1. p[g] \in 1 .. n /\ s[p[g]] = g
        BY <1>1, <1>4, <3>1, <3>2
      <4> QED
        BY <1>2, <4>1
    <3> QED
      BY <1>1, <3>1, <3>2
  <2> QED
    BY <2>1, <2>2
<1>7. MapAgree(t, q)
  BY <1>2, <1>5, <1>6 DEF MapAgree
<1> QED
  BY <1>2, <1>7 DEF t, q, n

\* The last socket is moved into the hole.
LEMMA MapAgreeMove ==
  ASSUME NEW s, NEW p, MapAgree(s, p), NEW fd \in Fd, p[fd] > 0
  PROVE  LET moved == Map!Last(s)
             t == Map!Front([s EXCEPT ![p[fd]] = moved])
         IN  /\ MapAgree(t, [[p EXCEPT ![moved] = p[fd]] EXCEPT ![fd] = 0])
             /\ Len(t) = Len(s) - 1
             /\ moved \in Fd /\ p[moved] > 0
<1> DEFINE n == Len(s)
           h == p[fd]
           moved == Map!Last(s)
           u == [s EXCEPT ![h] = moved]
           t == Map!Front(u)
           q == [[p EXCEPT ![moved] = h] EXCEPT ![fd] = 0]
<1>1. s \in Seq(Fd) /\ p \in [Fd -> Nat] /\ n \in Nat /\ \A i \in 1 .. n : s[i] \in Fd
  BY MapElements DEF MapAgree
<1>2. h \in 1 .. n /\ s[h] = fd /\ n \in 1 .. n /\ n - 1 \in Nat
  BY <1>1 DEF MapAgree
<1>3. moved = s[n] /\ moved \in Fd /\ p[moved] = n
  BY <1>1, <1>2 DEF MapAgree, Map!Last
<1> HIDE DEF moved
<1>4. u \in Seq(Fd) /\ Len(u) = n /\ \A i \in 1 .. n : u[i] = IF i = h THEN moved ELSE s[i]
  BY <1>1, <1>2, <1>3
<1> HIDE DEF u
<1>5. t \in Seq(Fd) /\ Len(t) = n - 1 /\ \A i \in 1 .. n - 1 : t[i] = u[i]
  <2>1. t = SubSeq(u, 1, n - 1)
    BY <1>4 DEF Map!Front
  <2> QED
    BY <1>1, <1>2, <1>4, <2>1
<1> HIDE DEF t
<1>6. /\ q \in [Fd -> Nat] /\ q[fd] = 0
      /\ moved # fd => q[moved] = h
      /\ \A g \in Fd : g # fd /\ g # moved => q[g] = p[g]
  BY <1>1, <1>2, <1>3
<1> HIDE DEF n, h, q
<1>7. \A i \in 1 .. n : p[s[i]] = i
  BY DEF MapAgree, n
<1>8. \A g \in Fd : p[g] \in 0 .. n /\ (p[g] > 0 => s[p[g]] = g)
  BY DEF MapAgree, n
<1>9. p[fd] = h
  BY DEF h
<1>10. ASSUME NEW i \in 1 .. n - 1
       PROVE  q[t[i]] = i
  <2>1. i \in 1 .. n /\ i # n /\ t[i] = IF i = h THEN moved ELSE s[i]
    <3>1. i \in 1 .. n /\ i # n
      BY <1>1
    <3> QED
      BY <1>4, <1>5, <3>1
  <2>2. CASE i = h
    <3>1. moved # fd
      BY <1>3, <1>9, <2>1, <2>2
    <3> QED
      BY <1>6, <2>1, <2>2, <3>1
  <2>3. CASE i # h
    <3>1. s[i] \in Fd /\ p[s[i]] = i /\ s[i] # fd /\ s[i] # moved
      BY <1>1, <1>3, <1>7, <1>9, <2>1, <2>3
    <3> QED
      BY <1>6, <2>1, <2>3, <3>1
  <2> QED
    BY <2>2, <2>3
<1>11. ASSUME NEW g \in Fd
       PROVE  q[g] \in 0 .. n - 1 /\ (q[g] > 0 => t[q[g]] = g)
  <2>1. CASE g = fd
    BY <1>2, <1>6, <2>1
  <2>2. CASE g # fd /\ g = moved
    <3>1. h # n
      BY <1>2, <1>3, <2>2
    <3>2. h \in 1 .. n - 1 /\ q[g] = h
      BY <1>1, <1>2, <1>6, <2>2, <3>1
    <3>3. t[h] = moved
      BY <1>4, <1>5, <3>2, <1>2
    <3> QED
      BY <1>2, <2>2, <3>2, <3>3
  <2>3. CASE g # fd /\ g # moved
    <3>1. q[g] = p[g] /\ p[g] \in 0 .. n /\ p[g] # n
      BY <1>2, <1>3, <1>6, <1>8, <2>3
    <3>2. p[g] \in 0 .. n - 1
      BY <1>1, <1>2, <3>1
    <3>3. ASSUME p[g] > 0
          PROVE  t[p[g]] = g
      <4>1. p[g] \in 1 .. n - 1 /\ p[g] \in 1 .. n /\ s[p[g]] = g /\ p[g] # h
        BY <1>1, <1>2, <1>8, <2>3, <3>2, <3>3
      <4> QED
        BY <1>4, <1>5, <4>1
    <3> QED
      BY <3>1, <3>2, <3>3
  <2> QED
    BY <2>1, <2>2, <2>3
<1>12. MapAgree(t, q)
  BY <1>5, <1>6, <1>10, <1>11 DEF MapAgree
<1> QED
  BY <1>2, <1>3, <1>5, <1>12 DEF t, q, n, h, u, moved

-----------------------------------------------------------------------------
(* The fd sets                                                             *)

LEMMA MapParts ==
  ASSUME NEW o, MapSound(o)
  PROVE  /\ o \in MapOps /\ o.num_fds \in Nat /\ o.num_fds > 0 /\ MapSizesOK(o)
         /\ \A d \in Map!Direction :
              /\ MapAgree(o.set[d], o.pos[d])
              /\ Len(o.set[d]) <= o.num_fds /\ Len(o.set[d]) \in Nat
              /\ Map!ToSet(o.set[d]) = { fd \in Fd : o.pos[d][fd] > 0 }
<1>1. o \in MapOps /\ o.num_fds \in Nat /\ o.num_fds > 0 /\ MapSizesOK(o)
  BY DEF MapSound, MapOps
<1> SUFFICES ASSUME NEW d \in Map!Direction
             PROVE  /\ MapAgree(o.set[d], o.pos[d])
                    /\ Len(o.set[d]) <= o.num_fds /\ Len(o.set[d]) \in Nat
                    /\ Map!ToSet(o.set[d]) = { fd \in Fd : o.pos[d][fd] > 0 }
  BY <1>1
<1>2. o.set[d] \in Seq(Fd) /\ o.pos[d] \in [Fd -> Nat]
  BY <1>1 DEF MapOps
<1>3. DOMAIN o.set[d] = 1 .. Len(o.set[d])
  BY <1>2
<1>4. MapAgree(o.set[d], o.pos[d])
  BY <1>2, <1>3 DEF MapAgree, MapSound, Map!PositionsOK
<1>5. Len(o.set[d]) <= o.num_fds
  BY DEF MapSound, Map!RoomOK
<1> QED
  BY <1>4, <1>5, MapElements

LEMMA MapGrown ==
  ASSUME NEW o, o \in MapOps
  PROVE  /\ Map!grow_fd_sets(o) \in MapOps
         /\ Map!grow_fd_sets(o).set = o.set /\ Map!grow_fd_sets(o).pos = o.pos
         /\ Map!grow_fd_sets(o).num_fds = 2 * o.num_fds
         /\ Map!grow_fd_sets(o).resize_out_sets = TRUE
<1>1. Map!grow_fd_sets(o) \in MapOps
  <2>1. o.num_fds \in Nat \ {0}
    BY DEF MapOps
  <2>2. 2 * o.num_fds \in Nat \ {0}
    BY <2>1
  <2> QED
    BY <2>2 DEF MapOps, Map!grow_fd_sets
<1>2. /\ Map!grow_fd_sets(o).set = o.set /\ Map!grow_fd_sets(o).pos = o.pos
      /\ Map!grow_fd_sets(o).num_fds = 2 * o.num_fds /\ Map!grow_fd_sets(o).resize_out_sets = TRUE
  BY DEF MapOps, Map!grow_fd_sets
<1> QED
  BY <1>1, <1>2

LEMMA MapSoundIf ==
  ASSUME NEW o, o \in MapOps, MapSizesOK(o),
         \A d \in Map!Direction : MapAgree(o.set[d], o.pos[d]) /\ Len(o.set[d]) <= o.num_fds
  PROVE  MapSound(o)
<1>1. \A d \in Map!Direction : DOMAIN o.set[d] = 1 .. Len(o.set[d])
  BY MapElements
<1>2. Map!PositionsOK(o)
  BY <1>1 DEF Map!PositionsOK, MapAgree
<1>3. Map!resize(o).out_size = o.num_fds
  BY DEF Map!resize, MapOps, MapSizesOK
<1> QED
  BY <1>2, <1>3 DEF MapSound, Map!RoomOK

\* The array of one direction and its positions change.
MapPut(o, d, s, p) == [o EXCEPT !.set[d] = s, !.pos[d] = p]

LEMMA MapChange ==
  ASSUME NEW o, o \in MapOps, NEW d \in Map!Direction, NEW s \in Seq(Fd), NEW p \in [Fd -> Nat],
         NEW q, q = MapPut(o, d, s, p)
  PROVE  /\ q \in MapOps
         /\ q.set[d] = s /\ q.pos[d] = p
         /\ \A e \in Map!Direction \ {d} : q.set[e] = o.set[e] /\ q.pos[e] = o.pos[e]
         /\ q.num_fds = o.num_fds /\ q.out_size = o.out_size
         /\ q.resize_out_sets = o.resize_out_sets
<1>1. o.set \in [Map!Direction -> Seq(Fd)] /\ o.pos \in [Map!Direction -> [Fd -> Nat]]
  BY DEF MapOps
<1>2. q.set = [o.set EXCEPT ![d] = s]
  BY DEF MapOps, MapPut
<1>3. q.pos = [o.pos EXCEPT ![d] = p]
  BY DEF MapOps, MapPut
<1>4. q.num_fds = o.num_fds
  BY DEF MapOps, MapPut
<1>5. q.out_size = o.out_size /\ q.resize_out_sets = o.resize_out_sets
  BY DEF MapOps, MapPut
<1>6. q \in MapOps
  <2>1. [o.set EXCEPT ![d] = s] \in [Map!Direction -> Seq(Fd)]
    BY <1>1
  <2>2. [o.pos EXCEPT ![d] = p] \in [Map!Direction -> [Fd -> Nat]]
    BY <1>1
  <2>3. q = [o EXCEPT !.set = [o.set EXCEPT ![d] = s], !.pos = [o.pos EXCEPT ![d] = p]]
    BY DEF MapOps, MapPut
  <2> QED
    BY <2>1, <2>2, <2>3 DEF MapOps
<1> QED
  BY <1>1, <1>2, <1>3, <1>4, <1>5, <1>6

\* In a record o, perhaps with larger arrays, the direction d comes to hold g.
LEMMA MapSoundChange ==
  ASSUME NEW o, MapSound(o), NEW room, room \in MapOps, MapSizesOK(room), room.set = o.set,
         room.pos = o.pos,
         o.num_fds <= room.num_fds,
         NEW d \in Map!Direction, NEW s, NEW p, MapAgree(s, p), Len(s) <= room.num_fds,
         NEW q, q = MapPut(room, d, s, p)
  PROVE  /\ MapSound(q) /\ q.pos[d] = p
         /\ \A e \in Map!Direction \ {d} : q.pos[e] = o.pos[e]
<1>1. /\ q \in MapOps
      /\ q.set[d] = s /\ q.pos[d] = p
      /\ \A e \in Map!Direction \ {d} : q.set[e] = o.set[e] /\ q.pos[e] = o.pos[e]
      /\ q.num_fds = room.num_fds /\ q.out_size = room.out_size
      /\ q.resize_out_sets = room.resize_out_sets
  <2>1. s \in Seq(Fd) /\ p \in [Fd -> Nat]
    BY DEF MapAgree
  <2>2. /\ q \in MapOps
        /\ q.set[d] = s /\ q.pos[d] = p
        /\ \A e \in Map!Direction \ {d} : q.set[e] = room.set[e] /\ q.pos[e] = room.pos[e]
        /\ q.num_fds = room.num_fds /\ q.out_size = room.out_size
        /\ q.resize_out_sets = room.resize_out_sets
    BY <2>1, MapChange
  <2> QED
    BY <2>2
<1>2. MapSizesOK(q)
  BY <1>1 DEF MapSizesOK
<1>3. room.num_fds \in Nat
  BY DEF MapOps
<1>4. ASSUME NEW e \in Map!Direction
      PROVE  MapAgree(q.set[e], q.pos[e]) /\ Len(q.set[e]) <= q.num_fds
  <2>1. CASE e = d
    BY <1>1, <2>1
  <2>2. CASE e # d
    <3>1. /\ MapAgree(o.set[e], o.pos[e]) /\ Len(o.set[e]) <= o.num_fds /\ Len(o.set[e]) \in Nat
          /\ o.num_fds \in Nat
      BY MapParts
    <3>2. Len(o.set[e]) <= room.num_fds
      BY <1>3, <3>1
    <3> QED
      BY <1>1, <2>2, <3>1, <3>2
  <2> QED
    BY <2>1, <2>2
<1>5. MapSound(q)
  BY <1>1, <1>2, <1>4, MapSoundIf
<1> QED
  BY <1>1, <1>5

\* do_fd_set and do_fd_clear do to the sockets that stand in the arrays what they should.
LEMMA MapFdSet ==
  ASSUME NEW o, MapSound(o), NEW fd \in Fd, NEW d \in Map!Direction,
         NEW q, q = Map!do_fd_set(o, fd, d)
  PROVE  /\ MapSound(q)
         /\ \A g \in Fd, e \in Map!Direction :
              q.pos[e][g] > 0 <=> o.pos[e][g] > 0 \/ (g = fd /\ e = d)
<1> DEFINE n == Len(o.set[d])
           room == IF n = o.num_fds THEN Map!grow_fd_sets(o) ELSE o
           s == Append(o.set[d], fd)
           p == [o.pos[d] EXCEPT ![fd] = n + 1]
<1>1. /\ o \in MapOps /\ MapAgree(o.set[d], o.pos[d]) /\ n \in Nat /\ n <= o.num_fds
      /\ o.num_fds \in Nat /\ o.num_fds > 0 /\ MapSizesOK(o)
  BY MapParts
<1>2. CASE o.pos[d][fd] > 0
  <2>1. q = o
    BY <1>2 DEF Map!do_fd_set
  <2> QED
    BY <1>2, <2>1
<1>3. CASE ~(o.pos[d][fd] > 0)
  <2>1. /\ room \in MapOps /\ MapSizesOK(room) /\ room.set = o.set /\ room.pos = o.pos
        /\ o.num_fds <= room.num_fds /\ n + 1 <= room.num_fds
    <3>1. CASE n = o.num_fds
      <4>1. room = Map!grow_fd_sets(o)
        BY <3>1
      <4> HIDE DEF room
      <4> QED
        <5>1. /\ room \in MapOps /\ room.set = o.set /\ room.pos = o.pos
              /\ room.num_fds = 2 * o.num_fds /\ room.resize_out_sets = TRUE
          BY <1>1, <4>1, MapGrown
        <5>2. MapSizesOK(room)
          BY <5>1 DEF MapSizesOK
        <5>3. o.num_fds <= room.num_fds /\ n + 1 <= room.num_fds
          <6> HIDE DEF n
          <6> QED
            BY <1>1, <3>1, <5>1
        <5> QED
          BY <5>1, <5>2, <5>3
    <3>2. CASE n # o.num_fds
      BY <1>1, <3>2
    <3> QED
      BY <3>1, <3>2
  <2>2. o.pos[d][fd] = 0
    BY <1>1, <1>3 DEF MapAgree
  <2>3. MapAgree(s, p) /\ Len(s) = n + 1
    BY <1>1, <2>2, MapAgreeAppend
  <2>4. q = MapPut(room, d, s, p)
    <3>1. q = [room EXCEPT !.set[d] = Append(@, fd), !.pos[d][fd] = n + 1]
      BY <1>3 DEF Map!do_fd_set
    <3> HIDE DEF room
    <3> QED
      BY <2>1, <3>1 DEF MapPut
  <2> HIDE DEF room
  <2>5. /\ MapSound(q) /\ q.pos[d] = p
        /\ \A e \in Map!Direction \ {d} : q.pos[e] = o.pos[e]
    <3> HIDE DEF s, p, n
    <3> QED
      BY <2>1, <2>3, <2>4, MapSoundChange
  <2>6. \A g \in Fd : p[g] > 0 <=> o.pos[d][g] > 0 \/ g = fd
    BY <1>1 DEF MapAgree
  <2> HIDE DEF p
  <2> QED
    BY <2>5, <2>6
<1> QED
  BY <1>2, <1>3

LEMMA MapFdClear ==
  ASSUME NEW o, MapSound(o), NEW fd \in Fd, NEW d \in Map!Direction,
         NEW q, q = Map!do_fd_clear(o, fd, d)
  PROVE  /\ MapSound(q)
         /\ \A g \in Fd, e \in Map!Direction :
              q.pos[e][g] > 0 <=> o.pos[e][g] > 0 /\ ~(g = fd /\ e = d)
<1> DEFINE n == Len(o.set[d])
           moved == Map!Last(o.set[d])
           s == Map!Front([o.set[d] EXCEPT ![o.pos[d][fd]] = moved])
           p == [[o.pos[d] EXCEPT ![moved] = o.pos[d][fd]] EXCEPT ![fd] = 0]
<1>1. /\ o \in MapOps /\ MapAgree(o.set[d], o.pos[d]) /\ n \in Nat /\ n <= o.num_fds
      /\ o.num_fds \in Nat /\ MapSizesOK(o)
  BY MapParts
<1>2. CASE o.pos[d][fd] = 0
  <2>1. q = o
    BY <1>2 DEF Map!do_fd_clear
  <2> QED
    BY <1>2, <2>1
<1>3. CASE o.pos[d][fd] # 0
  <2>1. o.pos[d][fd] > 0 /\ o.pos[d] \in [Fd -> Nat]
    BY <1>1, <1>3 DEF MapAgree
  <2>2. MapAgree(s, p) /\ Len(s) = n - 1 /\ moved \in Fd /\ o.pos[d][moved] > 0
    BY <1>1, <2>1, MapAgreeMove
  <2>3. q = MapPut(o, d, s, p)
    BY <1>1, <1>3 DEF Map!do_fd_clear, MapPut
  <2>4. \A g \in Fd : p[g] > 0 <=> o.pos[d][g] > 0 /\ g # fd
    <3> HIDE DEF moved, s
    <3>1. \A g \in Fd :
            p[g] = IF g = fd THEN 0 ELSE IF g = moved THEN o.pos[d][fd] ELSE o.pos[d][g]
      BY <2>1, <2>2
    <3> HIDE DEF p
    <3> QED
      BY <2>1, <2>2, <3>1
  <2> HIDE DEF s, p, moved
  <2>5. /\ MapSound(q) /\ q.pos[d] = p
        /\ \A e \in Map!Direction \ {d} : q.pos[e] = o.pos[e]
    <3>1. Len(s) <= o.num_fds
      BY <1>1, <2>2
    <3> QED
      BY <1>1, <2>2, <2>3, <3>1, MapSoundChange
  <2> QED
    BY <2>4, <2>5
<1> QED
  BY <1>2, <1>3
\* win32_add and win32_del do so for both directions.
LEMMA MapWin32Add ==
  ASSUME NEW o, MapSound(o), NEW fd \in Fd, NEW kinds, NEW q, q = Map!win32_add(o, fd, kinds)
  PROVE  /\ MapSound(q)
         /\ \A g \in Fd, e \in Map!Direction :
              q.pos[e][g] > 0 <=> o.pos[e][g] > 0 \/ (g = fd /\ e \in kinds)
<1> DEFINE r == IF "read" \in kinds THEN Map!do_fd_set(o, fd, "read") ELSE o
<1>1. /\ MapSound(r)
      /\ \A g \in Fd, e \in Map!Direction :
           r.pos[e][g] > 0 <=> o.pos[e][g] > 0 \/ (g = fd /\ e = "read" /\ e \in kinds)
  <2>1. CASE "read" \in kinds
    <3>1. "read" \in Map!Direction /\ r = Map!do_fd_set(o, fd, "read")
      BY <2>1 DEF Map!Direction
    <3> HIDE DEF r
    <3> QED
      BY <2>1, <3>1, MapFdSet
  <2>2. CASE "read" \notin kinds
    BY <2>2
  <2> QED
    BY <2>1, <2>2
<1>2. q = IF "write" \in kinds THEN Map!do_fd_set(r, fd, "write") ELSE r
  BY DEF Map!win32_add
<1> HIDE DEF r
<1>3. /\ MapSound(q)
      /\ \A g \in Fd, e \in Map!Direction :
           q.pos[e][g] > 0 <=> r.pos[e][g] > 0 \/ (g = fd /\ e = "write" /\ e \in kinds)
  <2>1. CASE "write" \in kinds
    <3>1. "write" \in Map!Direction /\ q = Map!do_fd_set(r, fd, "write")
      BY <1>2, <2>1 DEF Map!Direction
    <3> QED
      BY <1>1, <2>1, <3>1, MapFdSet
  <2>2. CASE "write" \notin kinds
    BY <1>1, <1>2, <2>2
  <2> QED
    BY <2>1, <2>2
<1> QED
  BY <1>1, <1>3 DEF Map!Direction

LEMMA MapWin32Del ==
  ASSUME NEW o, MapSound(o), NEW fd \in Fd, NEW kinds, NEW q, q = Map!win32_del(o, fd, kinds)
  PROVE  /\ MapSound(q)
         /\ \A g \in Fd, e \in Map!Direction :
              q.pos[e][g] > 0 <=> o.pos[e][g] > 0 /\ ~(g = fd /\ e \in kinds)
<1> DEFINE r == IF "read" \in kinds THEN Map!do_fd_clear(o, fd, "read") ELSE o
<1>1. /\ MapSound(r)
      /\ \A g \in Fd, e \in Map!Direction :
           r.pos[e][g] > 0 <=> o.pos[e][g] > 0 /\ ~(g = fd /\ e = "read" /\ e \in kinds)
  <2>1. CASE "read" \in kinds
    <3>1. "read" \in Map!Direction /\ r = Map!do_fd_clear(o, fd, "read")
      BY <2>1 DEF Map!Direction
    <3> HIDE DEF r
    <3> QED
      BY <2>1, <3>1, MapFdClear
  <2>2. CASE "read" \notin kinds
    BY <2>2
  <2> QED
    BY <2>1, <2>2
<1>2. q = IF "write" \in kinds THEN Map!do_fd_clear(r, fd, "write") ELSE r
  BY DEF Map!win32_del
<1> HIDE DEF r
<1>3. /\ MapSound(q)
      /\ \A g \in Fd, e \in Map!Direction :
           q.pos[e][g] > 0 <=> r.pos[e][g] > 0 /\ ~(g = fd /\ e = "write" /\ e \in kinds)
  <2>1. CASE "write" \in kinds
    <3>1. "write" \in Map!Direction /\ q = Map!do_fd_clear(r, fd, "write")
      BY <1>2, <2>1 DEF Map!Direction
    <3> QED
      BY <1>1, <2>1, <3>1, MapFdClear
  <2>2. CASE "write" \notin kinds
    BY <1>1, <1>2, <2>2
  <2> QED
    BY <2>1, <2>2
<1> QED
  BY <1>1, <1>3 DEF Map!Direction

LEMMA MapResized ==
  ASSUME NEW o, MapSound(o)
  PROVE  /\ MapSound(Map!resize(o))
         /\ Map!resize(o).set = o.set
<1> DEFINE q == Map!resize(o)
<1>1. /\ o \in MapOps
      /\ \A d \in Map!Direction : MapAgree(o.set[d], o.pos[d]) /\ Len(o.set[d]) <= o.num_fds
  BY MapParts
<1>2. /\ q \in MapOps /\ q.set = o.set /\ q.pos = o.pos /\ q.num_fds = o.num_fds
      /\ q.resize_out_sets = FALSE
  <2>1. o.num_fds \in Nat /\ o.out_size \in Nat
    BY <1>1 DEF MapOps
  <2>2. q \in MapOps
    BY <1>1, <2>1 DEF Map!resize, MapOps
  <2>3. /\ q.set = o.set /\ q.pos = o.pos /\ q.num_fds = o.num_fds
        /\ q.resize_out_sets = FALSE
    BY <1>1 DEF Map!resize, MapOps
  <2> QED
    BY <2>2, <2>3
<1>3. q.out_size = q.num_fds
  <2>1. q.out_size = IF o.resize_out_sets THEN o.num_fds ELSE o.out_size
    BY <1>1 DEF Map!resize, MapOps
  <2> QED
    BY <1>2, <2>1 DEF MapSound, MapSizesOK
<1> HIDE DEF q
<1>4. MapSound(q)
  BY <1>1, <1>2, <1>3, MapSoundIf DEF MapSizesOK
<1> QED
  BY <1>2, <1>4 DEF q

-----------------------------------------------------------------------------
(* The map                                                                 *)

\* The events of a kind on an fd
MapOnKind(fd, k) == { ev \in Map!On(fd) : k \in EventsOf[ev] }

\* The counts are those of the lists.
MapCountsOK == \A fd \in Fd, k \in Map!Kind : count[fd][k] = Cardinality(MapOnKind(fd, k))

\* The backend has what the lists ask for.
MapSetsAgree == \A fd \in Fd, d \in Map!Direction : map_op.pos[d][fd] > 0 <=> MapOnKind(fd, d) # {}

LEMMA MapFacts ==
  ASSUME MapIInv
  PROVE  /\ map_events \subseteq MapEvent /\ IsFiniteSet(map_events)
         /\ count \in [Fd -> [Map!Kind -> 0 .. MaxPerFd]] /\ MapSound(map_op)
         /\ map_result \in [MapEvent -> SUBSET Map!Kind]
         /\ FdOf \in [MapEvent -> Fd] /\ EventsOf \in [MapEvent -> SUBSET Map!Kind]
         /\ MaxPerFd \in Nat
         /\ Map!Direction \subseteq Map!Kind
  BY PlatformAssumption DEF PlatformAssumption, MapIInv, Map!BackendOK, Map!TypeOK,
     Map!EvMapAssumption, Map!Kind

LEMMA MapWatchedKinds ==
  /\ Map!Watched \subseteq Fd \X Map!Direction
  /\ \A fd \in Fd, d \in Map!Direction : <<fd, d>> \in Map!Watched <=> MapOnKind(fd, d) # {}
<1>1. ASSUME NEW fd \in Fd, NEW d \in Map!Direction
      PROVE  <<fd, d>> \in Map!Watched <=> MapOnKind(fd, d) # {}
  <2>1. <<fd, d>> \in Map!Watched <=> d \in UNION { EventsOf[ev] : ev \in Map!On(fd) }
    BY DEF Map!Watched
  <2> QED
    BY <2>1 DEF MapOnKind
<1>2. Map!Watched \subseteq Fd \X Map!Direction
  BY DEF Map!Watched
<1> QED
  BY <1>1, <1>2

\* BackendAgrees, with positions for the sets
LEMMA MapAgreement ==
  ASSUME MapSound(map_op)
  PROVE  Map!BackendAgrees <=> MapCountsOK /\ MapSetsAgree
<1>1. \A d \in Map!Direction : Map!ToSet(map_op.set[d]) = { fd \in Fd : map_op.pos[d][fd] > 0 }
  BY MapParts
<1>2. \A d \in Map!Direction :
        { fd \in Fd : <<fd, d>> \in Map!Watched } = { fd \in Fd : MapOnKind(fd, d) # {} }
  BY MapWatchedKinds
<1>3. MapSetsAgree <=>
        \A d \in Map!Direction :
          Map!ToSet(map_op.set[d]) = { fd \in Fd : <<fd, d>> \in Map!Watched }
  BY <1>1, <1>2 DEF MapSetsAgree
<1>4. MapCountsOK <=> \A fd \in Fd, k \in Map!Kind :
                     count[fd][k] = Cardinality({ ev \in Map!On(fd) : k \in EventsOf[ev] })
  BY DEF MapCountsOK, MapOnKind
<1> QED
  BY <1>3, <1>4, MapCardinality DEF Map!BackendAgrees

LEMMA MapKindsCounted ==
  ASSUME MapIInv
  PROVE  /\ MapCountsOK /\ MapSetsAgree
         /\ \A fd \in Fd, k \in Map!Kind :
              /\ IsFiniteSet(MapOnKind(fd, k))
              /\ count[fd][k] \in 0 .. MaxPerFd
              /\ MapOnKind(fd, k) # {} <=> count[fd][k] > 0
<1>1. MapCountsOK /\ MapSetsAgree
  BY MapAgreement DEF MapIInv, Map!BackendOK
<1>2. ASSUME NEW fd \in Fd, NEW k \in Map!Kind
      PROVE  /\ IsFiniteSet(MapOnKind(fd, k))
             /\ count[fd][k] \in 0 .. MaxPerFd
             /\ MapOnKind(fd, k) # {} <=> count[fd][k] > 0
  <2>1. IsFiniteSet(MapOnKind(fd, k))
    BY MapFacts, FS_Subset DEF MapOnKind, Map!On
  <2>2. /\ Cardinality(MapOnKind(fd, k)) \in Nat
        /\ (Cardinality(MapOnKind(fd, k)) = 0 <=> MapOnKind(fd, k) = {})
    BY <2>1, FS_CardinalityType, FS_EmptySet
  <2>3. count[fd][k] \in 0 .. MaxPerFd
    BY MapFacts
  <2> QED
    BY <1>1, <2>1, <2>2, <2>3 DEF MapCountsOK
<1> QED
  BY <1>1, <1>2

\* The steps that leave the lists and the sets alone
LEMMA MapSameLists ==
  ASSUME MapIInv, UNCHANGED <<map_events, count, map_op>>,
         out' \subseteq Fd \X Map!Direction, {selecting', notified'} \subseteq BOOLEAN,
         ready' \subseteq Fd \X Map!Direction, map_result' \in [MapEvent -> SUBSET Map!Kind],
         \A ev \in MapEvent : map_result'[ev] \subseteq EventsOf[ev],
         selecting' /\ ~notified' => Map!Watched \subseteq out'
  PROVE  MapIInv'
<1>1. Map!Watched' = Map!Watched
  BY DEF Map!Watched, Map!On
<1>2. Map!BackendAgrees' /\ Map!SetsOK'
  BY <1>1 DEF MapIInv, Map!BackendOK, Map!BackendAgrees, Map!SetsOK, Map!On
<1>3. Map!SelectIsCurrent'
  BY <1>1 DEF Map!SelectIsCurrent
<1>4. Map!TypeOK'
  BY DEF MapIInv, Map!BackendOK, Map!TypeOK
<1> QED
  BY <1>2, <1>3, <1>4 DEF MapIInv, Map!BackendOK

LEMMA MapAddInv ==
  ASSUME MapIInv, NEW caller \in {"loop", "other"}, NEW ev \in MapEvent,
         Map!evmap_io_add_(caller, ev)
  PROVE  MapIInv'
<1> DEFINE fd == FdOf[ev]
           n == [k \in Map!Kind |-> count[fd][k] + (IF k \in EventsOf[ev] THEN 1 ELSE 0)]
           res == { k \in EventsOf[ev] : n[k] = 1 }
<1>1. /\ ev \notin map_events /\ Map!CallerOK(caller)
      /\ \A k \in Map!Kind : n[k] <= MaxPerFd
      /\ map_op' = Map!win32_add(map_op, fd, res)
      /\ count' = [count EXCEPT ![fd] = n]
      /\ map_events' = map_events \cup {ev}
      /\ notified' = (notified \/ (caller = "other" /\ res # {}))
      /\ UNCHANGED <<out, selecting, ready, map_result>>
  BY DEF Map!evmap_io_add_, Map!Notify
<1>2. fd \in Fd /\ EventsOf[ev] \subseteq Map!Kind
  BY MapFacts
<1>3. \A k \in Map!Kind : n[k] = IF k \in EventsOf[ev] THEN count[fd][k] + 1 ELSE count[fd][k]
  BY <1>2, MapKindsCounted
<1> HIDE DEF n
<1>4. \A k : k \in res <=> k \in EventsOf[ev] /\ n[k] = 1
  OBVIOUS
<1> HIDE DEF res
<1>5. fd = FdOf[ev]
  OBVIOUS
<1> HIDE DEF fd
<1>6. \A g \in Fd, k \in Map!Kind :
        MapOnKind(g, k)' =
          IF g = fd /\ k \in EventsOf[ev] THEN MapOnKind(g, k) \cup {ev} ELSE MapOnKind(g, k)
  <2> SUFFICES ASSUME NEW g \in Fd, NEW k \in Map!Kind
               PROVE  MapOnKind(g, k)' = IF g = fd /\ k \in EventsOf[ev]
                                      THEN MapOnKind(g, k) \cup {ev} ELSE MapOnKind(g, k)
    OBVIOUS
  <2>1. MapOnKind(g, k)' = { e \in map_events' : FdOf[e] = g /\ k \in EventsOf[e] }
    BY DEF MapOnKind, Map!On
  <2>2. MapOnKind(g, k) = { e \in map_events : FdOf[e] = g /\ k \in EventsOf[e] }
    BY DEF MapOnKind, Map!On
  <2> QED
    BY <1>1, <1>5, <2>1, <2>2
<1>7. \A g \in Fd, k \in Map!Kind : ev \notin MapOnKind(g, k)
  BY <1>1 DEF MapOnKind, Map!On
<1>8. \A g \in Fd, k \in Map!Kind :
        count'[g][k] = IF g = fd /\ k \in EventsOf[ev] THEN count[g][k] + 1 ELSE count[g][k]
  BY <1>1, <1>2, <1>3, MapFacts
<1>9. MapCountsOK'
  <2> SUFFICES ASSUME NEW g \in Fd, NEW k \in Map!Kind
               PROVE  count'[g][k] = Cardinality(MapOnKind(g, k)')
    BY DEF MapCountsOK
  <2>1. count[g][k] = Cardinality(MapOnKind(g, k)) /\ IsFiniteSet(MapOnKind(g, k))
    BY MapKindsCounted DEF MapCountsOK
  <2>2. Cardinality(MapOnKind(g, k) \cup {ev}) = Cardinality(MapOnKind(g, k)) + 1
    BY <1>7, <2>1, FS_AddElement
  <2> QED
    BY <1>6, <1>8, <2>1, <2>2
<1>10. /\ MapSound(map_op')
       /\ \A g \in Fd, e \in Map!Direction :
            map_op'.pos[e][g] > 0 <=> map_op.pos[e][g] > 0 \/ (g = fd /\ e \in res)
  BY <1>1, <1>2, MapFacts, MapWin32Add
<1>11. \A k \in EventsOf[ev] : k \notin res => MapOnKind(fd, k) # {}
  <2> SUFFICES ASSUME NEW k \in EventsOf[ev], k \notin res
               PROVE  count[fd][k] > 0
    BY <1>2, MapKindsCounted
  <2>1. k \in Map!Kind /\ count[fd][k] \in Nat /\ n[k] # 1 /\ n[k] = count[fd][k] + 1
    BY <1>2, <1>3, <1>4, MapKindsCounted
  <2> QED
    BY <2>1
<1>12. MapSetsAgree'
  <2> SUFFICES ASSUME NEW g \in Fd, NEW d \in Map!Direction
               PROVE  map_op'.pos[d][g] > 0 <=> MapOnKind(g, d)' # {}
    BY DEF MapSetsAgree
  <2>1. map_op.pos[d][g] > 0 <=> MapOnKind(g, d) # {}
    BY MapKindsCounted DEF MapSetsAgree
  <2>2. d \in Map!Kind
    BY MapFacts
  <2>3. d \in res => d \in EventsOf[ev]
    BY <1>4
  <2> QED
    BY <1>6, <1>10, <1>11, <2>1, <2>2, <2>3
<1>13. Map!BackendAgrees'
  <2>1. (MapSound(map_op) => (Map!BackendAgrees <=> MapCountsOK /\ MapSetsAgree))'
    BY MapAgreement, PTL
  <2> QED
    BY <1>9, <1>10, <1>12, <2>1
<1>14. Map!SelectIsCurrent'
  <2> SUFFICES ASSUME selecting, ~notified'
               PROVE  Map!Watched' \subseteq out
    BY <1>1 DEF Map!SelectIsCurrent
  <2>1. caller = "other" /\ res = {} /\ ~notified
    BY <1>1 DEF Map!CallerOK
  <2>2. Map!Watched \subseteq out
    BY <2>1 DEF MapIInv, Map!BackendOK, Map!SelectIsCurrent
  <2>3. \A g \in Fd, d \in Map!Direction : <<g, d>> \in Map!Watched' => <<g, d>> \in Map!Watched
    <3> SUFFICES ASSUME NEW g \in Fd, NEW d \in Map!Direction, <<g, d>> \in Map!Watched'
                 PROVE  <<g, d>> \in Map!Watched
      OBVIOUS
    <3>1. MapOnKind(g, d)' # {}
      <4>1. d \in UNION { EventsOf[e] : e \in Map!On(g)' }
        BY DEF Map!Watched
      <4> QED
        BY <4>1 DEF MapOnKind
    <3>2. MapOnKind(g, d) # {}
      BY <1>4, <1>6, <1>11, <2>1, <3>1, MapFacts
    <3> QED
      BY <3>2, MapWatchedKinds
  <2>4. Map!Watched' \subseteq Fd \X Map!Direction
    BY DEF Map!Watched
  <2> QED
    BY <2>2, <2>3, <2>4
<1>15. Map!TypeOK'
  <2>1. count' \in [Fd -> [Map!Kind -> 0 .. MaxPerFd]]
    <3>1. \A k \in Map!Kind : n[k] \in 0 .. MaxPerFd
      BY <1>1, <1>2, <1>3, MapKindsCounted, MapFacts
    <3>2. n \in [Map!Kind -> 0 .. MaxPerFd]
      BY <3>1 DEF n
    <3> QED
      BY <1>1, <3>2, MapFacts
  <2>2. map_events' \subseteq MapEvent /\ notified' \in BOOLEAN
    BY <1>1, MapFacts
  <2>3. /\ map_op'.set \in [Map!Direction -> Seq(Fd)]
        /\ map_op'.pos \in [Map!Direction -> [Fd -> Nat]]
        /\ map_op'.num_fds \in Nat /\ map_op'.out_size \in Nat
        /\ map_op'.resize_out_sets \in BOOLEAN
    BY <1>10 DEF MapSound, MapOps
  <2> QED
    BY <1>1, <2>1, <2>2, <2>3 DEF MapIInv, Map!BackendOK, Map!TypeOK
<1>16. Map!SetsOK'
  BY <1>10 DEF Map!SetsOK, MapSound
<1>17. IsFiniteSet(map_events') /\ map_result' \in [MapEvent -> SUBSET Map!Kind]
  BY <1>1, MapFacts, FS_AddElement
<1> QED
  BY <1>10, <1>13, <1>14, <1>15, <1>16, <1>17 DEF MapIInv, Map!BackendOK

LEMMA MapDelInv ==
  ASSUME MapIInv, NEW caller \in {"loop", "other"}, NEW ev \in MapEvent,
         Map!evmap_io_del_(caller, ev)
  PROVE  MapIInv'
<1> DEFINE fd == FdOf[ev]
           n == [k \in Map!Kind |-> count[fd][k] - (IF k \in EventsOf[ev] THEN 1 ELSE 0)]
           res == { k \in EventsOf[ev] : n[k] = 0 }
<1>1. /\ ev \in map_events /\ Map!CallerOK(caller)
      /\ map_op' = Map!win32_del(map_op, fd, res)
      /\ count' = [count EXCEPT ![fd] = n]
      /\ map_events' = map_events \ {ev}
      /\ map_result' = [map_result EXCEPT ![ev] = {}]
      /\ notified' = (notified \/ (caller = "other" /\ res # {}))
      /\ UNCHANGED <<out, selecting, ready>>
  BY DEF Map!evmap_io_del_, Map!Notify
<1>2. fd \in Fd /\ EventsOf[ev] \subseteq Map!Kind
  BY MapFacts
<1>3. \A k \in Map!Kind : n[k] = IF k \in EventsOf[ev] THEN count[fd][k] - 1 ELSE count[fd][k]
  BY <1>2, MapKindsCounted
<1> HIDE DEF n
<1>4. \A k : k \in res <=> k \in EventsOf[ev] /\ n[k] = 0
  OBVIOUS
<1> HIDE DEF res
<1>5. fd = FdOf[ev]
  OBVIOUS
<1> HIDE DEF fd
<1>6. \A g \in Fd, k \in Map!Kind : MapOnKind(g, k)' = MapOnKind(g, k) \ {ev}
  BY <1>1 DEF MapOnKind, Map!On
<1>7. \A g \in Fd, k \in Map!Kind : ev \in MapOnKind(g, k) <=> g = fd /\ k \in EventsOf[ev]
  BY <1>1, <1>5 DEF MapOnKind, Map!On
<1>8. \A g \in Fd, k \in Map!Kind :
        count'[g][k] = IF g = fd /\ k \in EventsOf[ev] THEN count[g][k] - 1 ELSE count[g][k]
  BY <1>1, <1>2, <1>3, MapFacts
<1>9. \A g \in Fd, k \in Map!Kind :
        /\ count'[g][k] = Cardinality(MapOnKind(g, k)')
        /\ count'[g][k] \in 0 .. MaxPerFd
        /\ MapOnKind(g, k)' # {} <=> count'[g][k] # 0
  <2> SUFFICES ASSUME NEW g \in Fd, NEW k \in Map!Kind
               PROVE  /\ count'[g][k] = Cardinality(MapOnKind(g, k)')
                      /\ count'[g][k] \in 0 .. MaxPerFd
                      /\ MapOnKind(g, k)' # {} <=> count'[g][k] # 0
    OBVIOUS
  <2>1. /\ count[g][k] = Cardinality(MapOnKind(g, k)) /\ IsFiniteSet(MapOnKind(g, k))
        /\ count[g][k] \in 0 .. MaxPerFd /\ MaxPerFd \in Nat
    BY MapKindsCounted, MapFacts DEF MapCountsOK
  <2>2. count'[g][k] = Cardinality(MapOnKind(g, k)')
    <3>1. CASE ev \in MapOnKind(g, k)
      <4>1. Cardinality(MapOnKind(g, k) \ {ev}) = Cardinality(MapOnKind(g, k)) - 1
        BY <2>1, <3>1, FS_RemoveElement
      <4> QED
        BY <1>6, <1>7, <1>8, <2>1, <3>1, <4>1
    <3>2. CASE ev \notin MapOnKind(g, k)
      <4>1. MapOnKind(g, k)' = MapOnKind(g, k)
        BY <1>6, <3>2
      <4> QED
        BY <1>7, <1>8, <2>1, <3>2, <4>1
    <3> QED
      BY <3>1, <3>2
  <2>3. IsFiniteSet(MapOnKind(g, k)')
    BY <1>6, <2>1, FS_Subset
  <2>4. /\ Cardinality(MapOnKind(g, k)') \in Nat
        /\ (Cardinality(MapOnKind(g, k)') = 0 <=> MapOnKind(g, k)' = {})
    BY <2>3, FS_CardinalityType, FS_EmptySet
  <2>5. count'[g][k] <= count[g][k]
    BY <1>8, <2>1
  <2> QED
    BY <2>1, <2>2, <2>4, <2>5
<1>10. /\ MapSound(map_op')
       /\ \A g \in Fd, e \in Map!Direction :
            map_op'.pos[e][g] > 0 <=> map_op.pos[e][g] > 0 /\ ~(g = fd /\ e \in res)
  BY <1>1, <1>2, MapFacts, MapWin32Del
<1>11. \A k \in EventsOf[ev] : k \in res <=> MapOnKind(fd, k)' = {}
  <2> SUFFICES ASSUME NEW k \in EventsOf[ev]
               PROVE  k \in res <=> MapOnKind(fd, k)' = {}
    OBVIOUS
  <2>1. k \in Map!Kind /\ count'[fd][k] = n[k]
    BY <1>1, <1>2, MapFacts
  <2> QED
    BY <1>2, <1>4, <1>9, <2>1
<1>12. MapSetsAgree'
  <2> SUFFICES ASSUME NEW g \in Fd, NEW d \in Map!Direction
               PROVE  map_op'.pos[d][g] > 0 <=> MapOnKind(g, d)' # {}
    BY DEF MapSetsAgree
  <2>1. map_op.pos[d][g] > 0 <=> MapOnKind(g, d) # {}
    BY MapKindsCounted DEF MapSetsAgree
  <2>2. d \in Map!Kind
    BY MapFacts
  <2>3. CASE g = fd /\ d \in EventsOf[ev]
    <3>1. ev \in MapOnKind(g, d)
      BY <1>7, <2>2, <2>3
    <3> QED
      BY <1>10, <1>11, <2>1, <2>3, <3>1
  <2>4. CASE ~(g = fd /\ d \in EventsOf[ev])
    <3>1. MapOnKind(g, d)' = MapOnKind(g, d)
      <4>1. ev \notin MapOnKind(g, d) /\ MapOnKind(g, d)' = MapOnKind(g, d) \ {ev}
        BY <1>6, <1>7, <2>2, <2>4
      <4> QED
        BY <4>1
    <3> QED
      BY <1>4, <1>10, <2>1, <2>4, <3>1
  <2> QED
    BY <2>3, <2>4
<1>13. Map!BackendAgrees'
  <2>1. (MapSound(map_op) => (Map!BackendAgrees <=> MapCountsOK /\ MapSetsAgree))'
    BY MapAgreement, PTL
  <2>2. MapCountsOK'
    BY <1>9 DEF MapCountsOK
  <2> QED
    BY <1>10, <1>12, <2>1, <2>2
<1>14. Map!SelectIsCurrent'
  <2> SUFFICES ASSUME selecting, ~notified'
               PROVE  Map!Watched' \subseteq out
    BY <1>1 DEF Map!SelectIsCurrent
  <2>1. Map!Watched \subseteq out
    BY <1>1 DEF MapIInv, Map!BackendOK, Map!SelectIsCurrent
  <2>2. Map!Watched' \subseteq Map!Watched
    BY <1>1 DEF Map!Watched, Map!On
  <2> QED
    BY <2>1, <2>2
<1>15. /\ map_result' \in [MapEvent -> SUBSET Map!Kind]
       /\ \A e \in MapEvent : map_result'[e] \subseteq EventsOf[e]
  BY <1>1, MapFacts DEF MapIInv, Map!BackendOK, Map!TypeOK
<1>16. Map!TypeOK'
  <2>1. count' \in [Fd -> [Map!Kind -> 0 .. MaxPerFd]]
    <3>1. n \in [Map!Kind -> 0 .. MaxPerFd]
      <4>1. \A k \in Map!Kind : n[k] = count'[fd][k]
        BY <1>1, <1>2, MapFacts
      <4>2. \A k \in Map!Kind : n[k] \in 0 .. MaxPerFd
        BY <1>2, <1>9, <4>1
      <4> QED
        BY <4>2 DEF n
    <3> QED
      BY <1>1, <3>1, MapFacts
  <2>2. map_events' \subseteq MapEvent /\ notified' \in BOOLEAN
    BY <1>1, MapFacts
  <2>3. /\ map_op'.set \in [Map!Direction -> Seq(Fd)]
        /\ map_op'.pos \in [Map!Direction -> [Fd -> Nat]]
        /\ map_op'.num_fds \in Nat /\ map_op'.out_size \in Nat
        /\ map_op'.resize_out_sets \in BOOLEAN
    BY <1>10 DEF MapSound, MapOps
  <2> QED
    BY <1>1, <1>15, <2>1, <2>2, <2>3 DEF MapIInv, Map!BackendOK, Map!TypeOK
<1>17. Map!SetsOK'
  BY <1>10 DEF Map!SetsOK, MapSound
<1>18. IsFiniteSet(map_events')
  BY <1>1, MapFacts, FS_RemoveElement
<1> QED
  BY <1>10, <1>13, <1>14, <1>15, <1>16, <1>17, <1>18 DEF MapIInv, Map!BackendOK

LEMMA MapSelectsInv ==
  ASSUME MapIInv, Map!DispatchSelects
  PROVE  MapIInv'
<1>1. /\ map_op' = Map!resize(map_op) /\ selecting' = TRUE
      /\ out' = UNION { Map!ToSet(map_op.set[d]) \X {d} : d \in Map!Direction }
      /\ UNCHANGED <<map_events, count, notified, ready, map_result>>
  BY DEF Map!DispatchSelects
<1>2. MapSound(map_op') /\ map_op'.set = map_op.set
  BY <1>1, MapFacts, MapResized
<1>3. Map!Watched' = Map!Watched
  BY <1>1 DEF Map!Watched, Map!On
<1>4. out' = Map!Watched
  <2>1. \A d \in Map!Direction :
          Map!ToSet(map_op.set[d]) = { fd \in Fd : <<fd, d>> \in Map!Watched }
    BY DEF MapIInv, Map!BackendOK, Map!BackendAgrees
  <2>2. ASSUME NEW x \in out'
        PROVE  x \in Map!Watched
    <3>1. PICK d \in Map!Direction : x \in Map!ToSet(map_op.set[d]) \X {d}
      BY <1>1
    <3>2. PICK fd \in Map!ToSet(map_op.set[d]) : x = <<fd, d>>
      BY <3>1
    <3> QED
      BY <2>1, <3>2
  <2>3. ASSUME NEW x \in Map!Watched
        PROVE  x \in out'
    <3>1. PICK fd \in Fd, d \in Map!Direction : x = <<fd, d>>
      BY MapWatchedKinds
    <3>2. fd \in Map!ToSet(map_op.set[d])
      BY <2>1, <3>1
    <3> QED
      BY <1>1, <3>1, <3>2
  <2> QED
    BY <2>2, <2>3
<1>5. Map!BackendAgrees'
  BY <1>1, <1>2, <1>3 DEF MapIInv, Map!BackendOK, Map!BackendAgrees, Map!On
<1>6. Map!TypeOK'
  <2>1. /\ map_op'.set \in [Map!Direction -> Seq(Fd)]
        /\ map_op'.pos \in [Map!Direction -> [Fd -> Nat]]
        /\ map_op'.num_fds \in Nat /\ map_op'.out_size \in Nat
        /\ map_op'.resize_out_sets \in BOOLEAN
    BY <1>2 DEF MapSound, MapOps
  <2> QED
    BY <1>1, <1>4, <2>1, MapWatchedKinds DEF MapIInv, Map!BackendOK, Map!TypeOK
<1>7. Map!SetsOK' /\ Map!SelectIsCurrent'
  BY <1>2, <1>3, <1>4 DEF Map!SetsOK, MapSound, Map!SelectIsCurrent
<1> QED
  BY <1>1, <1>2, <1>5, <1>6, <1>7 DEF MapIInv, Map!BackendOK

LEMMA MapLoopInv ==
  ASSUME MapIInv,
         \/ Map!DispatchReturns \/ Map!DispatchTimesOut \/ Map!Peer
         \/ \E ev \in MapEvent : Map!RunEvent(ev)
  PROVE  MapIInv'
<1>1. /\ out \subseteq Fd \X Map!Direction /\ {selecting, notified} \subseteq BOOLEAN
      /\ ready \subseteq Fd \X Map!Direction /\ map_result \in [MapEvent -> SUBSET Map!Kind]
      /\ EventsOf \in [MapEvent -> SUBSET Map!Kind]
      /\ \A ev \in MapEvent : map_result[ev] \subseteq EventsOf[ev]
      /\ selecting /\ ~notified => Map!Watched \subseteq out
  BY MapFacts DEF MapIInv, Map!BackendOK, Map!TypeOK, Map!SelectIsCurrent
<1>2. CASE Map!DispatchReturns
  <2>1. /\ UNCHANGED <<map_events, count, map_op, ready>> /\ out' = {} /\ ~selecting'
        /\ selecting' = FALSE
        /\ notified' = FALSE
        /\ map_result' = [ev \in MapEvent |->
             IF ev \in map_events
             THEN map_result[ev] \cup { d \in EventsOf[ev] : <<FdOf[ev], d>> \in out \cap ready }
             ELSE map_result[ev]]
    BY <1>2 DEF Map!DispatchReturns, Map!evmap_io_active_
  <2>2. /\ map_result' \in [MapEvent -> SUBSET Map!Kind]
        /\ \A ev \in MapEvent : map_result'[ev] \subseteq EventsOf[ev]
    BY <1>1, <2>1
  <2> QED
    BY <1>1, <2>1, <2>2, MapSameLists
<1>3. CASE Map!DispatchTimesOut
  BY <1>1, <1>3, MapSameLists DEF Map!DispatchTimesOut
<1>4. CASE Map!Peer
  BY <1>1, <1>4, MapSameLists DEF Map!Peer
<1>5. ASSUME NEW ev \in MapEvent, Map!RunEvent(ev)
      PROVE  MapIInv'
  <2>1. /\ map_result' \in [MapEvent -> SUBSET Map!Kind]
        /\ \A e \in MapEvent : map_result'[e] \subseteq EventsOf[e]
    BY <1>1, <1>5 DEF Map!RunEvent
  <2> QED
    BY <1>1, <1>5, <2>1, MapSameLists DEF Map!RunEvent
<1> QED
  BY <1>2, <1>3, <1>4, <1>5

LEMMA MapInitInv == Map!Init => MapIInv
<1> SUFFICES ASSUME Map!Init
             PROVE  MapIInv
  OBVIOUS
<1>1. /\ map_events = {} /\ count = [fd \in Fd |-> [k \in Map!Kind |-> 0]]
      /\ map_op = Map!win32_init
      /\ out = {} /\ ~selecting /\ ~notified /\ {selecting, notified} \subseteq BOOLEAN
      /\ ready \subseteq Fd \X Map!Direction /\ map_result = [ev \in MapEvent |-> {}]
  BY DEF Map!Init
<1>2. /\ map_op \in MapOps /\ MapSizesOK(map_op) /\ map_op.num_fds \in Nat
      /\ \A d \in Map!Direction : map_op.set[d] = <<>> /\ map_op.pos[d] = [fd \in Fd |-> 0]
  BY <1>1, PlatformAssumption DEF PlatformAssumption, Map!win32_init, MapOps, MapSizesOK,
     Map!Win32Assumption
<1>3. MapSound(map_op)
  <2>1. MapAgree(<<>>, [fd \in Fd |-> 0]) /\ Len(<<>>) = 0
    <3>1. /\ <<>> \in Seq(Fd) /\ Len(<<>>) = 0 /\ 1 .. 0 = {}
          /\ [fd \in Fd |-> 0] \in [Fd -> Nat]
      OBVIOUS
    <3> QED
      BY <3>1 DEF MapAgree
  <2>2. \A d \in Map!Direction :
          MapAgree(map_op.set[d], map_op.pos[d]) /\ Len(map_op.set[d]) <= map_op.num_fds
    <3>1. map_op.num_fds >= 0
      BY <1>2
    <3> QED
      BY <1>2, <2>1, <3>1
  <2> QED
    BY <1>2, <2>2, MapSoundIf
<1>4. \A fd \in Fd : \A k : MapOnKind(fd, k) = {}
  BY <1>1 DEF MapOnKind, Map!On
<1>5. MapCountsOK /\ MapSetsAgree
  <2>1. MapCountsOK
    BY <1>1, <1>4, FS_EmptySet DEF MapCountsOK
  <2>2. MapSetsAgree
    BY <1>2, <1>4 DEF MapSetsAgree
  <2> QED
    BY <2>1, <2>2
<1>6. Map!TypeOK
  <2>1. /\ map_op.set \in [Map!Direction -> Seq(Fd)]
        /\ map_op.pos \in [Map!Direction -> [Fd -> Nat]]
        /\ map_op.num_fds \in Nat /\ map_op.out_size \in Nat /\ map_op.resize_out_sets \in BOOLEAN
    BY <1>2 DEF MapOps
  <2>2. count \in [Fd -> [Map!Kind -> 0 .. MaxPerFd]]
    BY <1>1, PlatformAssumption DEF PlatformAssumption, Map!EvMapAssumption
  <2> QED
    BY <1>1, <2>1, <2>2 DEF Map!TypeOK
<1>7. IsFiniteSet(map_events) /\ map_result \in [MapEvent -> SUBSET Map!Kind]
  BY <1>1, FS_EmptySet
<1> QED
  BY <1>1, <1>3, <1>5, <1>6, <1>7, MapAgreement
  DEF MapIInv, Map!BackendOK, Map!SetsOK, MapSound, Map!SelectIsCurrent

LEMMA MapNextInv ==
  ASSUME MapIInv, [Map!Next]_(Map!vars)
  PROVE  MapIInv'
<1>1. CASE UNCHANGED Map!vars
  <2>1. UNCHANGED <<map_events, count, map_op, out, selecting, notified, ready, map_result>>
    BY <1>1 DEF Map!vars
  <2>2. selecting /\ ~notified => Map!Watched \subseteq out
    BY DEF MapIInv, Map!BackendOK, Map!SelectIsCurrent
  <2> QED
    BY <2>1, <2>2, MapSameLists DEF MapIInv, Map!BackendOK, Map!TypeOK
<1> QED
  BY <1>1, MapAddInv, MapDelInv, MapSelectsInv, MapLoopInv DEF Map!Next, Map!Loop

\* evmap.c and win32select.c alone: the theorem at the end without the other parts.
THEOREM BackendAlwaysOK == Map!Spec => []Map!BackendOK
<1>1. MapIInv /\ [Map!Next]_(Map!vars) => MapIInv'
  BY MapNextInv
<1>2. MapIInv => Map!BackendOK
  BY DEF MapIInv
<1> QED
  BY <1>1, <1>2, MapInitInv, PTL DEF Map!Spec
-----------------------------------------------------------------------------
(* Signal handling, for any number of bases, signals and threads in which  *)
(* they are delivered.  SignalHandlingOK is not inductive alone: it says   *)
(* nothing while a call is in progress or a signal on its way, and nothing *)
(* of the counters.  The invariant counts the signals of each base, those  *)
(* of a call that has begun included, keeps a saved handler until it is    *)
(* restored, and follows a handler that the system has reset until         *)
(* evsig_handler has installed itself again.                               *)

\* The call that base b is in the middle of is one for signal s.
SignalIsCall(pair, call, s) == \E ev \in SignalEvent : pair = <<call, ev>> /\ SignalOf[ev] = s
SignalInCall(b, call, s) == SignalIsCall(busy[b], call, s)

\* The signals that a base has counted
SignalCounted(b) == { s \in Signal : Signals!OfSignal(b, s) # {} \/ SignalInCall(b, "add", s) }

\* What a base is in the middle of, and a Handler thread
SignalCalls == {Signals!Idle} \cup { <<call, ev>> : call \in {"add", "del"}, ev \in SignalEvent }
SignalPlaces ==
  {Signals!Idle} \cup { <<place, s>> : place \in {"check", "reinstall", "send"}, s \in Signal }

SignalTypes ==
  /\ Signals!TypeOK
  /\ busy \in [Base -> SignalCalls]
  /\ signal_at \in [Handler -> SignalPlaces]

\* A call is about an event of its base, whose signal has no other event.
SignalCallsOK ==
  \A b \in Base, call \in {"add", "del"}, ev \in SignalEvent : busy[b] = <<call, ev>> =>
    BaseOf[ev] = b /\ Signals!OfSignal(b, SignalOf[ev]) = {}

\* ev_n_signals_added is the number of signals of a base.
SignalCountsRight == \A b \in Base : n_signals_added[b] = Cardinality(SignalCounted(b))

\* A base has a saved handler also while it restores it.
SignalSaved ==
  \A b \in Base, s \in Signal :
    sh_old[b][s] # "none" <=> Signals!OfSignal(b, s) # {} \/ SignalInCall(b, "del", s)

\* The only base that has signals, or is adding or deleting one, is the one informed.
SignalOneBase ==
  \A b \in Base : n_signals_added[b] > 0 \/ busy[b] # Signals!Idle =>
    /\ evsig_base = b /\ evsig_base_fd = b
    /\ evsig_base_n_signals_added = n_signals_added[b]

\* The handler is installed, or will be again.
SignalInstalled ==
  \A b \in Base, s \in Signal : Signals!OfSignal(b, s) # {} =>
    \/ handler[s] = "evsig"
    \/ \E h \in Handler : signal_at[h] = <<"check", s>> \/ signal_at[h] = <<"reinstall", s>>

\* Every signal on its way to a socket finds room.
SignalRoom == \A b \in Base, s \in Signal : socket[b][s] + Signals!UnderWay(s) <= MaxCaught

SignalBasesInv == SignalCallsOK /\ SignalCountsRight /\ SignalSaved /\ SignalOneBase
SignalIInv == SignalTypes /\ SignalBasesInv /\ SignalInstalled /\ SignalRoom

-----------------------------------------------------------------------------

LEMMA SignalFacts ==
  ASSUME SignalTypes
  PROVE  /\ evsig_base \in Base \cup {NoBase} /\ evsig_base_fd \in Base \cup {NoBase}
         /\ evsig_base_n_signals_added \in Nat
         /\ handler \in [Signal -> {"default", "evsig"}]
         /\ signal_events \subseteq SignalEvent /\ signal_active \subseteq signal_events
         /\ n_signals_added \in [Base -> Nat]
         /\ ev_signal_added \subseteq Base
         /\ sh_old \in [Base -> [Signal -> {"none", "default", "evsig"}]]
         /\ socket \in [Base -> [Signal -> 0 .. MaxCaught]]
         /\ ncaught \in [Base -> [Signal -> 0 .. MaxCaught]]
         /\ busy \in [Base -> SignalCalls] /\ signal_at \in [Handler -> SignalPlaces]
         /\ BaseOf \in [SignalEvent -> Base] /\ SignalOf \in [SignalEvent -> Signal]
         /\ NoBase \notin Base /\ NoBase \notin Signal /\ MaxCaught \in Nat \ {0}
         /\ IsFiniteSet(Signal) /\ IsFiniteSet(Handler) /\ Cardinality(Signal) \in Nat
<1>1. Cardinality(Signal) \in Nat
  BY PlatformAssumption, FS_CardinalityType, SignalCardinality DEF PlatformAssumption,
     Signals!EvSignalAssumption
<1> QED
  BY <1>1, PlatformAssumption, SignalCardinality DEF PlatformAssumption,
     Signals!EvSignalAssumption, SignalTypes,
     Signals!TypeOK

\* The pairs of Calls and Places
LEMMA SignalPairs ==
  /\ \A ev \in SignalEvent : <<"add", ev>> \in SignalCalls /\ <<"del", ev>> \in SignalCalls
  /\ \A s \in Signal : /\ <<"check", s>> \in SignalPlaces /\ <<"reinstall", s>> \in SignalPlaces
                       /\ <<"send", s>> \in SignalPlaces
  /\ Signals!Idle \in SignalCalls /\ Signals!Idle \in SignalPlaces
  /\ \A p \in SignalPlaces : p # Signals!Idle => p[2] \in Signal /\ p = <<p[1], p[2]>>
  /\ \A p \in SignalPlaces : p # Signals!Idle => p[1] # "none"
  /\ \A e \in SignalEvent : <<"add", e>> # Signals!Idle /\ <<"del", e>> # Signals!Idle
  /\ Signals!Idle[2] = NoBase /\ Signals!Idle[1] = "none"
  BY DEF SignalCalls, SignalPlaces, Signals!Idle

\* The counts end at the number of signals.
LEMMA SignalCountTypes ==
  ASSUME SignalTypes
  PROVE  /\ \A b \in Base : /\ SignalCounted(b) \subseteq Signal /\ IsFiniteSet(SignalCounted(b))
                            /\ Cardinality(SignalCounted(b)) \in 0 .. Cardinality(Signal)
         /\ \A s \in Signal : Signals!UnderWay(s) \in Nat
<1>1. ASSUME NEW b \in Base
      PROVE  /\ SignalCounted(b) \subseteq Signal /\ IsFiniteSet(SignalCounted(b))
             /\ Cardinality(SignalCounted(b)) \in 0 .. Cardinality(Signal)
  <2>1. SignalCounted(b) \subseteq Signal
    BY DEF SignalCounted
  <2>2. /\ IsFiniteSet(SignalCounted(b)) /\ Cardinality(SignalCounted(b)) <= Cardinality(Signal)
        /\ Cardinality(SignalCounted(b)) \in Nat /\ Cardinality(Signal) \in Nat
    BY <2>1, SignalFacts, FS_Subset, FS_CardinalityType
  <2> QED
    BY <2>1, <2>2
<1>2. ASSUME NEW s \in Signal
      PROVE  Signals!UnderWay(s) \in Nat
  <2>1. IsFiniteSet({ h \in Handler : signal_at[h][2] = s })
    BY SignalFacts, FS_Subset
  <2> QED
    BY <2>1, FS_CardinalityType, SignalCardinality DEF Signals!UnderWay
<1> QED
  BY <1>1, <1>2

\* A thread of the handler goes on with the same signal, ends, or begins.
LEMMA SignalUnderWaySame ==
  ASSUME SignalTypes, NEW h \in Handler, NEW p \in SignalPlaces,
         signal_at' = [signal_at EXCEPT ![h] = p],
         p[2] = signal_at[h][2]
  PROVE  \A s \in Signal : Signals!UnderWay(s)' = Signals!UnderWay(s)
<1>1. \A k \in Handler : signal_at'[k][2] = signal_at[k][2]
  BY SignalFacts
<1>2. \A s \in Signal :
        { k \in Handler : signal_at'[k][2] = s } = { k \in Handler : signal_at[k][2] = s }
  BY <1>1
<1> QED
  BY <1>2 DEF Signals!UnderWay

LEMMA SignalUnderWayEnds ==
  ASSUME SignalTypes, NEW h \in Handler, signal_at[h] # Signals!Idle,
         signal_at' = [signal_at EXCEPT ![h] = Signals!Idle]
  PROVE  /\ signal_at[h][2] \in Signal
         /\ \A s \in Signal :
              Signals!UnderWay(s)' =
                IF s = signal_at[h][2] THEN Signals!UnderWay(s) - 1 ELSE Signals!UnderWay(s)
<1>1. signal_at[h][2] \in Signal /\ Signals!Idle[2] = NoBase /\ NoBase \notin Signal
  BY SignalFacts, SignalPairs
<1>2. ASSUME NEW s \in Signal
      PROVE  Signals!UnderWay(s)' =
               IF s = signal_at[h][2] THEN Signals!UnderWay(s) - 1 ELSE Signals!UnderWay(s)
  <2> DEFINE H == { k \in Handler : signal_at[k][2] = s }
             I == { k \in Handler : signal_at'[k][2] = s }
  <2>1. IsFiniteSet(H)
    BY SignalFacts, FS_Subset
  <2>2. CASE s = signal_at[h][2]
    <3>1. h \in H /\ I = H \ {h}
      BY <1>1, <2>2, SignalFacts
    <3>2. Cardinality(I) = Cardinality(H) - 1
      BY <2>1, <3>1, FS_RemoveElement
    <3> QED
      BY <2>2, <3>2, SignalCardinality DEF Signals!UnderWay
  <2>3. CASE s # signal_at[h][2]
    <3>1. I = H
      BY <1>1, <2>3, SignalFacts
    <3> QED
      BY <2>3, <3>1 DEF Signals!UnderWay
  <2> QED
    BY <2>2, <2>3
<1> QED
  BY <1>1, <1>2

LEMMA SignalUnderWayBegins ==
  ASSUME SignalTypes, NEW h \in Handler, signal_at[h] = Signals!Idle, NEW p \in SignalPlaces,
         p[2] \in Signal,
         signal_at' = [signal_at EXCEPT ![h] = p]
  PROVE  \A s \in Signal :
           Signals!UnderWay(s)' = IF s = p[2] THEN Signals!UnderWay(s) + 1 ELSE Signals!UnderWay(s)
<1>1. signal_at[h][2] = NoBase /\ NoBase \notin Signal
  BY SignalFacts, SignalPairs
<1>2. ASSUME NEW s \in Signal
      PROVE  Signals!UnderWay(s)' =
               IF s = p[2] THEN Signals!UnderWay(s) + 1 ELSE Signals!UnderWay(s)
  <2> DEFINE H == { k \in Handler : signal_at[k][2] = s }
             I == { k \in Handler : signal_at'[k][2] = s }
  <2>1. IsFiniteSet(H)
    BY SignalFacts, FS_Subset
  <2>2. CASE s = p[2]
    <3>1. h \notin H /\ I = H \cup {h}
      BY <1>1, <2>2, SignalFacts
    <3>2. Cardinality(I) = Cardinality(H) + 1
      BY <2>1, <3>1, FS_AddElement
    <3> QED
      BY <2>2, <3>2, SignalCardinality DEF Signals!UnderWay
  <2>3. CASE s # p[2]
    <3>1. I = H
      BY <1>1, <2>3, SignalFacts
    <3> QED
      BY <2>3, <3>1 DEF Signals!UnderWay
  <2> QED
    BY <2>2, <2>3
<1> QED
  BY <1>1, <1>2

-----------------------------------------------------------------------------
(* The steps that leave the bases as they are.                             *)

LEMMA SignalSameBases ==
  ASSUME SignalBasesInv, UNCHANGED <<Signals!globals, n_signals_added, sh_old, busy>>,
         \A b \in Base, s \in Signal : Signals!OfSignal(b, s)' = {} <=> Signals!OfSignal(b, s) = {},
         SignalOf \in [SignalEvent -> Signal]
  PROVE  SignalBasesInv'
<1>1. \A b \in Base, s \in Signal, call \in {"add", "del"} :
        SignalInCall(b, call, s)' <=> SignalInCall(b, call, s)
  BY DEF SignalInCall
<1>2. \A b \in Base : SignalCounted(b)' = SignalCounted(b)
  BY <1>1 DEF SignalCounted
<1>3. SignalCallsOK' /\ SignalOneBase'
  BY DEF SignalBasesInv, SignalCallsOK, SignalOneBase, Signals!globals
<1>4. SignalCountsRight'
  BY <1>2 DEF SignalBasesInv, SignalCountsRight
<1>5. SignalSaved'
  BY <1>1 DEF SignalBasesInv, SignalSaved
<1> QED
  BY <1>3, <1>4, <1>5 DEF SignalBasesInv

LEMMA SignalSameEvents ==
  ASSUME SignalIInv, UNCHANGED <<Signals!globals, signal_events, n_signals_added, sh_old, busy>>
  PROVE  SignalBasesInv'
<1>1. \A b \in Base, s \in Signal : Signals!OfSignal(b, s)' = Signals!OfSignal(b, s)
  BY DEF Signals!OfSignal
<1> QED
  BY <1>1, SignalSameBases, SignalFacts DEF SignalIInv

\* The handlers and sockets are not looked at.
LEMMA SignalSameHandling ==
  ASSUME SignalIInv, UNCHANGED <<signal_at, socket>>, UNCHANGED handler,
         \A b \in Base, s \in Signal : Signals!OfSignal(b, s)' # {} => Signals!OfSignal(b, s) # {}
  PROVE  SignalInstalled' /\ SignalRoom'
<1>1. \A s \in Signal : Signals!UnderWay(s)' = Signals!UnderWay(s)
  BY DEF Signals!UnderWay
<1> QED
  BY <1>1 DEF SignalIInv, SignalInstalled, SignalRoom

\* A base with an event is the one informed.
LEMMA SignalInformed ==
  ASSUME SignalIInv, NEW b \in Base, NEW s \in Signal, Signals!OfSignal(b, s) # {}
  PROVE  /\ n_signals_added[b] > 0 /\ evsig_base = b /\ evsig_base_fd = b
         /\ evsig_base_n_signals_added = n_signals_added[b]
<1>1. s \in SignalCounted(b) /\ IsFiniteSet(SignalCounted(b))
  BY SignalCountTypes DEF SignalCounted, SignalIInv
<1>2. Cardinality(SignalCounted(b)) # 0
  BY <1>1, FS_EmptySet
<1>3. n_signals_added[b] > 0
  BY <1>2, SignalFacts DEF SignalIInv, SignalBasesInv, SignalCountsRight
<1> QED
  BY <1>3 DEF SignalIInv, SignalBasesInv, SignalOneBase

LEMMA SignalDeliverInv ==
  ASSUME SignalIInv, NEW h \in Handler, NEW s \in Signal, Signals!Deliver(h, s)
  PROVE  SignalIInv'
<1> DEFINE p == <<"check", s>>
<1>1. /\ signal_at[h] = Signals!Idle /\ signal_at' = [signal_at EXCEPT ![h] = p]
      /\ p \in SignalPlaces /\ p[2] = s
      /\ handler' = [handler EXCEPT ![s] = "default"]
      /\ \A b \in Base : socket[b][s] + Signals!UnderWay(s) < MaxCaught
      /\ UNCHANGED <<Signals!globals, signal_events, Signals!perBase, socket, ncaught,
           signal_active>>
  BY SignalPairs DEF Signals!Deliver
<1> HIDE DEF p
<1>2. SignalBasesInv'
  BY <1>1, SignalSameEvents DEF Signals!perBase
<1>3. SignalTypes'
  BY <1>1, SignalFacts DEF SignalIInv, SignalTypes, Signals!TypeOK, Signals!globals, Signals!perBase
<1>4. \A r \in Signal :
       Signals!UnderWay(r)' = IF r = s THEN Signals!UnderWay(r) + 1 ELSE Signals!UnderWay(r)
  BY <1>1, SignalUnderWayBegins DEF SignalIInv
<1>5. SignalRoom'
  <2> SUFFICES ASSUME NEW b \in Base, NEW r \in Signal
               PROVE  (socket[b][r] + Signals!UnderWay(r) <= MaxCaught)'
    BY DEF SignalRoom
  <2>1. /\ socket[b][r] \in Nat /\ MaxCaught \in Nat /\ Signals!UnderWay(r) \in Nat
        /\ socket[b][r] + Signals!UnderWay(r) <= MaxCaught
    BY SignalFacts, SignalCountTypes DEF SignalIInv, SignalRoom
  <2>2. socket'[b][r] = socket[b][r] /\ MaxCaught' = MaxCaught
    BY <1>1
  <2>3. CASE r = s
    <3>1. /\ Signals!UnderWay(r)' = Signals!UnderWay(r) + 1
          /\ socket[b][r] + Signals!UnderWay(r) < MaxCaught
      BY <1>1, <1>4, <2>3
    <3> QED
      BY <2>1, <2>2, <3>1
  <2>4. CASE r # s
    <3>1. Signals!UnderWay(r)' = Signals!UnderWay(r)
      BY <1>4, <2>4
    <3> QED
      BY <2>1, <2>2, <3>1
  <2> QED
    BY <2>3, <2>4
<1>6. SignalInstalled'
  <2> SUFFICES ASSUME NEW b \in Base, NEW r \in Signal, Signals!OfSignal(b, r)' # {}
               PROVE  \/ handler'[r] = "evsig"
                      \/ \E k \in Handler :
                           signal_at'[k] = <<"check", r>> \/ signal_at'[k] = <<"reinstall", r>>
    BY DEF SignalInstalled
  <2>1. Signals!OfSignal(b, r) # {}
    BY <1>1 DEF Signals!OfSignal
  <2>2. CASE r = s
    BY <1>1, <2>2, SignalFacts DEF SignalIInv, p
  <2>3. CASE r # s
    <3>1. handler'[r] = handler[r]
      BY <1>1, <2>3, SignalFacts DEF SignalIInv
    <3>2. \A k \in Handler :
            signal_at[k] = <<"check", r>> \/ signal_at[k] = <<"reinstall", r>> => k # h
      BY <1>1, SignalPairs DEF Signals!Idle
    <3>3. \A k \in Handler \ {h} : signal_at'[k] = signal_at[k]
      BY <1>1, SignalFacts DEF SignalIInv
    <3> QED
      BY <2>1, <3>1, <3>2, <3>3 DEF SignalIInv, SignalInstalled
  <2> QED
    BY <2>2, <2>3
<1> QED
  BY <1>2, <1>3, <1>5, <1>6 DEF SignalIInv

LEMMA SignalChecksInv ==
  ASSUME SignalIInv, NEW h \in Handler, Signals!HandlerChecks(h)
  PROVE  SignalIInv'
<1>1. PICK s \in Signal : signal_at[h] = <<"check", s>> /\ signal_at[h] # Signals!Idle
  <2>1. signal_at[h][1] = "check" /\ signal_at[h] # Signals!Idle
    BY SignalPairs DEF Signals!HandlerChecks
  <2> QED
    BY <2>1, SignalPairs, SignalFacts DEF SignalIInv
<1> DEFINE p == <<"reinstall", s>>
<1>2. p \in SignalPlaces /\ p[2] = s /\ signal_at[h][2] = s
  BY <1>1, SignalPairs
<1>3. /\ UNCHANGED <<Signals!globals, handler, signal_events, Signals!perBase, socket, ncaught,
           signal_active>>
      /\ \/ evsig_base = NoBase /\ signal_at' = [signal_at EXCEPT ![h] = Signals!Idle]
         \/ evsig_base # NoBase /\ signal_at' = [signal_at EXCEPT ![h] = p]
  <2>1. signal_at[h][2] = s
    BY <1>1
  <2>2. CASE evsig_base = NoBase
    BY <2>2 DEF Signals!HandlerChecks
  <2>3. CASE evsig_base # NoBase
    BY <2>1, <2>3 DEF Signals!HandlerChecks
  <2> QED
    BY <2>2, <2>3
<1> HIDE DEF p
<1>4. SignalBasesInv'
  BY <1>3, SignalSameEvents DEF Signals!perBase
<1>5. SignalTypes'
  <2>1. signal_at' \in [Handler -> SignalPlaces]
    BY <1>2, <1>3, SignalFacts, SignalPairs DEF SignalIInv
  <2> QED
    BY <1>3, <2>1, SignalFacts DEF SignalIInv, SignalTypes, Signals!TypeOK, Signals!globals,
       Signals!perBase
<1>6. \A r \in Signal :
        /\ Signals!UnderWay(r)' <= Signals!UnderWay(r) /\ Signals!UnderWay(r)' \in Int
        /\ Signals!UnderWay(r) \in Int
  <2>1. \A r \in Signal : Signals!UnderWay(r) \in Nat
    BY SignalCountTypes DEF SignalIInv
  <2>2. CASE signal_at' = [signal_at EXCEPT ![h] = Signals!Idle]
    <3>1. \A r \in Signal :
           Signals!UnderWay(r)' =
             IF r = signal_at[h][2] THEN Signals!UnderWay(r) - 1 ELSE Signals!UnderWay(r)
      BY <1>1, <2>2, SignalUnderWayEnds DEF SignalIInv
    <3> QED
      BY <2>1, <3>1
  <2>3. CASE signal_at' = [signal_at EXCEPT ![h] = p]
    <3>1. \A r \in Signal : Signals!UnderWay(r)' = Signals!UnderWay(r)
      BY <1>2, <2>3, SignalUnderWaySame DEF SignalIInv
    <3> QED
      BY <2>1, <3>1
  <2> QED
    BY <1>3, <2>2, <2>3
<1>7. SignalRoom'
  <2> SUFFICES ASSUME NEW b \in Base, NEW r \in Signal
               PROVE  (socket[b][r] + Signals!UnderWay(r) <= MaxCaught)'
    BY DEF SignalRoom
  <2>1. /\ socket[b][r] \in Nat /\ MaxCaught \in Nat
        /\ socket[b][r] + Signals!UnderWay(r) <= MaxCaught
    BY SignalFacts DEF SignalIInv, SignalRoom
  <2> QED
    BY <1>3, <1>6, <2>1
<1>8. SignalInstalled'
  <2> SUFFICES ASSUME NEW b \in Base, NEW r \in Signal, Signals!OfSignal(b, r)' # {}
               PROVE  \/ handler'[r] = "evsig"
                      \/ \E k \in Handler :
                           signal_at'[k] = <<"check", r>> \/ signal_at'[k] = <<"reinstall", r>>
    BY DEF SignalInstalled
  <2>1. Signals!OfSignal(b, r) # {}
    BY <1>3 DEF Signals!OfSignal
  <2>2. evsig_base # NoBase /\ signal_at' = [signal_at EXCEPT ![h] = p]
    BY <1>3, <2>1, SignalInformed, SignalFacts DEF SignalIInv
  <2>3. handler' = handler
    BY <1>3
  <2>4. CASE r = s
    <3>1. signal_at'[h] = <<"reinstall", r>>
      BY <2>2, <2>4, SignalFacts DEF p, SignalIInv
    <3> QED
      BY <3>1
  <2>5. CASE r # s
    <3>1. \A k \in Handler :
            signal_at[k] = <<"check", r>> \/ signal_at[k] = <<"reinstall", r>> =>
              signal_at'[k] = signal_at[k]
      BY <1>1, <2>2, <2>5, SignalFacts DEF SignalIInv
    <3> QED
      BY <2>1, <2>3, <3>1 DEF SignalIInv, SignalInstalled
  <2> QED
    BY <2>4, <2>5
<1> QED
  BY <1>4, <1>5, <1>7, <1>8 DEF SignalIInv

LEMMA SignalReinstallsInv ==
  ASSUME SignalIInv, NEW h \in Handler, Signals!HandlerReinstalls(h)
  PROVE  SignalIInv'
<1>1. PICK s \in Signal : signal_at[h] = <<"reinstall", s>> /\ signal_at[h] # Signals!Idle
  <2>1. signal_at[h][1] = "reinstall" /\ signal_at[h] # Signals!Idle
    BY SignalPairs DEF Signals!HandlerReinstalls
  <2> QED
    BY <2>1, SignalPairs, SignalFacts DEF SignalIInv
<1> DEFINE p == <<"send", s>>
<1>2. p \in SignalPlaces /\ p[2] = s /\ signal_at[h][2] = s
  BY <1>1, SignalPairs
<1>3. /\ UNCHANGED <<Signals!globals, signal_events, Signals!perBase, socket, ncaught,
           signal_active>>
      /\ handler' = [handler EXCEPT ![s] = "evsig"]
      /\ signal_at' = [signal_at EXCEPT ![h] = p]
  BY <1>1, SignalFacts DEF Signals!HandlerReinstalls, SignalIInv
<1> HIDE DEF p
<1>4. SignalBasesInv'
  BY <1>3, SignalSameEvents DEF Signals!perBase
<1>5. SignalTypes'
  BY <1>2, <1>3, SignalFacts, SignalPairs DEF SignalIInv, SignalTypes, Signals!TypeOK,
     Signals!globals, Signals!perBase
<1>6. \A r \in Signal : Signals!UnderWay(r)' = Signals!UnderWay(r)
  BY <1>2, <1>3, SignalUnderWaySame DEF SignalIInv
<1>7. SignalRoom'
  BY <1>3, <1>6 DEF SignalIInv, SignalRoom
<1>8. SignalInstalled'
  <2> SUFFICES ASSUME NEW b \in Base, NEW r \in Signal, Signals!OfSignal(b, r)' # {}
               PROVE  \/ handler'[r] = "evsig"
                      \/ \E k \in Handler :
                           signal_at'[k] = <<"check", r>> \/ signal_at'[k] = <<"reinstall", r>>
    BY DEF SignalInstalled
  <2>1. Signals!OfSignal(b, r) # {}
    BY <1>3 DEF Signals!OfSignal
  <2>2. CASE r = s
    BY <1>3, <2>2, SignalFacts DEF SignalIInv
  <2>3. CASE r # s
    <3>1. handler'[r] = handler[r]
      BY <1>3, <2>3, SignalFacts DEF SignalIInv
    <3>2. \A k \in Handler :
            signal_at[k] = <<"check", r>> \/ signal_at[k] = <<"reinstall", r>> =>
              signal_at'[k] = signal_at[k]
      BY <1>1, <1>3, <2>3, SignalFacts DEF SignalIInv
    <3> QED
      BY <2>1, <3>1, <3>2 DEF SignalIInv, SignalInstalled
  <2> QED
    BY <2>2, <2>3
<1> QED
  BY <1>4, <1>5, <1>7, <1>8 DEF SignalIInv

LEMMA SignalSendsInv ==
  ASSUME SignalIInv, NEW h \in Handler, Signals!HandlerSends(h)
  PROVE  SignalIInv'
<1>1. PICK s \in Signal : signal_at[h] = <<"send", s>> /\ signal_at[h] # Signals!Idle
  <2>1. signal_at[h][1] = "send" /\ signal_at[h] # Signals!Idle
    BY SignalPairs DEF Signals!HandlerSends
  <2> QED
    BY <2>1, SignalPairs, SignalFacts DEF SignalIInv
<1>2. /\ UNCHANGED <<Signals!globals, handler, signal_events, Signals!perBase, ncaught,
           signal_active>>
      /\ signal_at' = [signal_at EXCEPT ![h] = Signals!Idle]
      /\ socket' = IF evsig_base_fd = NoBase THEN socket
                   ELSE [socket EXCEPT ![evsig_base_fd][s] = @ + 1]
      /\ signal_at[h][2] = s
  BY <1>1 DEF Signals!HandlerSends
<1>3. SignalBasesInv'
  BY <1>2, SignalSameEvents DEF Signals!perBase
<1>4. /\ \A r \in Signal :
           Signals!UnderWay(r)' = IF r = s THEN Signals!UnderWay(r) - 1 ELSE Signals!UnderWay(r)
      /\ \A r \in Signal : Signals!UnderWay(r) \in Nat
  BY <1>1, <1>2, SignalUnderWayEnds, SignalCountTypes DEF SignalIInv
<1>5. Signals!UnderWay(s) > 0
  <2> DEFINE H == { k \in Handler : signal_at[k][2] = s }
  <2>1. h \in H /\ IsFiniteSet(H)
    BY <1>2, SignalFacts, FS_Subset DEF SignalIInv
  <2>2. Cardinality(H) # 0
    BY <2>1, FS_EmptySet
  <2> QED
    BY <1>4, <2>2, SignalCardinality DEF Signals!UnderWay
<1>6. \A b \in Base, r \in Signal :
        /\ socket'[b][r] \in 0 .. MaxCaught
        /\ socket'[b][r] + Signals!UnderWay(r)' <= MaxCaught
  <2> SUFFICES ASSUME NEW b \in Base, NEW r \in Signal
               PROVE  /\ socket'[b][r] \in 0 .. MaxCaught
                      /\ socket'[b][r] + Signals!UnderWay(r)' <= MaxCaught
    OBVIOUS
  <2>1. /\ socket[b][r] \in 0 .. MaxCaught /\ MaxCaught \in Nat /\ Signals!UnderWay(r) \in Nat
        /\ socket[b][r] + Signals!UnderWay(r) <= MaxCaught
    BY <1>4, SignalFacts DEF SignalIInv, SignalRoom
  <2>2. \/ socket'[b][r] = socket[b][r]
        \/ socket'[b][r] = socket[b][r] + 1 /\ r = s
    BY <1>2, SignalFacts DEF SignalIInv
  <2> QED
    BY <1>4, <1>5, <2>1, <2>2
<1>7. socket' \in [Base -> [Signal -> 0 .. MaxCaught]]
  <2>1. /\ DOMAIN socket' = Base /\ socket' = [b \in Base |-> socket'[b]]
        /\ \A b \in Base : /\ DOMAIN socket'[b] = Signal
                           /\ socket'[b] = [r \in Signal |-> socket'[b][r]]
    BY <1>2, SignalFacts DEF SignalIInv
  <2> QED
    BY <1>6, <2>1
<1>8. SignalTypes'
  BY <1>2, <1>7, SignalFacts, SignalPairs DEF SignalIInv, SignalTypes, Signals!TypeOK,
     Signals!globals, Signals!perBase
<1>9. SignalRoom'
  BY <1>6 DEF SignalRoom
<1>10. SignalInstalled'
  <2>1. \A k \in Handler, r \in Signal :
          signal_at[k] = <<"check", r>> \/ signal_at[k] = <<"reinstall", r>> =>
            signal_at'[k] = signal_at[k]
    BY <1>1, <1>2, SignalFacts DEF SignalIInv
  <2>2. \A b \in Base, r \in Signal : Signals!OfSignal(b, r)' = Signals!OfSignal(b, r)
    BY <1>2 DEF Signals!OfSignal
  <2>3. handler' = handler
    BY <1>2
  <2> QED
    BY <2>1, <2>2, <2>3 DEF SignalIInv, SignalInstalled
<1> QED
  BY <1>3, <1>8, <1>9, <1>10 DEF SignalIInv

-----------------------------------------------------------------------------
(* The loops                                                               *)

LEMMA SignalReadsInv ==
  ASSUME SignalIInv, NEW b \in Base, Signals!CbReads(b)
  PROVE  SignalIInv'
<1>1. /\ UNCHANGED <<Signals!globals, handler, signal_events, Signals!perBase, signal_active,
           signal_at>>
      /\ ncaught' = [ncaught EXCEPT ![b] = socket[b]]
      /\ socket' = [socket EXCEPT ![b] = Signals!NoSignals]
  BY DEF Signals!CbReads
<1>2. SignalBasesInv'
  BY <1>1, SignalSameEvents DEF Signals!perBase
<1>3. Signals!NoSignals \in [Signal -> 0 .. MaxCaught]
  BY SignalFacts DEF Signals!NoSignals, SignalIInv
<1>4. SignalTypes'
  BY <1>1, <1>3, SignalFacts DEF SignalIInv, SignalTypes, Signals!TypeOK, Signals!globals,
     Signals!perBase
<1>5. SignalRoom'
  <2> SUFFICES ASSUME NEW c \in Base, NEW r \in Signal
               PROVE  (socket[c][r] + Signals!UnderWay(r) <= MaxCaught)'
    BY DEF SignalRoom
  <2>1. /\ socket[c][r] \in Nat /\ Signals!UnderWay(r) \in Nat /\ MaxCaught \in Nat
        /\ socket[c][r] + Signals!UnderWay(r) <= MaxCaught
    BY SignalFacts, SignalCountTypes DEF SignalIInv, SignalRoom
  <2>2. socket'[c][r] = socket[c][r] \/ socket'[c][r] = 0
    BY <1>1, SignalFacts DEF SignalIInv, Signals!NoSignals
  <2>3. Signals!UnderWay(r)' = Signals!UnderWay(r)
    BY <1>1 DEF Signals!UnderWay
  <2> QED
    BY <2>1, <2>2, <2>3
<1>6. SignalInstalled'
  BY <1>1 DEF SignalIInv, SignalInstalled, Signals!OfSignal
<1> QED
  BY <1>2, <1>4, <1>5, <1>6 DEF SignalIInv

LEMMA SignalActivatesInv ==
  ASSUME SignalIInv, NEW b \in Base, Signals!CbActivates(b)
  PROVE  SignalIInv'
<1>1. /\ UNCHANGED <<Signals!globals, handler, signal_events, Signals!perBase, socket, signal_at>>
      /\ signal_active' \subseteq signal_events
      /\ ncaught' = [ncaught EXCEPT ![b] = Signals!NoSignals]
  BY SignalFacts DEF Signals!CbActivates, SignalIInv
<1>2. SignalBasesInv'
  BY <1>1, SignalSameEvents DEF Signals!perBase
<1>3. Signals!NoSignals \in [Signal -> 0 .. MaxCaught]
  BY SignalFacts DEF Signals!NoSignals, SignalIInv
<1>4. SignalTypes'
  BY <1>1, <1>3, SignalFacts DEF SignalIInv, SignalTypes, Signals!TypeOK, Signals!globals,
     Signals!perBase
<1>5. SignalRoom' /\ SignalInstalled'
  BY <1>1, SignalSameHandling DEF Signals!OfSignal
<1> QED
  BY <1>2, <1>4, <1>5 DEF SignalIInv

LEMMA SignalRunInv ==
  ASSUME SignalIInv, NEW ev, Signals!RunEvent(ev)
  PROVE  SignalIInv'
<1>1. /\ UNCHANGED <<Signals!globals, handler, signal_events, Signals!perBase, socket, ncaught,
           signal_at>>
      /\ signal_active' \subseteq signal_events
  BY SignalFacts DEF Signals!RunEvent, SignalIInv
<1>2. SignalBasesInv'
  BY <1>1, SignalSameEvents DEF Signals!perBase
<1>3. SignalTypes'
  BY <1>1, SignalFacts DEF SignalIInv, SignalTypes, Signals!TypeOK, Signals!globals, Signals!perBase
<1>4. SignalRoom' /\ SignalInstalled'
  BY <1>1, SignalSameHandling DEF Signals!OfSignal
<1> QED
  BY <1>2, <1>3, <1>4 DEF SignalIInv

-----------------------------------------------------------------------------
(* The calls                                                               *)

\* The calls that a base may be in the middle of
LEMMA SignalCallFacts ==
  ASSUME SignalOf \in [SignalEvent -> Signal]
  PROVE  /\ \A call \in {"add", "del"}, s \in Signal : ~SignalIsCall(Signals!Idle, call, s)
         /\ \A c, call \in {"add", "del"}, ev \in SignalEvent, s \in Signal :
              SignalIsCall(<<c, ev>>, call, s) <=> c = call /\ s = SignalOf[ev]
  BY DEF SignalIsCall, Signals!Idle

LEMMA SignalListAddInv ==
  ASSUME SignalIInv, NEW ev \in SignalEvent, Signals!evmap_signal_add_(ev)
  PROVE  SignalIInv'
<1>1. /\ UNCHANGED <<Signals!globals, handler, Signals!perBase, socket, ncaught, signal_active,
           signal_at>>
      /\ signal_events' = signal_events \cup {ev} /\ Signals!OfSignal(BaseOf[ev], SignalOf[ev]) # {}
  BY DEF Signals!evmap_signal_add_
<1>2. \A b \in Base, s \in Signal : Signals!OfSignal(b, s)' = {} <=> Signals!OfSignal(b, s) = {}
  <2> SUFFICES ASSUME NEW b \in Base, NEW s \in Signal
               PROVE  Signals!OfSignal(b, s)' = {} <=> Signals!OfSignal(b, s) = {}
    OBVIOUS
  <2>1. Signals!OfSignal(b, s)' =
          Signals!OfSignal(b, s) \cup {e \in {ev} : BaseOf[e] = b /\ SignalOf[e] = s}
    BY <1>1 DEF Signals!OfSignal
  <2> QED
    BY <1>1, <2>1
<1>3. SignalBasesInv'
  BY <1>1, <1>2, SignalSameBases, SignalFacts DEF SignalIInv, Signals!perBase
<1>4. SignalTypes'
  BY <1>1, SignalFacts DEF SignalIInv, SignalTypes, Signals!TypeOK, Signals!globals, Signals!perBase
<1>5. SignalRoom' /\ SignalInstalled'
  BY <1>1, <1>2, SignalSameHandling
<1> QED
  BY <1>3, <1>4, <1>5 DEF SignalIInv

LEMMA SignalListDelInv ==
  ASSUME SignalIInv, NEW ev \in SignalEvent, Signals!evmap_signal_del_(ev)
  PROVE  SignalIInv'
<1>1. /\ UNCHANGED <<Signals!globals, handler, Signals!perBase, socket, ncaught, signal_at>>
      /\ signal_active' = signal_active \ {ev} /\ ev \in signal_events
      /\ signal_events' = signal_events \ {ev} /\ Signals!OfSignal(BaseOf[ev], SignalOf[ev]) # {ev}
  BY DEF Signals!evmap_signal_del_
<1>2. \A b \in Base, s \in Signal : Signals!OfSignal(b, s)' = {} <=> Signals!OfSignal(b, s) = {}
  <2> SUFFICES ASSUME NEW b \in Base, NEW s \in Signal
               PROVE  Signals!OfSignal(b, s)' = {} <=> Signals!OfSignal(b, s) = {}
    OBVIOUS
  <2>1. Signals!OfSignal(b, s)' = Signals!OfSignal(b, s) \ {ev}
    BY <1>1 DEF Signals!OfSignal
  <2>2. ev \in Signals!OfSignal(b, s) => Signals!OfSignal(b, s) # {ev}
    BY <1>1 DEF Signals!OfSignal
  <2> QED
    BY <2>1, <2>2
<1>3. SignalBasesInv'
  BY <1>1, <1>2, SignalSameBases, SignalFacts DEF SignalIInv, Signals!perBase
<1>4. SignalTypes'
  BY <1>1, SignalFacts DEF SignalIInv, SignalTypes, Signals!TypeOK, Signals!globals, Signals!perBase
<1>5. SignalRoom' /\ SignalInstalled'
  BY <1>1, <1>2, SignalSameHandling
<1> QED
  BY <1>3, <1>4, <1>5 DEF SignalIInv
\* A call is under way, or not, at the base; the other bases are left alone.
LEMMA SignalOtherBases ==
  ASSUME SignalIInv, NEW b \in Base, busy' = [busy EXCEPT ![b] = busy'[b]],
         signal_events' \subseteq SignalEvent,
         \A ev \in SignalEvent : BaseOf[ev] # b => (ev \in signal_events' <=> ev \in signal_events)
  PROVE  \A c \in Base \ {b} :
           /\ busy'[c] = busy[c]
           /\ \A s \in Signal : Signals!OfSignal(c, s)' = Signals!OfSignal(c, s)
           /\ \A s \in Signal, call \in {"add", "del"} :
                SignalInCall(c, call, s)' <=> SignalInCall(c, call, s)
           /\ SignalCounted(c)' = SignalCounted(c)
<1> SUFFICES ASSUME NEW c \in Base \ {b}
             PROVE  /\ busy'[c] = busy[c]
                    /\ \A s \in Signal : Signals!OfSignal(c, s)' = Signals!OfSignal(c, s)
                    /\ \A s \in Signal, call \in {"add", "del"} :
                         SignalInCall(c, call, s)' <=> SignalInCall(c, call, s)
                    /\ SignalCounted(c)' = SignalCounted(c)
  OBVIOUS
<1>1. busy'[c] = busy[c]
  BY SignalFacts DEF SignalIInv
<1>2. \A s \in Signal : Signals!OfSignal(c, s)' = Signals!OfSignal(c, s)
  BY SignalFacts DEF Signals!OfSignal, SignalIInv
<1>3. \A s \in Signal, call \in {"add", "del"} :
        SignalInCall(c, call, s)' <=> SignalInCall(c, call, s)
  BY <1>1 DEF SignalInCall
<1> QED
  BY <1>1, <1>2, <1>3 DEF SignalCounted

LEMMA SignalSetBaseInv ==
  ASSUME SignalIInv, NEW b \in Base, Signals!evsig_set_base_(b)
  PROVE  SignalIInv'
<1>1. /\ UNCHANGED <<handler, signal_events, Signals!perBase, socket, ncaught, signal_active,
           signal_at>>
      /\ n_signals_added[b] > 0
      /\ evsig_base' = b /\ evsig_base_n_signals_added' = n_signals_added[b] /\ evsig_base_fd' = b
  BY DEF Signals!evsig_set_base_, Signals!TakeOver
<1>2. UNCHANGED Signals!globals
  BY <1>1 DEF SignalIInv, SignalBasesInv, SignalOneBase, Signals!globals
<1>3. SignalBasesInv'
  BY <1>1, <1>2, SignalSameEvents DEF Signals!perBase
<1>4. SignalTypes'
  BY <1>1, <1>2, SignalFacts DEF SignalIInv, SignalTypes, Signals!TypeOK, Signals!globals,
     Signals!perBase
<1>5. SignalRoom' /\ SignalInstalled'
  BY <1>1, SignalSameHandling DEF Signals!OfSignal
<1> QED
  BY <1>3, <1>4, <1>5 DEF SignalIInv

LEMMA SignalDeallocInv ==
  ASSUME SignalIInv, NEW b \in Base, Signals!evsig_dealloc_(b)
  PROVE  SignalIInv'
<1>1. /\ UNCHANGED <<handler, signal_events, n_signals_added, sh_old, busy, ncaught, signal_active,
           signal_at>>
      /\ busy[b] = Signals!Idle /\ \A ev \in signal_events : BaseOf[ev] # b
      /\ ev_signal_added' = ev_signal_added \ {b}
      /\ socket' = [socket EXCEPT ![b] = Signals!NoSignals]
      /\ \/ /\ evsig_base = b /\ evsig_base' = NoBase
            /\ evsig_base_n_signals_added' = 0 /\ evsig_base_fd' = NoBase
         \/ evsig_base # b /\ UNCHANGED Signals!globals
  BY DEF Signals!evsig_dealloc_
<1>2. n_signals_added[b] = 0
  <2>1. \A s \in Signal : Signals!OfSignal(b, s) = {} /\ ~SignalInCall(b, "add", s)
    BY <1>1, SignalCallFacts, SignalFacts DEF Signals!OfSignal, SignalInCall, SignalIInv
  <2>2. SignalCounted(b) = {}
    BY <2>1 DEF SignalCounted
  <2> QED
    BY <2>2, FS_EmptySet DEF SignalIInv, SignalBasesInv, SignalCountsRight
<1>3. \A c \in Base, s \in Signal : Signals!OfSignal(c, s)' = Signals!OfSignal(c, s)
  BY <1>1 DEF Signals!OfSignal
<1>4. \A c \in Base, call \in {"add", "del"}, s \in Signal :
        SignalInCall(c, call, s)' <=> SignalInCall(c, call, s)
  BY <1>1 DEF SignalInCall
<1>5. SignalCallsOK' /\ SignalCountsRight' /\ SignalSaved'
  <2>1. \A c \in Base : SignalCounted(c)' = SignalCounted(c)
    BY <1>3, <1>4 DEF SignalCounted
  <2>2. SignalCallsOK'
    BY <1>1, <1>3, SignalFacts DEF SignalIInv, SignalBasesInv, SignalCallsOK
  <2>3. SignalCountsRight'
    BY <1>1, <2>1 DEF SignalIInv, SignalBasesInv, SignalCountsRight
  <2>4. SignalSaved'
    BY <1>1, <1>3, <1>4 DEF SignalIInv, SignalBasesInv, SignalSaved
  <2> QED
    BY <2>2, <2>3, <2>4
<1>6. SignalOneBase'
  <2> SUFFICES ASSUME NEW c \in Base, n_signals_added[c] > 0 \/ busy[c] # Signals!Idle
               PROVE  /\ evsig_base' = c /\ evsig_base_fd' = c
                      /\ evsig_base_n_signals_added' = n_signals_added[c]
    BY <1>1 DEF SignalOneBase
  <2>1. evsig_base = c /\ evsig_base_fd = c /\ evsig_base_n_signals_added = n_signals_added[c]
    BY DEF SignalIInv, SignalBasesInv, SignalOneBase
  <2>2. c # b
    BY <1>1, <1>2
  <2> QED
    BY <1>1, <2>1, <2>2 DEF Signals!globals
<1>7. Signals!NoSignals \in [Signal -> 0 .. MaxCaught]
  BY SignalFacts DEF Signals!NoSignals, SignalIInv
<1>8. SignalTypes'
  <2>1. /\ {evsig_base', evsig_base_fd'} \subseteq Base \cup {NoBase}
        /\ evsig_base_n_signals_added' \in Nat
    BY <1>1, SignalFacts DEF SignalIInv, Signals!globals
  <2> QED
    BY <1>1, <1>7, <2>1, SignalFacts DEF SignalIInv, SignalTypes, Signals!TypeOK
<1>9. SignalRoom'
  <2> SUFFICES ASSUME NEW c \in Base, NEW r \in Signal
               PROVE  (socket[c][r] + Signals!UnderWay(r) <= MaxCaught)'
    BY DEF SignalRoom
  <2>1. /\ socket[c][r] \in Nat /\ Signals!UnderWay(r) \in Nat /\ MaxCaught \in Nat
        /\ socket[c][r] + Signals!UnderWay(r) <= MaxCaught
    BY SignalFacts, SignalCountTypes DEF SignalIInv, SignalRoom
  <2>2. socket'[c][r] = socket[c][r] \/ socket'[c][r] = 0
    BY <1>1, SignalFacts DEF SignalIInv, Signals!NoSignals
  <2>3. Signals!UnderWay(r)' = Signals!UnderWay(r)
    BY <1>1 DEF Signals!UnderWay
  <2> QED
    BY <2>1, <2>2, <2>3
<1>10. SignalInstalled'
  BY <1>1, <1>3 DEF SignalIInv, SignalInstalled
<1> QED
  BY <1>5, <1>6, <1>8, <1>9, <1>10 DEF SignalIInv, SignalBasesInv

LEMMA SignalAddInv ==
  ASSUME SignalIInv, OneAtATime, NEW ev \in SignalEvent, Signals!evsig_add(ev)
  PROVE  SignalIInv'
<1> DEFINE b == BaseOf[ev]
           s == SignalOf[ev]
<1>1. /\ b \in Base /\ s \in Signal
      /\ busy[b] = Signals!Idle /\ Signals!OfSignal(b, s) = {}
      /\ \A c \in Base \ {b} : n_signals_added[c] = 0 /\ busy[c] = Signals!Idle
      /\ n_signals_added' = [n_signals_added EXCEPT ![b] = @ + 1]
      /\ evsig_base' = b /\ evsig_base_fd' = b /\ evsig_base_n_signals_added' = n_signals_added'[b]
      /\ busy' = [busy EXCEPT ![b] = <<"add", ev>>]
      /\ UNCHANGED <<handler, signal_events, ev_signal_added, sh_old, socket, ncaught,
           signal_active, signal_at>>
  BY SignalFacts DEF Signals!evsig_add, Signals!MayAdd, Signals!TakeOver, SignalIInv
<1> HIDE DEF b, s
<1>2. s = SignalOf[ev] /\ b = BaseOf[ev]
  BY DEF s, b
<1>3. busy'[b] = <<"add", ev>> /\ n_signals_added'[b] = n_signals_added[b] + 1
  BY <1>1, SignalFacts DEF SignalIInv
<1>4. \A c \in Base \ {b} : /\ busy'[c] = busy[c] /\ n_signals_added'[c] = n_signals_added[c]
                            /\ SignalCounted(c)' = SignalCounted(c)
  BY <1>1, SignalOtherBases, SignalFacts DEF SignalIInv
<1>5. \A c \in Base, r \in Signal : Signals!OfSignal(c, r)' = Signals!OfSignal(c, r)
  BY <1>1 DEF Signals!OfSignal
<1>6. \A r \in Signal :
        /\ ~SignalInCall(b, "add", r) /\ ~SignalInCall(b, "del", r) /\ ~SignalInCall(b, "del", r)'
        /\ SignalInCall(b, "add", r)' <=> r = s
  BY <1>1, <1>2, <1>3, SignalCallFacts, SignalFacts DEF SignalInCall, SignalIInv
<1>7. SignalCounted(b)' = SignalCounted(b) \cup {s} /\ s \notin SignalCounted(b)
  BY <1>1, <1>5, <1>6 DEF SignalCounted
<1>8. /\ Cardinality(SignalCounted(b)') = Cardinality(SignalCounted(b)) + 1
      /\ Cardinality(SignalCounted(b)') \in 0 .. Cardinality(Signal)
  <2>1. IsFiniteSet(SignalCounted(b)) /\ SignalCounted(b) \subseteq Signal
    BY <1>1, SignalCountTypes DEF SignalIInv
  <2>2. SignalCounted(b)' \subseteq Signal
    BY <1>1, <1>7, <2>1
  <2>3. /\ Cardinality(SignalCounted(b)') <= Cardinality(Signal)
        /\ Cardinality(SignalCounted(b)') \in Nat
        /\ Cardinality(Signal) \in Nat
    BY <2>2, SignalFacts, FS_Subset, FS_CardinalityType DEF SignalIInv
  <2>4. Cardinality(SignalCounted(b) \cup {s}) = Cardinality(SignalCounted(b)) + 1
    BY <1>7, <2>1, FS_AddElement
  <2> QED
    BY <1>7, <2>3, <2>4
<1>9. n_signals_added[b] = Cardinality(SignalCounted(b))
  BY <1>1 DEF SignalIInv, SignalBasesInv, SignalCountsRight
<1>10. SignalCountsRight'
  <2> SUFFICES ASSUME NEW c \in Base
               PROVE  n_signals_added'[c] = Cardinality(SignalCounted(c)')
    BY DEF SignalCountsRight
  <2> QED
    BY <1>3, <1>4, <1>8, <1>9 DEF SignalIInv, SignalBasesInv, SignalCountsRight
<1>11. SignalCallsOK'
  <2> SUFFICES ASSUME NEW c \in Base, NEW call \in {"add", "del"}, NEW e \in SignalEvent,
                      busy'[c] = <<call, e>>
               PROVE  BaseOf[e] = c /\ Signals!OfSignal(c, SignalOf[e])' = {}
    BY DEF SignalCallsOK
  <2>1. CASE c = b
    <3>1. e = ev
      BY <1>3, <2>1
    <3> QED
      BY <1>1, <1>2, <1>5, <2>1, <3>1
  <2>2. CASE c # b
    <3>1. busy[c] = <<call, e>> /\ SignalOf[e] \in Signal
      BY <1>4, <2>2, SignalFacts DEF SignalIInv
    <3>2. BaseOf[e] = c /\ Signals!OfSignal(c, SignalOf[e]) = {}
      BY <3>1 DEF SignalIInv, SignalBasesInv, SignalCallsOK
    <3> QED
      BY <1>5, <3>1, <3>2
  <2> QED
    BY <2>1, <2>2
<1>12. SignalSaved'
  <2> SUFFICES ASSUME NEW c \in Base, NEW r \in Signal
               PROVE  (sh_old[c][r] # "none" <=>
                         Signals!OfSignal(c, r) # {} \/ SignalInCall(c, "del", r))'
    BY DEF SignalSaved
  <2>1. SignalInCall(c, "del", r)' <=> SignalInCall(c, "del", r)
    BY <1>4, <1>6 DEF SignalInCall
  <2> QED
    BY <1>1, <1>5, <2>1 DEF SignalIInv, SignalBasesInv, SignalSaved
<1>13. SignalOneBase'
  <2> SUFFICES ASSUME NEW c \in Base, n_signals_added'[c] > 0 \/ busy'[c] # Signals!Idle
               PROVE  /\ evsig_base' = c /\ evsig_base_fd' = c
                      /\ evsig_base_n_signals_added' = n_signals_added'[c]
    BY DEF SignalOneBase, Signals!Idle
  <2>1. c = b
    BY <1>1, <1>4
  <2> QED
    BY <1>1, <2>1
<1>14. SignalTypes'
  <2>1. \A c \in Base : n_signals_added'[c] \in 0 .. Cardinality(Signal)
    <3>1. ASSUME NEW c \in Base
          PROVE  n_signals_added'[c] \in 0 .. Cardinality(Signal)
      <4>1. CASE c = b
        BY <1>3, <1>8, <1>9, <4>1
      <4>2. CASE c # b
        BY <1>4, <4>2, SignalCardinality DEF SignalIInv, SignalTypes, Signals!TypeOK
      <4> QED
        BY <4>1, <4>2
    <3> QED
      BY <3>1
  <2>2. n_signals_added' \in [Base -> 0 .. Cardinality(Signal)]
    BY <1>1, <2>1, SignalFacts DEF SignalIInv
  <2>3. /\ evsig_base_n_signals_added' \in Nat
        /\ {evsig_base', evsig_base_fd'} \subseteq Base \cup {NoBase}
    BY <1>1, <1>3, SignalFacts DEF SignalIInv
  <2>4. busy' \in [Base -> SignalCalls]
    BY <1>1, SignalPairs, SignalFacts DEF SignalIInv
  <2> QED
    BY <1>1, <2>2, <2>3, <2>4, SignalFacts, SignalCardinality DEF SignalIInv, SignalTypes,
       Signals!TypeOK
<1>15. SignalRoom' /\ SignalInstalled'
  BY <1>1, <1>5, SignalSameHandling
<1> QED
  BY <1>10, <1>11, <1>12, <1>13, <1>14, <1>15 DEF SignalIInv, SignalBasesInv

LEMMA SignalSetHandlerInv ==
  ASSUME SignalIInv, NEW ev \in SignalEvent, Signals!evsig_set_handler_(ev)
  PROVE  SignalIInv'
<1> DEFINE b == BaseOf[ev]
           s == SignalOf[ev]
<1>1. /\ b \in Base /\ s \in Signal
      /\ busy[b] = <<"add", ev>> /\ Signals!OfSignal(b, s) = {}
      /\ sh_old' = [sh_old EXCEPT ![b][s] = handler[s]]
      /\ handler' = [handler EXCEPT ![s] = "evsig"]
      /\ ev_signal_added' = ev_signal_added \cup {b}
      /\ signal_events' = signal_events \cup {ev}
      /\ busy' = [busy EXCEPT ![b] = Signals!Idle]
      /\ UNCHANGED <<Signals!globals, n_signals_added, socket, ncaught, signal_active, signal_at>>
  BY SignalFacts DEF Signals!evsig_set_handler_, SignalIInv, SignalBasesInv, SignalCallsOK
<1> HIDE DEF b, s
<1>2. s = SignalOf[ev] /\ b = BaseOf[ev]
  BY DEF s, b
<1>3. busy'[b] = Signals!Idle
  BY <1>1, SignalFacts DEF SignalIInv
<1>4. \A c \in Base \ {b} :
        /\ busy'[c] = busy[c] /\ SignalCounted(c)' = SignalCounted(c)
        /\ \A r \in Signal : /\ Signals!OfSignal(c, r)' = Signals!OfSignal(c, r)
                             /\ SignalInCall(c, "del", r)' <=> SignalInCall(c, "del", r)
  <2>1. busy' = [busy EXCEPT ![b] = busy'[b]] /\ signal_events' \subseteq SignalEvent
    BY <1>1, <1>3, SignalFacts DEF SignalIInv
  <2>2. \A e \in SignalEvent : BaseOf[e] # b => (e \in signal_events' <=> e \in signal_events)
    BY <1>1, <1>2
  <2> QED
    BY <1>1, <2>1, <2>2, SignalOtherBases
<1>5. /\ Signals!OfSignal(b, s)' = {ev}
      /\ \A r \in Signal \ {s} : Signals!OfSignal(b, r)' = Signals!OfSignal(b, r)
  BY <1>1, <1>2 DEF Signals!OfSignal
<1>6. \A r \in Signal :
        /\ ~SignalInCall(b, "add", r)' /\ ~SignalInCall(b, "del", r) /\ ~SignalInCall(b, "del", r)'
        /\ SignalInCall(b, "add", r) <=> r = s
  BY <1>1, <1>2, <1>3, SignalCallFacts, SignalFacts DEF SignalInCall, SignalIInv
<1>7. SignalCounted(b)' = SignalCounted(b)
  BY <1>1, <1>5, <1>6 DEF SignalCounted
<1>8. SignalCountsRight'
  BY <1>1, <1>4, <1>7 DEF SignalIInv, SignalBasesInv, SignalCountsRight
<1>9. SignalCallsOK'
  <2> SUFFICES ASSUME NEW c \in Base, NEW call \in {"add", "del"}, NEW e \in SignalEvent,
                      busy'[c] = <<call, e>>
               PROVE  BaseOf[e] = c /\ Signals!OfSignal(c, SignalOf[e])' = {}
    BY DEF SignalCallsOK
  <2>1. c # b /\ busy[c] = <<call, e>> /\ SignalOf[e] \in Signal
    BY <1>3, <1>4, SignalPairs, SignalFacts DEF SignalIInv
  <2>2. BaseOf[e] = c /\ Signals!OfSignal(c, SignalOf[e]) = {}
    BY <2>1 DEF SignalIInv, SignalBasesInv, SignalCallsOK
  <2> QED
    BY <1>4, <2>1, <2>2
<1>10. SignalSaved'
  <2> SUFFICES ASSUME NEW c \in Base, NEW r \in Signal
               PROVE  (sh_old[c][r] # "none" <=>
                         Signals!OfSignal(c, r) # {} \/ SignalInCall(c, "del", r))'
    BY DEF SignalSaved
  <2>1. CASE c = b /\ r = s
    <3>1. sh_old'[c][r] = handler[s] /\ handler[s] # "none"
      BY <1>1, <2>1, SignalFacts DEF SignalIInv
    <3> QED
      BY <1>5, <2>1, <3>1
  <2>2. CASE ~(c = b /\ r = s)
    <3>1. sh_old'[c][r] = sh_old[c][r]
      BY <1>1, <2>2, SignalFacts DEF SignalIInv
    <3>2. /\ Signals!OfSignal(c, r)' = Signals!OfSignal(c, r)
          /\ (SignalInCall(c, "del", r)' <=> SignalInCall(c, "del", r))
      BY <1>4, <1>5, <1>6, <2>2
    <3> QED
      BY <3>1, <3>2 DEF SignalIInv, SignalBasesInv, SignalSaved
  <2> QED
    BY <2>1, <2>2
<1>11. SignalOneBase'
  <2>1. busy[b] # Signals!Idle
    BY <1>1, SignalPairs
  <2> QED
    BY <1>1, <1>3, <1>4, <2>1 DEF SignalIInv, SignalBasesInv, SignalOneBase, Signals!globals
<1>12. SignalTypes'
  <2>1. handler[s] \in {"none", "default", "evsig"}
    BY <1>1, SignalFacts DEF SignalIInv
  <2>2. sh_old' \in [Base -> [Signal -> {"none", "default", "evsig"}]]
    BY <1>1, <2>1, SignalFacts DEF SignalIInv
  <2>3. /\ busy' \in [Base -> SignalCalls] /\ handler' \in [Signal -> {"default", "evsig"}]
        /\ signal_active' \subseteq signal_events' /\ signal_events' \subseteq SignalEvent
        /\ ev_signal_added' \subseteq Base
    BY <1>1, SignalPairs, SignalFacts DEF SignalIInv
  <2> QED
    BY <1>1, <2>2, <2>3, SignalFacts DEF SignalIInv, SignalTypes, Signals!TypeOK, Signals!globals
<1>13. SignalRoom'
  BY <1>1 DEF SignalIInv, SignalRoom, Signals!UnderWay
<1>14. SignalInstalled'
  <2> SUFFICES ASSUME NEW c \in Base, NEW r \in Signal, Signals!OfSignal(c, r)' # {}
               PROVE  \/ handler'[r] = "evsig"
                      \/ \E k \in Handler :
                           signal_at'[k] = <<"check", r>> \/ signal_at'[k] = <<"reinstall", r>>
    BY DEF SignalInstalled
  <2>1. CASE r = s
    BY <1>1, <2>1, SignalFacts DEF SignalIInv
  <2>2. CASE r # s
    <3>1. handler'[r] = handler[r] /\ signal_at' = signal_at
      BY <1>1, <2>2, SignalFacts DEF SignalIInv
    <3>2. Signals!OfSignal(c, r) # {}
      BY <1>4, <1>5, <2>2
    <3> QED
      BY <3>1, <3>2 DEF SignalIInv, SignalInstalled
  <2> QED
    BY <2>1, <2>2
<1> QED
  BY <1>8, <1>9, <1>10, <1>11, <1>12, <1>13, <1>14 DEF SignalIInv, SignalBasesInv

LEMMA SignalDelInv ==
  ASSUME SignalIInv, NEW ev \in SignalEvent, Signals!evsig_del(ev)
  PROVE  SignalIInv'
<1> DEFINE b == BaseOf[ev]
           s == SignalOf[ev]
<1>1. /\ b \in Base /\ s \in Signal
      /\ busy[b] = Signals!Idle /\ Signals!OfSignal(b, s) = {ev} /\ ev \in signal_events
      /\ signal_events' = signal_events \ {ev} /\ signal_active' = signal_active \ {ev}
      /\ evsig_base_n_signals_added' = evsig_base_n_signals_added - 1
      /\ n_signals_added' = [n_signals_added EXCEPT ![b] = @ - 1]
      /\ busy' = [busy EXCEPT ![b] = <<"del", ev>>]
      /\ UNCHANGED <<evsig_base, evsig_base_fd, handler, ev_signal_added, sh_old, socket, ncaught,
           signal_at>>
  BY SignalFacts DEF Signals!evsig_del, SignalIInv
<1> HIDE DEF b, s
<1>2. s = SignalOf[ev] /\ b = BaseOf[ev]
  BY DEF s, b
<1>3. busy'[b] = <<"del", ev>> /\ n_signals_added'[b] = n_signals_added[b] - 1
  BY <1>1, SignalFacts DEF SignalIInv
<1>4. \A c \in Base \ {b} :
        /\ busy'[c] = busy[c] /\ SignalCounted(c)' = SignalCounted(c)
        /\ n_signals_added'[c] = n_signals_added[c]
        /\ \A r \in Signal : /\ Signals!OfSignal(c, r)' = Signals!OfSignal(c, r)
                             /\ SignalInCall(c, "del", r)' <=> SignalInCall(c, "del", r)
  <2>1. busy' = [busy EXCEPT ![b] = busy'[b]] /\ signal_events' \subseteq SignalEvent
    BY <1>1, <1>3, SignalFacts DEF SignalIInv
  <2>2. \A e \in SignalEvent : BaseOf[e] # b => (e \in signal_events' <=> e \in signal_events)
    BY <1>1, <1>2
  <2>3. \A c \in Base \ {b} : n_signals_added'[c] = n_signals_added[c]
    BY <1>1, SignalFacts DEF SignalIInv
  <2> QED
    BY <1>1, <2>1, <2>2, <2>3, SignalOtherBases
<1>5. /\ Signals!OfSignal(b, s)' = {}
      /\ \A r \in Signal \ {s} : Signals!OfSignal(b, r)' = Signals!OfSignal(b, r)
  <2>1. \A r \in Signal : Signals!OfSignal(b, r)' = Signals!OfSignal(b, r) \ {ev}
    BY <1>1 DEF Signals!OfSignal
  <2>2. \A r \in Signal \ {s} : ev \notin Signals!OfSignal(b, r)
    BY <1>2 DEF Signals!OfSignal
  <2>3. Signals!OfSignal(b, s)' = {}
    BY <1>1, <2>1
  <2>4. ASSUME NEW r \in Signal \ {s}
        PROVE  Signals!OfSignal(b, r)' = Signals!OfSignal(b, r)
    <3>1. /\ Signals!OfSignal(b, r)' = Signals!OfSignal(b, r) \ {ev}
          /\ ev \notin Signals!OfSignal(b, r)
      BY <2>1, <2>2
    <3> QED
      BY <3>1
  <2> QED
    BY <2>3, <2>4
<1>6. \A r \in Signal :
        /\ ~SignalInCall(b, "add", r)' /\ ~SignalInCall(b, "add", r) /\ ~SignalInCall(b, "del", r)
        /\ SignalInCall(b, "del", r)' <=> r = s
  BY <1>1, <1>2, <1>3, SignalCallFacts, SignalFacts DEF SignalInCall, SignalIInv
<1>7. SignalCounted(b)' = SignalCounted(b) \ {s} /\ s \in SignalCounted(b)
  BY <1>1, <1>5, <1>6 DEF SignalCounted
<1>8. Cardinality(SignalCounted(b)') = Cardinality(SignalCounted(b)) - 1
  BY <1>1, <1>7, SignalCountTypes, FS_RemoveElement DEF SignalIInv
<1>9. /\ n_signals_added[b] > 0 /\ evsig_base = b /\ evsig_base_fd = b
      /\ evsig_base_n_signals_added = n_signals_added[b]
      /\ n_signals_added[b] = Cardinality(SignalCounted(b))
  BY <1>1, SignalInformed DEF SignalIInv, SignalBasesInv, SignalCountsRight
<1>10. SignalCountsRight'
  <2> SUFFICES ASSUME NEW c \in Base
               PROVE  n_signals_added'[c] = Cardinality(SignalCounted(c)')
    BY DEF SignalCountsRight
  <2> QED
    BY <1>3, <1>4, <1>8, <1>9 DEF SignalIInv, SignalBasesInv, SignalCountsRight
<1>11. SignalCallsOK'
  <2> SUFFICES ASSUME NEW c \in Base, NEW call \in {"add", "del"}, NEW e \in SignalEvent,
                      busy'[c] = <<call, e>>
               PROVE  BaseOf[e] = c /\ Signals!OfSignal(c, SignalOf[e])' = {}
    BY DEF SignalCallsOK
  <2>1. CASE c = b
    <3>1. e = ev
      BY <1>3, <2>1
    <3> QED
      BY <1>1, <1>2, <1>5, <2>1, <3>1
  <2>2. CASE c # b
    <3>1. busy[c] = <<call, e>> /\ SignalOf[e] \in Signal
      BY <1>4, <2>2, SignalFacts DEF SignalIInv
    <3>2. BaseOf[e] = c /\ Signals!OfSignal(c, SignalOf[e]) = {}
      BY <3>1 DEF SignalIInv, SignalBasesInv, SignalCallsOK
    <3> QED
      BY <1>4, <2>2, <3>1, <3>2
  <2> QED
    BY <2>1, <2>2
<1>12. SignalSaved'
  <2> SUFFICES ASSUME NEW c \in Base, NEW r \in Signal
               PROVE  (sh_old[c][r] # "none" <=>
                         Signals!OfSignal(c, r) # {} \/ SignalInCall(c, "del", r))'
    BY DEF SignalSaved
  <2>1. /\ sh_old' = sh_old
        /\ (sh_old[c][r] # "none" <=> Signals!OfSignal(c, r) # {} \/ SignalInCall(c, "del", r))
    BY <1>1 DEF SignalIInv, SignalBasesInv, SignalSaved
  <2>2. CASE c = b /\ r = s
    BY <1>1, <1>6, <2>1, <2>2
  <2>3. CASE c = b /\ r # s
    BY <1>5, <1>6, <2>1, <2>3
  <2>4. CASE c # b
    BY <1>4, <2>1, <2>4
  <2> QED
    BY <2>2, <2>3, <2>4
<1>13. SignalOneBase'
  <2> SUFFICES ASSUME NEW c \in Base, n_signals_added'[c] > 0 \/ busy'[c] # Signals!Idle
               PROVE  /\ evsig_base' = c /\ evsig_base_fd' = c
                      /\ evsig_base_n_signals_added' = n_signals_added'[c]
    BY DEF SignalOneBase, Signals!Idle
  <2>1. c = b
    BY <1>4, <1>9 DEF SignalIInv, SignalBasesInv, SignalOneBase
  <2> QED
    BY <1>1, <1>3, <1>9, <2>1
<1>14. SignalTypes'
  <2>1. \A c \in Base :
          n_signals_added[c] \in 0 .. Cardinality(Signal) /\ Cardinality(Signal) \in Nat
    BY SignalFacts, SignalCardinality DEF SignalIInv, SignalTypes, Signals!TypeOK
  <2>2. n_signals_added[b] - 1 \in 0 .. Cardinality(Signal)
    BY <1>1, <1>9, <2>1
  <2>3. n_signals_added \in [Base -> 0 .. Cardinality(Signal)]
    BY SignalCardinality DEF SignalIInv, SignalTypes, Signals!TypeOK
  <2>4. n_signals_added' \in [Base -> 0 .. Cardinality(Signal)]
    BY <1>1, <2>2, <2>3
  <2>5. evsig_base_n_signals_added' \in Nat
    BY <1>1, <1>9, <2>1
  <2>6. /\ busy' \in [Base -> SignalCalls] /\ signal_events' \subseteq SignalEvent
        /\ signal_active' \subseteq signal_events'
    BY <1>1, SignalPairs, SignalFacts DEF SignalIInv
  <2> QED
    BY <1>1, <2>4, <2>5, <2>6, SignalFacts, SignalCardinality DEF SignalIInv, SignalTypes,
       Signals!TypeOK
<1>15. SignalRoom' /\ SignalInstalled'
  <2>1. \A c \in Base, r \in Signal : Signals!OfSignal(c, r)' # {} => Signals!OfSignal(c, r) # {}
    BY <1>4, <1>5
  <2> QED
    BY <1>1, <2>1, SignalSameHandling
<1> QED
  BY <1>10, <1>11, <1>12, <1>13, <1>14, <1>15 DEF SignalIInv, SignalBasesInv

LEMMA SignalRestoreInv ==
  ASSUME SignalIInv, NEW ev \in SignalEvent, Signals!evsig_restore_handler_(ev)
  PROVE  SignalIInv'
<1> DEFINE b == BaseOf[ev]
           s == SignalOf[ev]
<1>1. /\ b \in Base /\ s \in Signal
      /\ busy[b] = <<"del", ev>> /\ Signals!OfSignal(b, s) = {}
      /\ handler' = [handler EXCEPT ![s] = sh_old[b][s]]
      /\ sh_old' = [sh_old EXCEPT ![b][s] = "none"]
      /\ busy' = [busy EXCEPT ![b] = Signals!Idle]
      /\ UNCHANGED <<Signals!globals, signal_events, n_signals_added, ev_signal_added, socket,
           ncaught, signal_active, signal_at>>
  BY SignalFacts DEF Signals!evsig_restore_handler_, SignalIInv, SignalBasesInv, SignalCallsOK
<1> HIDE DEF b, s
<1>2. s = SignalOf[ev] /\ b = BaseOf[ev]
  BY DEF s, b
<1>3. busy'[b] = Signals!Idle
  BY <1>1, SignalFacts DEF SignalIInv
<1>4. \A c \in Base \ {b} :
        /\ busy'[c] = busy[c] /\ SignalCounted(c)' = SignalCounted(c)
        /\ \A r \in Signal : SignalInCall(c, "del", r)' <=> SignalInCall(c, "del", r)
  <2>1. /\ busy' = [busy EXCEPT ![b] = busy'[b]] /\ signal_events' = signal_events
        /\ signal_events \subseteq SignalEvent
    BY <1>1, <1>3, SignalFacts DEF SignalIInv
  <2> QED
    BY <1>1, <2>1, SignalOtherBases
<1>5. \A c \in Base, r \in Signal : Signals!OfSignal(c, r)' = Signals!OfSignal(c, r)
  BY <1>1 DEF Signals!OfSignal
<1>6. \A r \in Signal :
        /\ ~SignalInCall(b, "add", r)' /\ ~SignalInCall(b, "add", r) /\ ~SignalInCall(b, "del", r)'
        /\ SignalInCall(b, "del", r) <=> r = s
  BY <1>1, <1>2, <1>3, SignalCallFacts, SignalFacts DEF SignalInCall, SignalIInv
<1>7. SignalCounted(b)' = SignalCounted(b)
  BY <1>1, <1>5, <1>6 DEF SignalCounted
<1>8. SignalCountsRight'
  BY <1>1, <1>4, <1>7 DEF SignalIInv, SignalBasesInv, SignalCountsRight
<1>9. SignalCallsOK'
  <2> SUFFICES ASSUME NEW c \in Base, NEW call \in {"add", "del"}, NEW e \in SignalEvent,
                      busy'[c] = <<call, e>>
               PROVE  BaseOf[e] = c /\ Signals!OfSignal(c, SignalOf[e])' = {}
    BY DEF SignalCallsOK
  <2>1. c # b /\ busy[c] = <<call, e>> /\ SignalOf[e] \in Signal
    BY <1>3, <1>4, SignalPairs, SignalFacts DEF SignalIInv
  <2>2. BaseOf[e] = c /\ Signals!OfSignal(c, SignalOf[e]) = {}
    BY <2>1 DEF SignalIInv, SignalBasesInv, SignalCallsOK
  <2> QED
    BY <1>5, <2>1, <2>2
<1>10. SignalSaved'
  <2> SUFFICES ASSUME NEW c \in Base, NEW r \in Signal
               PROVE  (sh_old[c][r] # "none" <=>
                         Signals!OfSignal(c, r) # {} \/ SignalInCall(c, "del", r))'
    BY DEF SignalSaved
  <2>1. CASE c = b /\ r = s
    <3>1. sh_old'[c][r] = "none"
      BY <1>1, <2>1, SignalFacts DEF SignalIInv
    <3> QED
      BY <1>1, <1>5, <1>6, <2>1, <3>1
  <2>2. CASE ~(c = b /\ r = s)
    <3>1. sh_old'[c][r] = sh_old[c][r]
      BY <1>1, <2>2, SignalFacts DEF SignalIInv
    <3>2. SignalInCall(c, "del", r)' <=> SignalInCall(c, "del", r)
      BY <1>4, <1>6, <2>2
    <3> QED
      BY <1>5, <3>1, <3>2 DEF SignalIInv, SignalBasesInv, SignalSaved
  <2> QED
    BY <2>1, <2>2
<1>11. busy[b] # Signals!Idle /\ evsig_base = b
  BY <1>1, SignalPairs DEF SignalIInv, SignalBasesInv, SignalOneBase
<1>12. SignalOneBase'
  BY <1>1, <1>3, <1>4, <1>11 DEF SignalIInv, SignalBasesInv, SignalOneBase, Signals!globals
<1>13. SignalTypes'
  <2>1. sh_old[b][s] \in {"default", "evsig"}
    BY <1>1, <1>6, SignalFacts DEF SignalIInv, SignalBasesInv, SignalSaved
  <2>2. sh_old' \in [Base -> [Signal -> {"none", "default", "evsig"}]]
    BY <1>1, SignalFacts DEF SignalIInv
  <2>3. busy' \in [Base -> SignalCalls] /\ handler' \in [Signal -> {"default", "evsig"}]
    BY <1>1, <2>1, SignalPairs, SignalFacts DEF SignalIInv
  <2> QED
    BY <1>1, <2>2, <2>3, SignalFacts DEF SignalIInv, SignalTypes, Signals!TypeOK, Signals!globals
<1>14. SignalRoom'
  BY <1>1 DEF SignalIInv, SignalRoom, Signals!UnderWay
<1>15. SignalInstalled'
  <2> SUFFICES ASSUME NEW c \in Base, NEW r \in Signal, Signals!OfSignal(c, r)' # {}
               PROVE  \/ handler'[r] = "evsig"
                      \/ \E k \in Handler :
                           signal_at'[k] = <<"check", r>> \/ signal_at'[k] = <<"reinstall", r>>
    BY DEF SignalInstalled
  <2>1. Signals!OfSignal(c, r) # {} /\ c = b
    BY <1>5, <1>11, SignalInformed
  <2>2. r # s
    BY <1>1, <2>1
  <2>3. handler'[r] = handler[r] /\ signal_at' = signal_at
    BY <1>1, <2>2, SignalFacts DEF SignalIInv
  <2> QED
    BY <2>1, <2>3 DEF SignalIInv, SignalInstalled
<1> QED
  BY <1>8, <1>9, <1>10, <1>12, <1>13, <1>14, <1>15 DEF SignalIInv, SignalBasesInv

-----------------------------------------------------------------------------

LEMMA SignalInitInv == Signals!Init => SignalIInv
<1> SUFFICES ASSUME Signals!Init
             PROVE  SignalIInv
  OBVIOUS
<1>1. /\ BaseOf \in [SignalEvent -> Base] /\ SignalOf \in [SignalEvent -> Signal]
      /\ NoBase \notin Base /\ NoBase \notin Signal /\ MaxCaught \in Nat \ {0}
      /\ IsFiniteSet(Signal) /\ IsFiniteSet(Handler) /\ Cardinality(Signal) \in Nat
  BY PlatformAssumption, FS_CardinalityType, SignalCardinality DEF PlatformAssumption,
     Signals!EvSignalAssumption
<1>2. SignalTypes
  <2>1. Signals!NoSignals \in [Signal -> 0 .. MaxCaught]
    BY <1>1 DEF Signals!NoSignals
  <2>2. /\ n_signals_added \in [Base -> 0 .. Cardinality(Signal)]
        /\ socket \in [Base -> [Signal -> 0 .. MaxCaught]]
        /\ ncaught \in [Base -> [Signal -> 0 .. MaxCaught]]
    BY <1>1, <2>1 DEF Signals!Init
  <2>3. busy \in [Base -> SignalCalls] /\ signal_at \in [Handler -> SignalPlaces]
    BY SignalPairs DEF Signals!Init
  <2>4. /\ {evsig_base, evsig_base_fd} \subseteq Base \cup {NoBase}
        /\ evsig_base_n_signals_added \in Nat
        /\ handler \in [Signal -> {"default", "evsig"}]
        /\ signal_events \subseteq SignalEvent /\ signal_active \subseteq signal_events
        /\ ev_signal_added \subseteq Base
        /\ sh_old \in [Base -> [Signal -> {"none", "default", "evsig"}]]
    BY DEF Signals!Init
  <2> QED
    BY <2>2, <2>3, <2>4, SignalCardinality DEF SignalTypes, Signals!TypeOK
<1>3. \A b \in Base, s \in Signal :
        /\ Signals!OfSignal(b, s) = {} /\ ~SignalInCall(b, "add", s) /\ ~SignalInCall(b, "del", s)
        /\ sh_old[b][s] = "none"
  BY <1>1, SignalCallFacts DEF Signals!Init, Signals!OfSignal, SignalInCall
<1>4. SignalCountsRight
  <2>1. \A b \in Base : SignalCounted(b) = {}
    BY <1>3 DEF SignalCounted
  <2> QED
    BY <2>1, FS_EmptySet DEF SignalCountsRight, Signals!Init
<1>5. SignalCallsOK
  BY SignalPairs DEF Signals!Init, SignalCallsOK
<1>6. SignalSaved
  BY <1>3 DEF SignalSaved
<1>7. SignalOneBase
  BY DEF SignalOneBase, Signals!Init
<1>8. SignalInstalled
  BY <1>3 DEF SignalInstalled
<1>9. SignalRoom
  <2>1. \A s \in Signal : Signals!UnderWay(s) = 0
    <3> SUFFICES ASSUME NEW s \in Signal
                 PROVE  Signals!UnderWay(s) = 0
      OBVIOUS
    <3>1. { h \in Handler : signal_at[h][2] = s } = {}
      BY <1>1, SignalPairs DEF Signals!Init
    <3> QED
      BY <3>1, FS_EmptySet, SignalCardinality DEF Signals!UnderWay
  <2>2. \A b \in Base, s \in Signal : socket[b][s] = 0
    BY DEF Signals!Init, Signals!NoSignals
  <2> QED
    BY <1>1, <2>1, <2>2 DEF SignalRoom
<1> QED
  BY <1>2, <1>4, <1>5, <1>6, <1>7, <1>8, <1>9 DEF SignalIInv, SignalBasesInv

LEMMA SignalNextInv ==
  ASSUME SignalIInv, OneAtATime, [Signals!Next]_(Signals!vars)
  PROVE  SignalIInv'
<1>1. ASSUME NEW ev \in SignalEvent,
             \/ Signals!evmap_signal_add_(ev) \/ Signals!evsig_add(ev)
             \/ Signals!evmap_signal_del_(ev)
             \/ Signals!evsig_del(ev) \/ Signals!GoOn(ev) \/ Signals!RunEvent(ev)
      PROVE  SignalIInv'
  BY <1>1, SignalListAddInv, SignalAddInv, SignalListDelInv, SignalDelInv, SignalSetHandlerInv,
     SignalRestoreInv, SignalRunInv DEF Signals!GoOn
<1>2. ASSUME NEW b \in Base,
             Signals!evsig_set_base_(b) \/ Signals!evsig_dealloc_(b) \/ Signals!CbStep(b)
      PROVE  SignalIInv'
  BY <1>2, SignalSetBaseInv, SignalDeallocInv, SignalReadsInv, SignalActivatesInv DEF Signals!CbStep
<1>3. ASSUME NEW h \in Handler, Signals!HandlerStep(h) \/ \E s \in Signal : Signals!Deliver(h, s)
      PROVE  SignalIInv'
  BY <1>3, SignalChecksInv, SignalReinstallsInv, SignalSendsInv, SignalDeliverInv
     DEF Signals!HandlerStep
<1>4. CASE UNCHANGED Signals!vars
  <2>1. SignalBasesInv'
    BY <1>4, SignalSameEvents DEF Signals!vars, Signals!perBase
  <2>2. SignalTypes' /\ SignalInstalled' /\ SignalRoom'
    BY <1>4 DEF Signals!vars, Signals!globals, Signals!perBase, SignalIInv, SignalTypes,
       Signals!TypeOK, SignalInstalled, SignalRoom, Signals!OfSignal, Signals!UnderWay
  <2> QED
    BY <2>1, <2>2 DEF SignalIInv
<1> QED
  BY <1>1, <1>2, <1>3, <1>4 DEF Signals!Next

LEMMA SignalImplied == SignalIInv => Signals!SignalHandlingOK
<1> SUFFICES ASSUME SignalIInv
             PROVE  Signals!SignalHandlingOK
  OBVIOUS
<1>1. Signals!SavedHandlers
  <2> SUFFICES ASSUME NEW b \in Base, busy[b] = Signals!Idle, NEW s \in Signal
               PROVE  Signals!OfSignal(b, s) # {} <=> sh_old[b][s] # "none"
    BY DEF Signals!SavedHandlers
  <2>1. ~SignalInCall(b, "del", s)
    BY SignalCallFacts, SignalFacts DEF SignalInCall, SignalIInv
  <2> QED
    BY <2>1 DEF SignalIInv, SignalBasesInv, SignalSaved
<1>2. Signals!BaseIsInformed
  <2> SUFFICES ASSUME NEW b \in Base, NEW s \in Signal, Signals!OfSignal(b, s) # {},
                      Signals!Quiet(s)
               PROVE  /\ handler[s] = "evsig"
                      /\ evsig_base = b /\ evsig_base_fd = b
                      /\ evsig_base_n_signals_added = n_signals_added[b]
    BY DEF Signals!BaseIsInformed
  <2>1. \A h \in Handler : signal_at[h][2] # s
    <3> DEFINE H == { h \in Handler : signal_at[h][2] = s }
    <3>1. IsFiniteSet(H)
      BY SignalFacts, FS_Subset DEF SignalIInv
    <3>2. H = {}
      BY <3>1, FS_EmptySet, SignalCardinality DEF Signals!Quiet, Signals!UnderWay
    <3> QED
      BY <3>2
  <2>2. handler[s] = "evsig"
    BY <2>1 DEF SignalIInv, SignalInstalled
  <2> QED
    BY <2>2, SignalInformed
<1> QED
  BY <1>1, <1>2 DEF Signals!SignalHandlingOK, SignalIInv, SignalTypes

\* signal.c alone: the theorem at the end without the other parts.
THEOREM SignalHandlingAlwaysOK ==
  ASSUME OneAtATime
  PROVE  Signals!Spec => []Signals!SignalHandlingOK
<1>1. SignalIInv /\ [Signals!Next]_(Signals!vars) => SignalIInv'
  BY SignalNextInv
<1> QED
  BY <1>1, SignalInitInv, SignalImplied, PTL DEF Signals!Spec

-----------------------------------------------------------------------------
(* The condition variable, for any number of threads, with and without     *)
(* timeouts, signals and broadcasts.                                       *)
(*                                                                         *)
(* The refinement needs to know of the counters only that a claim is one   *)
(* of those that WaitClaim makes, and that only a thread with a timeout    *)
(* sees its time over.                                                     *)

CondPlacesOK ==
  /\ pc \in [Waiter -> Cond!Places]
  /\ newer \in [Waiter -> BOOLEAN]
  /\ \A t \in Waiter : pc[t] = "timeout" => t \in Timed

\* The waiters and the runnable threads of CondVar.
CondWaiters == { t \in Cond!Registered : ~newer[t] }
CondRunnable == { t \in Cond!Registered : newer[t] } \cup { t \in Waiter : pc[t] \in {"done",
  "locked"} }

LEMMA CondPlacesInit == Cond!Init => CondPlacesOK
  BY DEF Cond!Init, CondPlacesOK, Cond!Places

LEMMA CondPlacesStep ==
  ASSUME CondPlacesOK, [Cond!Next]_(Cond!vars)
  PROVE  CondPlacesOK'
<1> USE DEF CondPlacesOK, Cond!Places
<1>1. ASSUME NEW t \in Waiter,
             \/ Cond!Lock(t) \/ Cond!Unlock(t) \/ Cond!WaitUnlock(t)
             \/ Cond!WaitObject(t) \/ Cond!WaitTimeout(t) \/ Cond!WaitLock(t)
      PROVE  CondPlacesOK'
  BY <1>1 DEF Cond!Lock, Cond!Unlock, Cond!WaitUnlock, Cond!WaitObject, Cond!WaitTimeout,
     Cond!WaitLock, Cond!condVars,
              Cond!EnterCriticalSection, Cond!LeaveCriticalSection, Cond!Go
<1>2. ASSUME NEW t \in Waiter, Cond!WaitRegister(t) PROVE CondPlacesOK'
  BY <1>2 DEF Cond!WaitRegister, Cond!Go
<1>3. ASSUME NEW t \in Waiter, Cond!WaitClaim(t) PROVE CondPlacesOK'
  <2>1. newer' = newer /\ (pc' = [pc EXCEPT ![t] = "done"] \/ pc' = [pc EXCEPT ![t] = "asleep"])
    BY <1>3 DEF Cond!WaitClaim
  <2> QED
    BY <2>1
<1>4. ASSUME NEW t \in Waiter, Cond!WaitReturn(t) PROVE CondPlacesOK'
  BY <1>4 DEF Cond!WaitReturn, Cond!Go
<1>5. ASSUME NEW t \in Waiter, NEW b \in Broadcasts, Cond!evthread_win32_cond_signal(t, b)
      PROVE  CondPlacesOK'
  <2>1. pc' = pc /\ newer' = [u \in Waiter |-> newer[u] \/ u \in Cond!Registered]
    BY <1>5 DEF Cond!evthread_win32_cond_signal
  <2> QED
    BY <2>1
<1>6. CASE UNCHANGED Cond!vars
  BY <1>6 DEF Cond!vars
<1> QED
  BY <1>1, <1>2, <1>3, <1>4, <1>5, <1>6 DEF Cond!Next, Cond!Waking

\* A thread that moves between two places of one kind leaves the abstract variables alone.
LEMMA CondMoveStutters ==
  ASSUME CondPlacesOK, NEW t \in Waiter, newer' = newer, NEW p \in Cond!Places,
         pc' = [pc EXCEPT ![t] = p],
         \/ {pc[t], p} \subseteq {"out", "in"}
         \/ {pc[t], p} \subseteq {"registered", "asleep", "object", "timeout"}
         \/ {pc[t], p} \subseteq {"done", "locked"}
  PROVE  CondWaiters' = CondWaiters /\ CondRunnable' = CondRunnable
<1>1. /\ pc'[t] = p /\ \A u \in Waiter \ {t} : pc'[u] = pc[u]
  BY DEF CondPlacesOK
<1>2. Cond!Registered' = Cond!Registered
  BY <1>1 DEF Cond!Registered
<1>3. { u \in Waiter : pc'[u] \in {"done", "locked"} } =
        { u \in Waiter : pc[u] \in {"done", "locked"} }
  BY <1>1
<1> QED
  BY <1>2, <1>3 DEF CondWaiters, CondRunnable

\* The abstract step of each step, written with the mapped variables.
CondAbstractStep ==
  \/ CondWaiters' = {} /\ CondRunnable' = CondRunnable \cup CondWaiters
  \/ \E t \in Waiter :
       \/ /\ t \notin CondWaiters \cup CondRunnable /\ CondWaiters' = CondWaiters \cup {t}
          /\ CondRunnable' = CondRunnable
       \/ /\ t \in CondWaiters \cap Timed
          /\ CondWaiters' = CondWaiters \ {t} /\ CondRunnable' = CondRunnable \cup {t}
       \/ t \in CondRunnable /\ CondRunnable' = CondRunnable \ {t} /\ CondWaiters' = CondWaiters
  \/ CondWaiters' = CondWaiters /\ CondRunnable' = CondRunnable

LEMMA CondRegisterMaps ==
  ASSUME CondPlacesOK, NEW t \in Waiter, Cond!WaitRegister(t)
  PROVE  CondAbstractStep
<1>1. /\ pc[t] = "in" /\ pc'[t] = "registered" /\ ~newer'[t]
      /\ \A u \in Waiter \ {t} : pc'[u] = pc[u] /\ newer'[u] = newer[u]
  BY DEF Cond!WaitRegister, Cond!Go, CondPlacesOK
<1>2. Cond!Registered' = Cond!Registered \cup {t} /\ t \notin Cond!Registered
  BY <1>1 DEF Cond!Registered
<1>3. CondWaiters' = CondWaiters \cup {t} /\ t \notin CondWaiters
  BY <1>1, <1>2 DEF CondWaiters, Cond!Registered
<1>4. CondRunnable' = CondRunnable /\ t \notin CondRunnable
  BY <1>1, <1>2 DEF CondRunnable, Cond!Registered
<1> QED
  BY <1>3, <1>4 DEF CondAbstractStep

\* A claim that succeeds makes nobody runnable who is not; one whose time is over does.
LEMMA CondClaimMaps ==
  ASSUME CondPlacesOK, NEW t \in Waiter, Cond!WaitClaim(t)
  PROVE  CondAbstractStep
<1>1. t \in Cond!Registered /\ newer' = newer
  BY DEF Cond!WaitClaim, Cond!Registered
<1>2. CASE pc' = [pc EXCEPT ![t] = "asleep"]
  BY <1>1, <1>2, CondMoveStutters DEF Cond!Registered, Cond!Places, CondAbstractStep
<1>3. CASE pc' = [pc EXCEPT ![t] = "done"] /\ (newer[t] \/ t \in Timed)
  <2>1. pc'[t] = "done" /\ \A u \in Waiter \ {t} : pc'[u] = pc[u]
    BY <1>3 DEF CondPlacesOK
  <2>2. Cond!Registered' = Cond!Registered \ {t}
    BY <2>1 DEF Cond!Registered
  <2>3. { u \in Waiter : pc'[u] \in {"done", "locked"} }
          = { u \in Waiter : pc[u] \in {"done", "locked"} } \cup {t}
    BY <2>1
  <2>4. CASE newer[t]
    <3>1. CondWaiters' = CondWaiters /\ CondRunnable' = CondRunnable
      BY <1>1, <2>2, <2>3, <2>4 DEF CondWaiters, CondRunnable
    <3> QED
      BY <3>1 DEF CondAbstractStep
  <2>5. CASE ~newer[t]
    <3>1. t \in CondWaiters \cap Timed
      BY <1>1, <1>3, <2>5 DEF CondWaiters
    <3>2. CondWaiters' = CondWaiters \ {t} /\ CondRunnable' = CondRunnable \cup {t}
      BY <1>1, <2>2, <2>3, <2>5 DEF CondWaiters, CondRunnable
    <3> QED
      BY <3>1, <3>2 DEF CondAbstractStep
  <2> QED
    BY <2>4, <2>5
<1>4. \/ pc' = [pc EXCEPT ![t] = "asleep"]
      \/ pc' = [pc EXCEPT ![t] = "done"] /\ (newer[t] \/ t \in Timed)
  BY DEF Cond!WaitClaim, Cond!Woken, CondPlacesOK
<1> QED
  BY <1>2, <1>3, <1>4

LEMMA CondReturnMaps ==
  ASSUME CondPlacesOK, NEW t \in Waiter, Cond!WaitReturn(t)
  PROVE  CondAbstractStep
<1>1. pc[t] = "locked" /\ pc'[t] = "in" /\ newer' = newer
      /\ \A u \in Waiter \ {t} : pc'[u] = pc[u]
  BY DEF Cond!WaitReturn, Cond!Go, CondPlacesOK
<1>2. Cond!Registered' = Cond!Registered /\ t \notin Cond!Registered
  BY <1>1 DEF Cond!Registered
<1>3. CondWaiters' = CondWaiters /\ t \in CondRunnable /\ CondRunnable' = CondRunnable \ {t}
  BY <1>1, <1>2 DEF CondWaiters, CondRunnable
<1> QED
  BY <1>3 DEF CondAbstractStep

LEMMA CondSignalMaps ==
  ASSUME CondPlacesOK, NEW t \in Waiter, NEW b \in Broadcasts, Cond!evthread_win32_cond_signal(t, b)
  PROVE  CondAbstractStep
<1>1. pc' = pc /\ newer' = [u \in Waiter |-> newer[u] \/ u \in Cond!Registered]
  BY DEF Cond!evthread_win32_cond_signal
<1>2. Cond!Registered' = Cond!Registered /\ Cond!Registered \subseteq Waiter
  BY <1>1 DEF Cond!Registered
<1>3. \A u \in Cond!Registered : newer'[u]
  BY <1>1, <1>2
<1>4. CondWaiters' = {} /\ CondRunnable' = CondRunnable \cup CondWaiters
  BY <1>1, <1>2, <1>3 DEF CondWaiters, CondRunnable
<1> QED
  BY <1>4 DEF CondAbstractStep

LEMMA CondStepMaps ==
  ASSUME CondPlacesOK, [Cond!Next]_(Cond!vars)
  PROVE  CondAbstractStep
<1>1. ASSUME NEW t \in Waiter,
             \/ Cond!Lock(t) \/ Cond!Unlock(t) \/ Cond!WaitUnlock(t)
             \/ Cond!WaitObject(t) \/ Cond!WaitTimeout(t) \/ Cond!WaitLock(t)
      PROVE  CondAbstractStep
  <2>1. PICK p \in Cond!Places :
          /\ newer' = newer /\ pc' = [pc EXCEPT ![t] = p]
          /\ \/ {pc[t], p} \subseteq {"out", "in"}
             \/ {pc[t], p} \subseteq {"registered", "asleep", "object", "timeout"}
             \/ {pc[t], p} \subseteq {"done", "locked"}
    BY <1>1 DEF Cond!Lock, Cond!Unlock, Cond!WaitUnlock, Cond!WaitObject, Cond!WaitTimeout,
       Cond!WaitLock, Cond!condVars,
                Cond!EnterCriticalSection, Cond!LeaveCriticalSection, Cond!Go, Cond!Places
  <2> QED
    BY <2>1, CondMoveStutters DEF CondAbstractStep
<1>2. CASE UNCHANGED Cond!vars
  <2>1. CondWaiters' = CondWaiters /\ CondRunnable' = CondRunnable
    BY <1>2 DEF Cond!vars, CondWaiters, CondRunnable, Cond!Registered
  <2> QED
    BY <2>1 DEF CondAbstractStep
<1> QED
  BY <1>1, <1>2, CondRegisterMaps, CondClaimMaps, CondReturnMaps, CondSignalMaps DEF Cond!Next,
     Cond!Waking

\* evthread_win32.c: a wait returns only after a broadcast or a signal that was made while the
\* thread was waiting, or after its timeout, whatever the threads do between the critical sections.
\* (A signal, too, makes every waiter runnable in CondVar: the generation does not tell them apart.)
THEOREM CondVarImplemented == Cond!Spec => Cond!ImplementsCondVar
<1>1. Cond!Init => CondPlacesOK
  BY CondPlacesInit
<1>2. CondPlacesOK /\ [Cond!Next]_(Cond!vars) => CondPlacesOK'
  BY CondPlacesStep
<1>3. Cond!Init => Cond!Abstract!Init
  BY DEF Cond!Init, Cond!Abstract!Init, Cond!Registered
<1>4. CondPlacesOK /\ [Cond!Next]_(Cond!vars) => [Cond!Abstract!Next]_(Cond!Abstract!condVars)
  BY CondStepMaps DEF CondAbstractStep, CondWaiters, CondRunnable, Cond!Abstract!Next,
     Cond!Abstract!condVars,
                  Cond!Abstract!Broadcast, Cond!Abstract!Wait, Cond!Abstract!TimeOut,
                  Cond!Abstract!Return
<1> QED
  BY <1>1, <1>2, <1>3, <1>4, PTL DEF Cond!Spec, Cond!ImplementsCondVar, Cond!Abstract!Spec
-----------------------------------------------------------------------------
(* The resets of the event.  With a finite number of threads n_waiting is  *)
(* the number of those in the loop, so a reset that looks at it sees every *)
(* thread that is still to be woken.                                       *)

CondCountOK == Cond!TypeOK /\ Cond!EventStaysSet

LEMMA CondCountInit ==
  ASSUME Cond!Init
  PROVE  CondCountOK
<1>1. Cond!Registered = {}
  BY DEF Cond!Init, Cond!Registered
<1>2. Cardinality(Cond!Registered) = 0
  BY <1>1, FS_EmptySet
<1>3. pc \in [Waiter -> Cond!Places] /\ newer \in [Waiter -> BOOLEAN]
  BY DEF Cond!Init, Cond!Places
<1> QED
  BY <1>1, <1>2, <1>3, CondCardinality DEF Cond!Init, CondCountOK, Cond!TypeOK, Cond!EventStaysSet

LEMMA CondRegisteredFinite ==
  ASSUME IsFiniteSet(Waiter)
  PROVE  IsFiniteSet(Cond!Registered) /\ Cardinality(Cond!Registered) \in Nat
<1>1. Cond!Registered \subseteq Waiter
  BY DEF Cond!Registered
<1> QED
  BY <1>1, FS_Subset, FS_CardinalityType

\* A step that changes neither the counters nor who is in the loop, and resets nothing.
LEMMA CondCountKept ==
  ASSUME CondCountOK, UNCHANGED Cond!condVars, NEW t \in Waiter, NEW p \in Cond!Places,
         pc' = [pc EXCEPT ![t] = p], holder' \in Waiter \cup {NoThread},
         \/ {pc[t], p} \cap {"registered", "asleep", "object", "timeout"} = {}
         \/ {pc[t], p} \subseteq {"registered", "asleep", "object", "timeout"}
  PROVE  CondCountOK'
<1>1. /\ pc' \in [Waiter -> Cond!Places] /\ pc'[t] = p
      /\ \A u \in Waiter \ {t} : pc'[u] = pc[u]
  BY DEF CondCountOK, Cond!TypeOK
<1>2. Cond!Registered' = Cond!Registered
  BY <1>1 DEF Cond!Registered
<1> QED
  BY <1>1, <1>2 DEF CondCountOK, Cond!TypeOK, Cond!EventStaysSet, Cond!condVars

LEMMA CondRegisterCounts ==
  ASSUME IsFiniteSet(Waiter), CondCountOK, NEW t \in Waiter, Cond!WaitRegister(t)
  PROVE  CondCountOK'
<1>1. /\ pc[t] = "in" /\ pc' = [pc EXCEPT ![t] = "registered"]
      /\ newer' = [newer EXCEPT ![t] = FALSE]
      /\ n_waiting' = n_waiting + 1 /\ UNCHANGED <<holder, event, n_to_wake>>
  BY DEF Cond!WaitRegister, Cond!Go
<1>2. /\ pc' \in [Waiter -> Cond!Places] /\ newer' \in [Waiter -> BOOLEAN] /\ ~newer'[t]
      /\ \A u \in Waiter \ {t} : newer'[u] = newer[u]
  BY <1>1 DEF CondCountOK, Cond!TypeOK, Cond!Places
<1>3. Cond!Registered' = Cond!Registered \cup {t} /\ t \notin Cond!Registered
  BY <1>1 DEF Cond!Registered, CondCountOK, Cond!TypeOK
<1>4. Cardinality(Cond!Registered') = Cardinality(Cond!Registered) + 1
  BY <1>3, CondRegisteredFinite, FS_AddElement
<1>5. n_to_wake' > 0 /\ (\E u \in Cond!Registered' : newer'[u]) => event'
  BY <1>1, <1>2, <1>3 DEF CondCountOK, Cond!EventStaysSet
<1> QED
  BY <1>1, <1>2, <1>4, <1>5, CondCardinality DEF CondCountOK, Cond!TypeOK, Cond!EventStaysSet

\* A thread that is in the loop is counted.
LEMMA CondCounted ==
  ASSUME IsFiniteSet(Waiter), CondCountOK, NEW t \in Cond!Registered
  PROVE  n_waiting > 0
<1>1. Cardinality(Cond!Registered) # 0
  BY CondRegisteredFinite, FS_EmptySet
<1> QED
  BY <1>1, CondRegisteredFinite, CondCardinality DEF CondCountOK, Cond!EventStaysSet

LEMMA CondClaimCounts ==
  ASSUME IsFiniteSet(Waiter), CondCountOK, NEW t \in Waiter, Cond!WaitClaim(t)
  PROVE  CondCountOK'
<1>1. t \in Cond!Registered /\ holder' = holder /\ newer' = newer
  BY DEF Cond!WaitClaim, Cond!Registered
<1>2. n_waiting > 0
  BY <1>1, CondCounted
<1>3. CASE /\ pc' = [pc EXCEPT ![t] = "done"] /\ n_waiting' = n_waiting - 1
           /\ event' = event /\ n_to_wake' \in Nat /\ n_to_wake' <= n_to_wake
  <2>1. pc' \in [Waiter -> Cond!Places]
    BY <1>3 DEF CondCountOK, Cond!TypeOK, Cond!Places
  <2>2. Cond!Registered' = Cond!Registered \ {t}
    BY <1>3 DEF Cond!Registered, CondCountOK, Cond!TypeOK
  <2>3. Cardinality(Cond!Registered') = Cardinality(Cond!Registered) - 1
    BY <1>1, <2>2, CondRegisteredFinite, FS_RemoveElement
  <2>4. n_to_wake' > 0 /\ (\E u \in Cond!Registered' : newer'[u]) => event'
    BY <1>1, <1>3, <2>2 DEF CondCountOK, Cond!TypeOK, Cond!EventStaysSet
  <2> QED
    BY <1>1, <1>2, <1>3, <2>1, <2>3, <2>4, CondCardinality DEF CondCountOK, Cond!TypeOK,
       Cond!EventStaysSet
<1>4. CASE /\ pc[t] = "object" /\ pc' = [pc EXCEPT ![t] = "asleep"]
           /\ event' = (event /\ n_to_wake # 0) /\ UNCHANGED <<n_to_wake, n_waiting>>
  <2>1. pc' \in [Waiter -> Cond!Places]
    BY <1>4 DEF CondCountOK, Cond!TypeOK, Cond!Places
  <2>2. Cond!Registered' = Cond!Registered
    BY <1>4 DEF Cond!Registered, CondCountOK, Cond!TypeOK
  <2>3. n_to_wake' > 0 /\ (\E u \in Cond!Registered' : newer'[u]) => event'
    BY <1>1, <1>4, <2>2 DEF CondCountOK, Cond!TypeOK, Cond!EventStaysSet
  <2>4. event' \in BOOLEAN
    BY <1>4
  <2> QED
    BY <1>1, <1>4, <2>1, <2>2, <2>3, <2>4 DEF CondCountOK, Cond!TypeOK, Cond!EventStaysSet
<1>5. n_to_wake \in Nat
  BY DEF CondCountOK, Cond!TypeOK
<1> QED
  BY <1>3, <1>4, <1>5 DEF Cond!WaitClaim, Cond!Woken, Cond!ResetInLoop

LEMMA CondReturnCounts ==
  ASSUME IsFiniteSet(Waiter), CondCountOK, NEW t \in Waiter, Cond!WaitReturn(t)
  PROVE  CondCountOK'
<1>1. /\ pc[t] = "locked" /\ pc' = [pc EXCEPT ![t] = "in"]
      /\ event' = (event /\ n_waiting # 0)
      /\ UNCHANGED <<holder, n_waiting, n_to_wake, newer>>
  BY DEF Cond!WaitReturn, Cond!Go
<1>2. pc' \in [Waiter -> Cond!Places]
  BY <1>1 DEF CondCountOK, Cond!TypeOK, Cond!Places
<1>3. Cond!Registered' = Cond!Registered
  BY <1>1 DEF Cond!Registered, CondCountOK, Cond!TypeOK
<1>4. n_to_wake' > 0 /\ (\E u \in Cond!Registered' : newer'[u]) => event'
  BY <1>1, <1>3, CondCounted DEF CondCountOK, Cond!TypeOK, Cond!EventStaysSet
<1>5. event' \in BOOLEAN
  BY <1>1
<1> QED
  BY <1>1, <1>2, <1>3, <1>4, <1>5 DEF CondCountOK, Cond!TypeOK, Cond!EventStaysSet

LEMMA CondSignalCounts ==
  ASSUME CondCountOK, NEW t \in Waiter, NEW b \in Broadcasts, Cond!evthread_win32_cond_signal(t, b)
  PROVE  CondCountOK'
<1>1. /\ newer' = [u \in Waiter |-> newer[u] \/ u \in Cond!Registered]
      /\ n_to_wake' \in Nat /\ event' = TRUE /\ UNCHANGED <<holder, n_waiting, pc>>
  BY DEF Cond!evthread_win32_cond_signal, CondCountOK, Cond!TypeOK
<1>2. newer' \in [Waiter -> BOOLEAN] /\ Cond!Registered' = Cond!Registered
  BY <1>1, Zenon DEF Cond!Registered
<1> QED
  BY <1>1, <1>2 DEF CondCountOK, Cond!TypeOK, Cond!EventStaysSet

LEMMA CondCountStep ==
  ASSUME IsFiniteSet(Waiter), CondCountOK, [Cond!Next]_(Cond!vars)
  PROVE  CondCountOK'
<1>1. ASSUME NEW t \in Waiter,
             \/ Cond!Lock(t) \/ Cond!Unlock(t) \/ Cond!WaitUnlock(t)
             \/ Cond!WaitObject(t) \/ Cond!WaitTimeout(t) \/ Cond!WaitLock(t)
      PROVE  CondCountOK'
  <2>1. PICK p \in Cond!Places :
          /\ UNCHANGED Cond!condVars /\ pc' = [pc EXCEPT ![t] = p]
          /\ holder' \in {t, NoThread, holder}
          /\ \/ {pc[t], p} \cap {"registered", "asleep", "object", "timeout"} = {}
             \/ {pc[t], p} \subseteq {"registered", "asleep", "object", "timeout"}
    BY <1>1 DEF Cond!Lock, Cond!Unlock, Cond!WaitUnlock, Cond!WaitObject, Cond!WaitTimeout,
       Cond!WaitLock, Cond!condVars,
                Cond!EnterCriticalSection, Cond!LeaveCriticalSection, Cond!Go, Cond!Places
  <2>2. holder' \in Waiter \cup {NoThread}
    BY <2>1 DEF CondCountOK, Cond!TypeOK
  <2> QED
    BY <2>1, <2>2, CondCountKept
<1>2. CASE UNCHANGED Cond!vars
  BY <1>2 DEF Cond!vars, CondCountOK, Cond!TypeOK, Cond!EventStaysSet, Cond!Registered
<1> QED
  BY <1>1, <1>2, CondRegisterCounts, CondClaimCounts, CondReturnCounts, CondSignalCounts
     DEF Cond!Next, Cond!Waking

\* evthread_win32.c: ResetEvent, which is called in two places under different conditions,
\* never takes the event from a thread that is still to be woken.
THEOREM NoWakeupIsReset ==
  ASSUME IsFiniteSet(Waiter)
  PROVE  Cond!Spec => []Cond!EventStaysSet
<1>1. Cond!Init => CondCountOK
  BY CondCountInit
<1>2. CondCountOK /\ [Cond!Next]_(Cond!vars) => CondCountOK'
  BY CondCountStep
<1>3. CondCountOK => Cond!EventStaysSet
  BY DEF CondCountOK
<1> QED
  BY <1>1, <1>2, <1>3, PTL DEF Cond!Spec

-----------------------------------------------------------------------------
(* The parts together                                                      *)

\* evmap.c and win32select.c, for any number of fds and events: the lists, the counts and the
\* fd sets agree whatever the order of additions and removals, no array is written past its end
\* though the sets grow while select() has the copies, and select() looks at all that is watched
\* or the loop has been notified.
THEOREM BackendStaysOK == FairSpec => []BackendOK
<1>1. Map!Spec => []Map!BackendOK
  BY BackendAlwaysOK
<1>2. [Next]_vars => [Map!Next]_(Map!vars)
  BY DEF Next, CondNext, MapNext, SignalsNext, vars, mapVars, Map!vars
<1>3. Init => Map!Init
  BY DEF Init
<1>4. Map!BackendOK => BackendOK
  BY DEF BackendOK
<1> QED
  BY <1>1, <1>2, <1>3, <1>4, PTL DEF FairSpec, Spec, Map!Spec

\* signal.c, for any number of bases, signals, events and handler threads, if a base adds signals
\* only when no other has any: a base has saved a handler exactly for the signals of its events,
\* and is the one that the handler informs, whose count of signals it has right.
THEOREM SignalHandlingStaysOK ==
  ASSUME OneAtATime
  PROVE  FairSpec => []SignalHandlingOK
<1>1. Signals!Spec => []Signals!SignalHandlingOK
  BY SignalHandlingAlwaysOK
<1>2. [Next]_vars => [Signals!Next]_(Signals!vars)
  BY DEF Next, CondNext, MapNext, SignalsNext, vars, signalVars, Signals!vars, Signals!globals,
         Signals!perBase
<1>3. Init => Signals!Init
  BY DEF Init
<1>4. Signals!SignalHandlingOK => SignalHandlingOK
  BY DEF SignalHandlingOK
<1> QED
  BY <1>1, <1>2, <1>3, <1>4, PTL DEF FairSpec, Spec, Signals!Spec

\* evthread_win32.c, for any number of threads: a wait returns only after a broadcast or a signal
\* that was made while the thread was waiting, or after its timeout.
THEOREM CondVarStaysImplemented == FairSpec => ImplementsCondVar
<1>1. Cond!Spec => Cond!ImplementsCondVar
  BY CondVarImplemented
<1>2. [Next]_vars => [Cond!Next]_(Cond!vars)
  BY DEF Next, CondNext, MapNext, SignalsNext, vars, condVars, Cond!vars, Cond!condVars
<1>3. Init => Cond!Init
  BY DEF Init
<1> QED
  BY <1>1, <1>2, <1>3, PTL DEF FairSpec, Spec, Cond!Spec, ImplementsCondVar
=============================================================================
