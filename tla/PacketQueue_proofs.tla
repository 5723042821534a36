------------------------ MODULE PacketQueue_proofs ------------------------
(***************************************************************************)
(* Proofs about PacketQueue, for every topology, order of iteration, table  *)
(* of rules and set of senders, and for any CaptureLimit and MaxEvents.     *)
(*                                                                          *)
(* Routes: every entry in the queue of the search holds a path of links     *)
(* that repeats no address and crosses only live routers (Trail); one       *)
(* neighbour, one turn and so the whole search keep that.                   *)
(* Packets: what a builder writes into the bytes the parser reads out, and  *)
(* a hop changes the TTL and the checksum alone (Travelled).                *)
(* Calls: SendDoes says what one send_packet does to the queues, answer     *)
(* included; Inv, that the queues of a host hold whole packets for it, is   *)
(* inductive; the four theorems follow.                                     *)
(***************************************************************************)
EXTENDS PacketQueue, FiniteSetTheorems, SequenceTheorems, WellFoundedInduction, TLAPS

-----------------------------------------------------------------------------
(* Numbers and recursive functions.                                        *)

\* The intervals below the members of T are well-founded under inclusion.
LEMMA LeastNumber ==
    ASSUME NEW T \in SUBSET Nat, T # {}
    PROVE  \E m \in T : \A k \in T : m <= k
<1>1. PICK n \in T : TRUE
  OBVIOUS
<1> DEFINE Below == {0 .. m : m \in {k \in T : k <= n}}
<1>2. IsWellFoundedOn(StrictSubsetOrdering(0 .. n), FiniteSubsetsOf(0 .. n))
  BY FS_Interval, FS_StrictSubsetOrderingWellFounded
<1>3. Below \subseteq FiniteSubsetsOf(0 .. n) /\ Below # {}
  <2>1. \A m \in Int : IsFiniteSet(0 .. m)
    BY FS_Interval
  <2> QED
    BY <1>1, <2>1 DEF FiniteSubsetsOf
<1> HIDE DEF Below
<1>4. PICK s \in Below : \A r \in Below : <<r, s>> \notin StrictSubsetOrdering(0 .. n)
  BY <1>2, <1>3, WFMin
<1>5. PICK m \in T : m <= n /\ s = 0 .. m
  BY DEF Below
<1>6. ASSUME NEW k \in T, k < m PROVE FALSE
  <2>1. 0 .. k \in Below /\ 0 .. k \in SUBSET (0 .. n) /\ s \in SUBSET (0 .. n)
    BY <1>5, <1>6 DEF Below
  <2>2. 0 .. k \subseteq s /\ 0 .. k # s
    BY <1>5, <1>6
  <2> QED
    BY <1>4, <2>1, <2>2 DEF StrictSubsetOrdering
<1> QED
  BY <1>6

\* Induction up to max, for a set of numbers.
LEMMA UpTo ==
    ASSUME NEW max \in Nat, NEW S, 0 \in S,
           \A k \in 1 .. max : k - 1 \in S => k \in S
    PROVE  \A k \in 0 .. max : k \in S
<1> SUFFICES ASSUME (0 .. max) \ S # {} PROVE FALSE
  OBVIOUS
<1>1. PICK m \in (0 .. max) \ S : \A k \in (0 .. max) \ S : m <= k
  <2>1. (0 .. max) \ S \in SUBSET Nat
    OBVIOUS
  <2> QED
    BY <2>1, LeastNumber
<1>2. m # 0 /\ m - 1 \in S
  BY <1>1
<1> QED
  BY <1>2

\* A value for every step makes a recursive function.
Computes(f, base, step, max) ==
    f = [k \in 0 .. max |-> IF k = 0 THEN base ELSE step[k][f[k - 1]]]

\* A base and a step make a recursive function.
LEMMA RecursionExists ==
    ASSUME NEW max \in Nat, NEW base, NEW step
    PROVE  \E f : Computes(f, base, step, max)
<1> DEFINE K == {n \in Nat : \E f : Computes(f, base, step, n)}
<1>1. 0 \in K
  <2>1. Computes([k \in 0 .. 0 |-> base], base, step, 0)
    BY DEF Computes
  <2> QED
    BY <2>1
<1>2. ASSUME NEW n \in 1 .. max, n - 1 \in K PROVE n \in K
  <2>1. PICK f : Computes(f, base, step, n - 1)
    BY <1>2
  <2> DEFINE g == [k \in 0 .. n |-> IF k = n THEN step[n][f[n - 1]] ELSE f[k]]
  <2>2. \A k \in 0 .. (n - 1) : f[k] = IF k = 0 THEN base ELSE step[k][f[k - 1]]
    BY <2>1 DEF Computes
  <2>3. ASSUME NEW k \in 0 .. n
        PROVE  g[k] = IF k = 0 THEN base ELSE step[k][g[k - 1]]
    <3>1. CASE k = n
      BY <3>1
    <3>2. CASE k # n /\ k = 0
      BY <2>2, <3>2
    <3>3. CASE k # n /\ k # 0
      <4>1. k \in 0 .. (n - 1) /\ k - 1 \in 0 .. n /\ k - 1 # n
        BY <3>3
      <4>2. g[k] = f[k] /\ g[k - 1] = f[k - 1]
        BY <3>3, <4>1
      <4> QED
        BY <2>2, <3>3, <4>1, <4>2
    <3> QED
      BY <3>1, <3>2, <3>3
  <2> HIDE DEF g
  <2>4. g = [k \in 0 .. n |-> g[k]]
    BY DEF g
  <2>5. Computes(g, base, step, n)
    BY <2>3, <2>4 DEF Computes
  <2> QED
    BY <2>5
<1> HIDE DEF K
<1>3. max \in K
  BY <1>1, <1>2, UpTo
<1> QED
  BY <1>3 DEF K

\* The values of a function stay in a set that every step keeps.
LEMMA StaysIn ==
    ASSUME NEW max \in Nat, NEW D, NEW f, f[0] \in D,
           \A k \in 1 .. max : f[k - 1] \in D => f[k] \in D
    PROVE  \A k \in 0 .. max : f[k] \in D
<1> DEFINE S == {k \in 0 .. max : f[k] \in D}
<1>1. 0 \in S /\ \A k \in 1 .. max : k - 1 \in S => k \in S
  OBVIOUS
<1> HIDE DEF S
<1>2. \A k \in 0 .. max : k \in S
  BY <1>1, UpTo
<1> QED
  BY <1>2 DEF S

-----------------------------------------------------------------------------
(* Routes.                                                                 *)

\* What a path of the search is, whatever it has found: it starts at from,
\* repeats nothing, follows links, and between its ends crosses live hosts
\* that forward.
Linking(t, a, b) == \E q \in ToSet(t.ifaces[SystemAt(t, a)]) : b \in Linked(t, q)
Crossable(t, up_, a) == SystemAt(t, a) \in up_ \cap t.forward
Trail(t, up_, from, p) ==
    /\ p \in Seq(AddressesOf(t)) /\ Len(p) >= 1
    /\ p[1] = from /\ IsInjective(p)
    /\ \A i \in 1 .. (Len(p) - 1) : Linking(t, p[i], p[i + 1])
    /\ \A i \in 2 .. (Len(p) - 1) : Crossable(t, up_, p[i])

\* What the queue holds: an address of the last host of a path to it.
Entries(t, up_, from, ips) ==
    {e \in AddressesOf(t) \X Seq(AddressesOf(t)) :
        /\ Trail(t, up_, from, e[2]) /\ ToSet(e[2]) \subseteq ips
        /\ SystemAt(t, e[1]) = SystemAt(t, Last(e[2]))
        /\ Len(e[2]) > 1 => Crossable(t, up_, Last(e[2]))}

Found(t, up_, from, to, p) == p = NoPath \/ (Trail(t, up_, from, p) /\ Last(p) = to)

SearchStates(t, up_, from, to) ==
    {s \in [queue : Seq(AddressesOf(t) \X Seq(AddressesOf(t))), ips : SUBSET AddressesOf(t),
            systems : SUBSET HostsOf(t), to : {to}, found : Seq(AddressesOf(t))] :
        /\ s.queue \in Seq(Entries(t, up_, from, s.ips))
        /\ Found(t, up_, from, to, s.found)}

\* A path grows by an address it does not hold and its end is linked to.
LEMMA TrailGrows ==
    ASSUME NEW t, NEW up_, NEW from, NEW p, Trail(t, up_, from, p),
           NEW q \in AddressesOf(t), q \notin ToSet(p), Linking(t, Last(p), q),
           Len(p) > 1 => Crossable(t, up_, Last(p))
    PROVE  /\ Trail(t, up_, from, Append(p, q)) /\ Last(Append(p, q)) = q
           /\ ToSet(Append(p, q)) = ToSet(p) \cup {q} /\ Len(Append(p, q)) > 1
<1> DEFINE r == Append(p, q)
<1>1. p \in Seq(AddressesOf(t)) /\ Len(p) \in Nat /\ Len(p) >= 1 /\ DOMAIN p = 1 .. Len(p)
  BY DEF Trail
<1>n. PICK n \in Nat : n = Len(p) /\ n >= 1
  BY <1>1
<1>2. /\ r \in Seq(AddressesOf(t)) /\ Len(r) = Len(p) + 1 /\ DOMAIN r = 1 .. (Len(p) + 1)
      /\ \A i \in 1 .. Len(p) : r[i] = p[i]
      /\ r[Len(p) + 1] = q
  BY <1>1
<1> HIDE DEF r
<1>3. Last(r) = q
  BY <1>1, <1>2 DEF Last
<1>4. ToSet(r) = ToSet(p) \cup {q}
  BY <1>1, <1>2 DEF ToSet
<1>5. IsInjective(r)
  <2>1. \A i \in 1 .. Len(p) : p[i] # q
    BY <1>1 DEF ToSet
  <2>2. \A i, j \in 1 .. Len(p) : p[i] = p[j] => i = j
    BY <1>1 DEF Trail, IsInjective
  <2> QED
    BY <1>1, <1>2, <2>1, <2>2 DEF IsInjective
<1>6. \A i \in 1 .. (Len(r) - 1) : Linking(t, r[i], r[i + 1])
  <2> SUFFICES ASSUME NEW i \in 1 .. Len(p) PROVE Linking(t, r[i], r[i + 1])
    BY <1>1, <1>2
  <2>1. CASE i = Len(p)
    BY <1>1, <1>2, <2>1 DEF Last
  <2>2. CASE i # Len(p)
    <3>1. i \in 1 .. (Len(p) - 1) /\ i + 1 \in 1 .. Len(p)
      BY <1>n, <2>2
    <3> QED
      BY <1>2, <3>1 DEF Trail
  <2> QED
    BY <2>1, <2>2
<1>7. \A i \in 2 .. (Len(r) - 1) : Crossable(t, up_, r[i])
  <2> SUFFICES ASSUME NEW i \in 2 .. Len(p) PROVE Crossable(t, up_, r[i])
    BY <1>1, <1>2
  <2>1. r[i] = p[i]
    BY <1>1, <1>2
  <2>2. CASE i = Len(p)
    BY <1>1, <2>1, <2>2 DEF Last
  <2>3. CASE i # Len(p)
    <3>1. i \in 2 .. (Len(p) - 1)
      BY <1>n, <2>3
    <3> QED
      BY <2>1, <3>1 DEF Trail
  <2> QED
    BY <2>2, <2>3
<1>8. r[1] = from
  BY <1>1, <1>2 DEF Trail
<1>9. Trail(t, up_, from, r)
  BY <1>1, <1>2, <1>5, <1>6, <1>7, <1>8 DEF Trail
<1> QED
  BY <1>1, <1>2, <1>3, <1>4, <1>9 DEF r

\* Onward pairs the path with addresses of the router.
LEMMA OnwardPairs ==
    ASSUME NEW t, NEW ips, NEW A, NEW ifaces \in Seq(A), NEW path
    PROVE  Onward(t, ips, ifaces, path) \in Seq(ToSet(ifaces) \X {path})
<1> DEFINE D == Seq(ToSet(ifaces) \X {path})
           Step(k, before) ==
               IF ifaces[k] \notin ips /\ Linked(t, ifaces[k]) \ ips # {}
               THEN Append(before, <<ifaces[k], path>>) ELSE before
           step == [k \in 1 .. Len(ifaces) |-> [before \in D |-> Step(k, before)]]
           first == CHOOSE f : f = [k \in 0 .. Len(ifaces) |->
                                      IF k = 0 THEN <<>> ELSE Step(k, f[k - 1])]
<1>1. Len(ifaces) \in Nat /\ <<>> \in D
  OBVIOUS
<1>2. \A k \in 1 .. Len(ifaces) : \A before \in D : Step(k, before) \in D
  <2> SUFFICES ASSUME NEW k \in 1 .. Len(ifaces), NEW before \in D PROVE Step(k, before) \in D
    OBVIOUS
  <2>1. ifaces[k] \in ToSet(ifaces)
    BY DEF ToSet
  <2> QED
    BY <2>1
<1> HIDE DEF D, Step
<1>3. \A k \in 1 .. Len(ifaces) : \A before \in D :
          step[k][before] = Step(k, before) /\ step[k][before] \in D
  BY <1>2
<1> HIDE DEF step
<1>4. PICK f : Computes(f, <<>>, step, Len(ifaces))
  BY <1>1, RecursionExists
<1>5. \A k \in 0 .. Len(ifaces) : f[k] \in D
  <2>1. f[0] \in D /\ \A k \in 1 .. Len(ifaces) : f[k - 1] \in D => f[k] \in D
    BY <1>1, <1>3, <1>4 DEF Computes
  <2> QED
    BY <1>1, <2>1, StaysIn
<1>6. f = [k \in 0 .. Len(ifaces) |-> IF k = 0 THEN <<>> ELSE Step(k, f[k - 1])]
  <2>1. \A k \in 0 .. Len(ifaces) :
            (IF k = 0 THEN <<>> ELSE step[k][f[k - 1]]) = IF k = 0 THEN <<>> ELSE Step(k, f[k - 1])
    BY <1>1, <1>3, <1>5
  <2> QED
    BY <1>4, <2>1 DEF Computes
<1>7. first = [k \in 0 .. Len(ifaces) |-> IF k = 0 THEN <<>> ELSE Step(k, first[k - 1])]
  BY <1>6
<1>8. Onward(t, ips, ifaces, path) = first[Len(ifaces)]
  BY DEF Onward, Step
<1> HIDE DEF first
<1>9. \A k \in 0 .. Len(ifaces) : first[k] \in D
  <2>1. first[0] \in D /\ \A k \in 1 .. Len(ifaces) : first[k - 1] \in D => first[k] \in D
    BY <1>1, <1>2, <1>7
  <2> QED
    BY <1>1, <2>1, StaysIn
<1> QED
  BY <1>1, <1>8, <1>9 DEF D

\* Onward queues addresses of the host the path has reached.
LEMMA OnwardEntries ==
    ASSUME NEW t, IsTopology(t), NEW up_, NEW from, NEW ips, NEW p,
           Trail(t, up_, from, p), ToSet(p) \subseteq ips, Crossable(t, up_, Last(p))
    PROVE  Onward(t, ips, t.ifaces[SystemAt(t, Last(p))], p) \in Seq(Entries(t, up_, from, ips))
<1> DEFINE host == SystemAt(t, Last(p))
           ifaces == t.ifaces[host]
<1>1. p \in Seq(AddressesOf(t)) /\ Last(p) \in AddressesOf(t)
  BY DEF Trail, Last
<1>2. host \in HostsOf(t)
  BY <1>1 DEF IsTopology, SystemAt
<1>3. /\ ifaces \in Seq(AddressesOf(t))
      /\ \A a \in ToSet(ifaces) : a \in AddressesOf(t) /\ SystemAt(t, a) = host
  <2>1. ifaces \in Seq(AddressesOf(t))
    BY <1>2 DEF IsTopology
  <2>2. ToSet(ifaces) \subseteq AddressesOf(t)
    BY <2>1 DEF ToSet
  <2> QED
    BY <1>2, <2>1, <2>2 DEF IsTopology
<1> HIDE DEF ifaces
<1>4. ToSet(ifaces) \X {p} \subseteq Entries(t, up_, from, ips)
  BY <1>1, <1>3 DEF Entries
<1>5. Onward(t, ips, ifaces, p) \in Seq(ToSet(ifaces) \X {p})
  BY <1>3, OnwardPairs
<1> QED
  BY <1>4, <1>5, SeqMonotonic DEF ifaces

\* An entry of the queue stays one when more addresses are seen.
LEMMA EntriesGrow ==
    ASSUME NEW t, NEW up_, NEW from, NEW ips, NEW more, ips \subseteq more
    PROVE  Seq(Entries(t, up_, from, ips)) \subseteq Seq(Entries(t, up_, from, more))
<1>1. Entries(t, up_, from, ips) \subseteq Entries(t, up_, from, more)
  BY DEF Entries
<1> QED
  BY <1>1, SeqMonotonic

\* One neighbour more.
LEMMA ReachKeeps ==
    ASSUME NEW t, IsTopology(t), NEW up_, NEW from, NEW to \in AddressesOf(t),
           NEW s \in SearchStates(t, up_, from, to),
           NEW here \in Entries(t, up_, from, s.ips), NEW q \in Linked(t, here[1]),
           SystemAt(t, q) \in up_
    PROVE  /\ Reach(t, s, here[2], q) \in SearchStates(t, up_, from, to)
           /\ s.ips \subseteq Reach(t, s, here[2], q).ips
<1> DEFINE path == here[2]
           new == Append(path, q)
           ips == s.ips \cup {q}
           more == IF Forwards(t, SystemAt(t, q))
                   THEN Onward(t, ips, t.ifaces[SystemAt(t, q)], new) ELSE <<>>
<1>1. /\ here[1] \in AddressesOf(t) /\ path \in Seq(AddressesOf(t))
      /\ Trail(t, up_, from, path) /\ ToSet(path) \subseteq s.ips
      /\ SystemAt(t, here[1]) = SystemAt(t, Last(path))
      /\ Len(path) > 1 => Crossable(t, up_, Last(path))
  BY DEF Entries
<1>2. q \in AddressesOf(t)
  BY <1>1 DEF IsTopology, Linked
<1>3. Linking(t, Last(path), q)
  <2>1. SystemAt(t, here[1]) \in HostsOf(t)
    BY <1>1 DEF IsTopology, SystemAt
  <2>2. here[1] \in ToSet(t.ifaces[SystemAt(t, here[1])])
    BY <1>1, <2>1 DEF IsTopology
  <2> QED
    BY <1>1, <2>2 DEF Linking
<1>4. /\ s.queue \in Seq(AddressesOf(t) \X Seq(AddressesOf(t))) /\ s.ips \subseteq AddressesOf(t)
      /\ s.systems \in SUBSET HostsOf(t) /\ s.to = to /\ s.found \in Seq(AddressesOf(t))
      /\ s.queue \in Seq(Entries(t, up_, from, s.ips)) /\ Found(t, up_, from, to, s.found)
      /\ s = [queue |-> s.queue, ips |-> s.ips, systems |-> s.systems, to |-> s.to, found |-> s.found]
  BY DEF SearchStates
<1>5. CASE q \notin s.ips
  <2>1. /\ Trail(t, up_, from, new) /\ Last(new) = q /\ ToSet(new) = ToSet(path) \cup {q}
        /\ Len(new) > 1
    <3>1. q \notin ToSet(path)
      BY <1>1, <1>5
    <3> QED
      BY <1>1, <1>2, <1>3, <3>1, TrailGrows
  <2>2. new \in Seq(AddressesOf(t))
    BY <2>1 DEF Trail
  <2>3. CASE q = s.to
    <3>1. Reach(t, s, path, q) = [s EXCEPT !.found = new]
      BY <1>5, <2>3 DEF Reach
    <3>2. Found(t, up_, from, to, new)
      BY <1>4, <2>1, <2>3 DEF Found
    <3> HIDE DEF new
    <3> QED
      BY <1>4, <2>2, <3>1, <3>2 DEF SearchStates
  <2>4. CASE q # s.to
    <3>1. Reach(t, s, path, q) = [s EXCEPT !.ips = ips, !.queue = @ \o more]
      BY <1>5, <2>4 DEF Reach
    <3>2. more \in Seq(Entries(t, up_, from, ips))
      <4>1. CASE Forwards(t, SystemAt(t, q))
        <5>1. Crossable(t, up_, Last(new))
          BY <2>1, <4>1 DEF Crossable, Forwards
        <5> QED
          BY <1>1, <2>1, <4>1, <5>1, OnwardEntries
      <4>2. CASE ~Forwards(t, SystemAt(t, q))
        BY <4>2
      <4> QED
        BY <4>1, <4>2
    <3> HIDE DEF more
    <3>3. s.queue \o more \in Seq(Entries(t, up_, from, ips))
      <4>1. s.queue \in Seq(Entries(t, up_, from, ips))
        BY <1>4, EntriesGrow
      <4> QED
        BY <3>2, <4>1, ConcatProperties
    <3>4. s.queue \o more \in Seq(AddressesOf(t) \X Seq(AddressesOf(t)))
      <4>1. Entries(t, up_, from, ips) \subseteq AddressesOf(t) \X Seq(AddressesOf(t))
        BY DEF Entries
      <4> QED
        BY <3>3, <4>1, SeqMonotonic
    <3> DEFINE queue == s.queue \o more
    <3>5. Reach(t, s, path, q) = [queue |-> queue, ips |-> ips, systems |-> s.systems,
                                  to |-> s.to, found |-> s.found]
      BY <1>4, <3>1
    <3>6. ips \subseteq AddressesOf(t) /\ s.ips \subseteq ips
      BY <1>2, <1>4
    <3> DEFINE r == Reach(t, s, path, q)
    <3>7. /\ r.queue = queue /\ r.ips = ips /\ r.found = s.found
          /\ r \in [queue : Seq(AddressesOf(t) \X Seq(AddressesOf(t))), ips : SUBSET AddressesOf(t),
                    systems : SUBSET HostsOf(t), to : {to}, found : Seq(AddressesOf(t))]
      <4> HIDE DEF ips
      <4> QED
        BY <1>4, <3>4, <3>5, <3>6
    <3> HIDE DEF queue, ips, r
    <3>8. r.queue \in Seq(Entries(t, up_, from, r.ips)) /\ Found(t, up_, from, to, r.found)
      BY <1>4, <3>3, <3>7 DEF queue
    <3> QED
      BY <3>6, <3>7, <3>8 DEF SearchStates, r
  <2> QED
    BY <2>3, <2>4
<1>6. CASE q \in s.ips
  <2>1. Reach(t, s, path, q) = s
    BY <1>6 DEF Reach
  <2> QED
    BY <2>1
<1> QED
  BY <1>5, <1>6

\* One turn of the search.
LEMMA VisitKeeps ==
    ASSUME NEW t, IsTopology(t), NEW up_, NEW ord, Len(ord) \in Nat, NEW from,
           NEW to \in AddressesOf(t), NEW s \in SearchStates(t, up_, from, to), s.queue # <<>>
    PROVE  Visit(t, up_, ord, s) \in SearchStates(t, up_, from, to)
<1> DEFINE here == s.queue[1]
           host == SystemAt(t, here[1])
           rest == [s EXCEPT !.queue = Tail(@)]
           start == [rest EXCEPT !.systems = @ \cup {host}]
           D == {r \in SearchStates(t, up_, from, to) : s.ips \subseteq r.ips}
           Step(k, r) == TryNeighbour(t, up_, r, here, ord[k])
           step == [k \in 1 .. Len(ord) |-> [r \in D |-> Step(k, r)]]
           tried == CHOOSE f : f = [k \in 0 .. Len(ord) |->
                                      IF k = 0 THEN start ELSE Step(k, f[k - 1])]
<1>1. /\ s.queue \in Seq(AddressesOf(t) \X Seq(AddressesOf(t))) /\ s.ips \subseteq AddressesOf(t)
      /\ s.systems \in SUBSET HostsOf(t) /\ s.to = to /\ s.found \in Seq(AddressesOf(t))
      /\ s.queue \in Seq(Entries(t, up_, from, s.ips)) /\ Found(t, up_, from, to, s.found)
      /\ s = [queue |-> s.queue, ips |-> s.ips, systems |-> s.systems, to |-> s.to, found |-> s.found]
  BY DEF SearchStates
<1>2. here \in Entries(t, up_, from, s.ips) /\ here[1] \in AddressesOf(t)
  <2>1. here \in Entries(t, up_, from, s.ips)
    BY <1>1, HeadTailProperties
  <2> QED
    BY <2>1 DEF Entries
<1>3. rest \in SearchStates(t, up_, from, to) /\ start \in D
  <2>1. /\ Tail(s.queue) \in Seq(AddressesOf(t) \X Seq(AddressesOf(t)))
        /\ Tail(s.queue) \in Seq(Entries(t, up_, from, s.ips))
    BY <1>1, HeadTailProperties
  <2>2. host \in HostsOf(t)
    BY <1>2 DEF IsTopology, SystemAt
  <2>3. /\ rest = [queue |-> Tail(s.queue), ips |-> s.ips, systems |-> s.systems, to |-> s.to,
                   found |-> s.found]
        /\ start = [queue |-> Tail(s.queue), ips |-> s.ips, systems |-> s.systems \cup {host},
                    to |-> s.to, found |-> s.found]
    <3>1. s = [queue |-> s.queue, ips |-> s.ips, systems |-> s.systems, to |-> s.to,
               found |-> s.found]
      BY <1>1
    <3> DEFINE tail == Tail(s.queue)
    <3> HIDE DEF tail, host
    <3>2. rest = [s EXCEPT !.queue = tail]
      BY DEF tail
    <3> HIDE DEF rest
    <3>3. rest = [queue |-> tail, ips |-> s.ips, systems |-> s.systems, to |-> s.to,
                  found |-> s.found]
      BY <3>1, <3>2
    <3>4. start = [queue |-> tail, ips |-> s.ips, systems |-> s.systems \cup {host},
                   to |-> s.to, found |-> s.found]
      <4>1. rest.systems = s.systems
        BY <3>3
      <4> DEFINE systems == s.systems \cup {host}
      <4>2. start = [rest EXCEPT !.systems = systems]
        BY <4>1
      <4> HIDE DEF start, systems
      <4>3. start = [queue |-> tail, ips |-> s.ips, systems |-> systems, to |-> s.to,
                     found |-> s.found]
        BY <3>3, <4>2
      <4> QED
        BY <4>3 DEF systems
    <3> QED
      BY <3>3, <3>4 DEF tail
  <2>4. s.systems \cup {host} \in SUBSET HostsOf(t)
    BY <1>1, <2>2
  <2> HIDE DEF rest, start, host
  <2>5. rest \in SearchStates(t, up_, from, to)
    BY <1>1, <2>1, <2>3 DEF SearchStates
  <2>6. start \in SearchStates(t, up_, from, to)
    BY <1>1, <2>1, <2>3, <2>4 DEF SearchStates
  <2> QED
    BY <2>3, <2>5, <2>6
<1>4. \A k \in 1 .. Len(ord) : \A r \in D : Step(k, r) \in D
  <2> SUFFICES ASSUME NEW k \in 1 .. Len(ord), NEW r \in D PROVE Step(k, r) \in D
    OBVIOUS
  <2>1. CASE r.found = NoPath /\ ord[k] \in Linked(t, here[1]) /\ SystemAt(t, ord[k]) \in up_
    <3>1. here \in Entries(t, up_, from, r.ips)
      BY <1>2 DEF Entries
    <3>2. /\ Reach(t, r, here[2], ord[k]) \in SearchStates(t, up_, from, to)
          /\ r.ips \subseteq Reach(t, r, here[2], ord[k]).ips
      <4> HIDE DEF here
      <4> QED
        BY <2>1, <3>1, ReachKeeps
    <3> QED
      BY <2>1, <3>2 DEF TryNeighbour
  <2>2. CASE ~(r.found = NoPath /\ ord[k] \in Linked(t, here[1]) /\ SystemAt(t, ord[k]) \in up_)
    BY <2>2 DEF TryNeighbour
  <2> QED
    BY <2>1, <2>2
<1>5. CASE (Len(here[2]) > 1 /\ host \notin up_) \/ host \in s.systems
  BY <1>3, <1>5 DEF Visit
<1>6. CASE ~((Len(here[2]) > 1 /\ host \notin up_) \/ host \in s.systems)
  <2>1. Visit(t, up_, ord, s) = tried[Len(ord)]
    BY <1>6 DEF Visit
  <2>2. D \subseteq SearchStates(t, up_, from, to)
    OBVIOUS
  <2> HIDE DEF D, Step, start
  <2>3. \A k \in 1 .. Len(ord) : \A r \in D : step[k][r] = Step(k, r) /\ step[k][r] \in D
    BY <1>4
  <2> HIDE DEF step
  <2>4. PICK f : Computes(f, start, step, Len(ord))
    BY RecursionExists
  <2>5. \A k \in 0 .. Len(ord) : f[k] \in D
    <3>1. f[0] \in D /\ \A k \in 1 .. Len(ord) : f[k - 1] \in D => f[k] \in D
      BY <1>3, <2>3, <2>4, SMTT(20) DEF Computes
    <3> QED
      BY <3>1, StaysIn
  <2>6. f = [k \in 0 .. Len(ord) |-> IF k = 0 THEN start ELSE Step(k, f[k - 1])]
    <3>1. \A k \in 0 .. Len(ord) :
              (IF k = 0 THEN start ELSE step[k][f[k - 1]]) = IF k = 0 THEN start ELSE Step(k, f[k - 1])
      BY <2>3, <2>5
    <3> QED
      BY <2>4, <3>1 DEF Computes
  <2>7. tried = [k \in 0 .. Len(ord) |-> IF k = 0 THEN start ELSE Step(k, tried[k - 1])]
    BY <2>6
  <2> HIDE DEF tried
  <2>8. \A k \in 0 .. Len(ord) : tried[k] \in D
    <3>1. tried[0] \in D /\ \A k \in 1 .. Len(ord) : tried[k - 1] \in D => tried[k] \in D
      BY <1>3, <1>4, <2>7
    <3> QED
      BY <3>1, StaysIn
  <2> QED
    BY <2>1, <2>2, <2>8
<1> QED
  BY <1>5, <1>6

\* The path of the sender alone.
LEMMA TrailOfOne ==
    ASSUME NEW t, NEW up_, NEW a \in AddressesOf(t)
    PROVE  Trail(t, up_, a, <<a>>) /\ Last(<<a>>) = a /\ ToSet(<<a>>) = {a}
BY DEF Trail, IsInjective, Last, ToSet

\* The whole search.
LEMMA SearchFinds ==
    ASSUME NEW t, IsTopology(t), NEW up_, NEW ord, Len(ord) \in Nat,
           NEW from \in AddressesOf(t), NEW to \in AddressesOf(t)
    PROVE  Found(t, up_, from, to, Search(t, up_, ord, from, to))
<1> DEFINE turns == 1 + Cardinality(QueuedFrom(t))
           D == SearchStates(t, up_, from, to)
           start == [queue |-> << <<from, <<from>>>> >>, ips |-> {from},
                     systems |-> {}, to |-> to, found |-> NoPath]
           step == [k \in 1 .. turns |-> [s \in D |-> Turn(t, up_, ord, s)]]
           after == CHOOSE f : f = [n \in 0 .. turns |->
                                      IF n = 0 THEN start ELSE Turn(t, up_, ord, f[n - 1])]
<1>1. turns \in Nat
  <2>1. IsFiniteSet(AddressesOf(t) \X AddressesOf(t))
    BY FS_Product DEF IsTopology
  <2>2. QueuedFrom(t) \in SUBSET (AddressesOf(t) \X AddressesOf(t))
    BY DEF QueuedFrom
  <2>3. IsFiniteSet(QueuedFrom(t))
    BY <2>1, <2>2, FS_Subset
  <2>4. Cardinality(QueuedFrom(t)) \in Nat
    BY <2>3, FS_CardinalityType
  <2> QED
    BY <2>4
<1>2. start \in D
  <2>1. <<from, <<from>>>> \in Entries(t, up_, from, {from})
    <3>1. Trail(t, up_, from, <<from>>) /\ Last(<<from>>) = from /\ ToSet(<<from>>) = {from}
      BY TrailOfOne
    <3> QED
      BY <3>1 DEF Entries
  <2>2. << <<from, <<from>>>> >> \in Seq(Entries(t, up_, from, {from}))
    BY <2>1
  <2>3. << <<from, <<from>>>> >> \in Seq(AddressesOf(t) \X Seq(AddressesOf(t)))
    OBVIOUS
  <2>4. <<>> \in Seq(AddressesOf(t)) /\ Found(t, up_, from, to, <<>>)
    BY DEF Found, NoPath
  <2> QED
    BY <2>2, <2>3, <2>4 DEF SearchStates, NoPath
<1>3. \A s \in D : Turn(t, up_, ord, s) \in D
  BY VisitKeeps DEF Turn
<1>4. Search(t, up_, ord, from, to) = after[turns].found
  BY DEF Search
<1>5. \A s \in D : Found(t, up_, from, to, s.found)
  BY DEF SearchStates
<1> HIDE DEF D, start, turns
<1>6. \A k \in 1 .. turns : \A s \in D :
          step[k][s] = Turn(t, up_, ord, s) /\ step[k][s] \in D
  BY <1>3
<1> HIDE DEF step
<1>7. PICK f : Computes(f, start, step, turns)
  BY <1>1, RecursionExists
<1>8. \A k \in 0 .. turns : f[k] \in D
  <2>1. f[0] \in D /\ \A k \in 1 .. turns : f[k - 1] \in D => f[k] \in D
    BY <1>1, <1>2, <1>6, <1>7 DEF Computes
  <2> QED
    BY <1>1, <2>1, StaysIn
<1>9. f = [n \in 0 .. turns |-> IF n = 0 THEN start ELSE Turn(t, up_, ord, f[n - 1])]
  <2>1. \A k \in 0 .. turns : (IF k = 0 THEN start ELSE step[k][f[k - 1]])
                              = IF k = 0 THEN start ELSE Turn(t, up_, ord, f[k - 1])
    BY <1>1, <1>6, <1>8
  <2> QED
    BY <1>7, <2>1 DEF Computes
<1>10. after = [n \in 0 .. turns |-> IF n = 0 THEN start ELSE Turn(t, up_, ord, after[n - 1])]
  BY <1>9
<1> HIDE DEF after
<1>11. \A k \in 0 .. turns : after[k] \in D
  <2>1. after[0] \in D /\ \A k \in 1 .. turns : after[k - 1] \in D => after[k] \in D
    BY <1>1, <1>2, <1>3, <1>10
  <2> QED
    BY <1>1, <2>1, StaysIn
<1> QED
  BY <1>1, <1>4, <1>5, <1>11

\* What a path is, and how many addresses it has.
LEMMA RouteIsReal ==
    ASSUME NEW t, IsTopology(t), NEW up_, NEW ord, Len(ord) \in Nat,
           NEW a \in AddressesOf(t), NEW b \in AddressesOf(t),
           NEW p, p = FindRoutePath(t, up_, ord, a, b), p # NoPath
    PROVE  /\ Trail(t, up_, a, p) /\ Last(p) = b
           /\ a = b => p = <<a>> /\ SystemAt(t, a) \in up_
           /\ a # b => Len(p) >= 2
<1>1. CASE a = b
  <2>1. p = <<a>> /\ SystemAt(t, a) \in up_
    BY <1>1 DEF FindRoutePath
  <2> QED
    BY <1>1, <2>1, TrailOfOne
<1>2. CASE a # b /\ b \in Linked(t, a)
  <2>1. p = <<a, b>>
    BY <1>2 DEF FindRoutePath
  <2>2. a \in ToSet(t.ifaces[SystemAt(t, a)])
    <3>1. SystemAt(t, a) \in HostsOf(t)
      BY DEF IsTopology, SystemAt
    <3> QED
      BY <3>1 DEF IsTopology
  <2>3. Linking(t, a, b)
    BY <1>2, <2>2 DEF Linking
  <2> QED
    BY <1>2, <2>1, <2>3 DEF Trail, IsInjective, Last
<1>3. CASE a # b /\ b \notin Linked(t, a)
  <2>1. p = Search(t, up_, ord, a, b)
    BY <1>3 DEF FindRoutePath
  <2>2. Trail(t, up_, a, p) /\ Last(p) = b
    BY <2>1, SearchFinds DEF Found
  <2>3. Len(p) # 1
    BY <1>3, <2>2 DEF Trail, Last
  <2>4. Len(p) \in Nat /\ Len(p) >= 1
    BY <2>2 DEF Trail
  <2>5. \A n \in Nat : n >= 1 /\ n # 1 => n >= 2
    OBVIOUS
  <2> QED
    BY <1>3, <2>2, <2>3, <2>4, <2>5
<1> QED
  BY <1>1, <1>2, <1>3

-----------------------------------------------------------------------------
(* Packets.                                                                *)

\* What every packet on the wire is: a header of twenty bytes and less than
\* the 65536 bytes its length field can say.
IsPacket(b) == b \in Seq(Byte) /\ Len(b) >= 20 /\ Len(b) < 65535 /\ b[1] = 69

\* Sixteen bits, and what is left of them for what a packet carries.
IsWord(n) == n \in Nat /\ n < 65536
IpData(x) == x \in Seq(Byte) /\ Len(x) <= 65514
IcmpData(x) == x \in Seq(Byte) /\ Len(x) <= 65506

\* A byte, without the interval.
LEMMA ByteIs == \A x : x \in Byte <=> x \in Nat /\ x < 256
BY DEF Byte

\* Sixteen bits in two bytes.
LEMMA U16Bytes ==
    ASSUME NEW n, IsWord(n)
    PROVE  /\ U16(n) \in Seq(Byte) /\ Len(U16(n)) = 2
           /\ U16(n)[1] = n \div 256 /\ U16(n)[2] = n % 256
           /\ U16(n)[1] * 256 + U16(n)[2] = n
<1> DEFINE q == n \div 256
           r == n % 256
<1>0. n \in Nat /\ n < 65536
  BY DEF IsWord
<1>1. q \in Nat /\ q < 256
  BY <1>0
<1>2. r \in Nat /\ r < 256
  BY <1>0
<1>3. q * 256 + r = n
  BY <1>0
<1>4. U16(n) = <<q, r>>
  BY DEF U16
<1> HIDE DEF q, r
<1>5. q \in Byte /\ r \in Byte
  BY <1>1, <1>2, ByteIs
<1> QED
  BY <1>3, <1>4, <1>5 DEF q, r

\* The checksum field of a header that is still to be summed.
LEMMA ZeroIsWord == IsWord(0)
BY DEF IsWord

\* Where the bytes of two strings are in both together.
LEMMA ConcatBytes ==
    ASSUME NEW s \in Seq(Byte), NEW r \in Seq(Byte)
    PROVE  /\ s \o r \in Seq(Byte) /\ Len(s \o r) = Len(s) + Len(r)
           /\ \A i \in 1 .. Len(s) : (s \o r)[i] = s[i]
           /\ \A i \in 1 .. Len(r) : (s \o r)[Len(s) + i] = r[i]
OBVIOUS

\* What follows the first m bytes.
LEMMA SubSeqIs ==
    ASSUME NEW S, NEW b \in Seq(S), NEW r \in Seq(S), NEW m \in Nat, Len(b) = m + Len(r),
           \A i \in 1 .. Len(r) : b[m + i] = r[i]
    PROVE  From(b, m) = r
<1> DEFINE n == Len(r)
<1>1. n \in Nat
  OBVIOUS
<1>2. \A i \in (m + 1) .. (m + n) : b[i] \in S
  <2> SUFFICES ASSUME NEW i \in (m + 1) .. (m + n) PROVE b[i] \in S
    OBVIOUS
  <2>1. i - m \in 1 .. n /\ m + (i - m) = i
    BY <1>1
  <2> QED
    BY <2>1
<1> HIDE DEF n
<1>3. /\ SubSeq(b, m + 1, m + n) \in Seq(S) /\ Len(SubSeq(b, m + 1, m + n)) = n
      /\ \A i \in 1 .. n : SubSeq(b, m + 1, m + n)[i] = b[m + i]
  <2>1. m + 1 \in Int /\ m + n \in Int /\ (m + n) - (m + 1) + 1 = n
        /\ (m + 1 <= m + n \/ n = 0)
        /\ \A i \in 1 .. n : (m + 1) + i - 1 = m + i
    BY <1>1
  <2> QED
    BY <1>2, <2>1, SubSeqProperties, SMTT(20)
<1>4. \A i \in 1 .. n : SubSeq(b, m + 1, m + n)[i] = r[i]
  BY <1>3 DEF n
<1>5. SubSeq(b, m + 1, m + n) = r
  BY <1>3, <1>4, SeqEqual DEF n
<1> QED
  BY <1>5 DEF From, n

\* It is bytes.
LEMMA FromBytes ==
    ASSUME NEW b \in Seq(Byte), NEW m \in Nat, m <= Len(b)
    PROVE  From(b, m) \in Seq(Byte) /\ Len(From(b, m)) = Len(b) - m
<1> DEFINE k == m + 1
<1>1. PICK n \in Nat : n = Len(b)
  OBVIOUS
<1>2. k \in Int /\ n \in Int /\ (IF k <= n THEN n - k + 1 ELSE 0) = n - m
  BY <1>1
<1>3. \A i \in k .. n : b[i] \in Byte
  BY <1>1
<1>4. From(b, m) = SubSeq(b, k, n)
  BY <1>1 DEF From
<1> HIDE DEF k
<1>5. SubSeq(b, k, n) \in Seq(Byte) /\ Len(SubSeq(b, k, n)) = n - m
  BY <1>2, <1>3, SubSeqProperties
<1> QED
  BY <1>1, <1>4, <1>5

\* An address in a header.
LEMMA FourAt ==
    ASSUME NEW b \in Seq(Byte), NEW r \in Seq(Byte), Len(r) = 4,
           NEW k \in Nat, k >= 1, NEW l \in Nat, l = k + 3, l <= Len(b),
           b[k] = r[1], b[k + 1] = r[2], b[k + 2] = r[3], b[k + 3] = r[4]
    PROVE  SubSeq(b, k, l) = r
<1>1. \A i \in k .. l : b[i] \in Byte
  OBVIOUS
<1>2. l - k + 1 = 4 /\ k <= l /\ k \in Int /\ l \in Int
  OBVIOUS
<1>3. /\ SubSeq(b, k, l) \in Seq(Byte) /\ Len(SubSeq(b, k, l)) = 4
      /\ \A i \in 1 .. 4 : SubSeq(b, k, l)[i] = b[k + i - 1]
  BY <1>1, <1>2, SubSeqProperties
<1>4. \A i \in 1 .. 4 : SubSeq(b, k, l)[i] = r[i]
  <2>1. k + 1 - 1 = k /\ k + 2 - 1 = k + 1 /\ k + 3 - 1 = k + 2 /\ k + 4 - 1 = k + 3
    OBVIOUS
  <2> QED
    BY <1>3, <2>1
<1> QED
  BY <1>3, <1>4, SeqEqual

\* What is put into a packet is read out of it.
LEMMA IpRoundTrip ==
    ASSUME NEW src, IsAddress(src), NEW dst, IsAddress(dst), NEW protocol \in Byte,
           NEW data, IpData(data),
           NEW b, b = BuildIp(src, dst, protocol, data)
    PROVE  /\ IsPacket(b) /\ Len(b) = 20 + Len(data) /\ b[9] = 64 /\ b[10] = protocol
           /\ SubSeq(b, 13, 16) = src /\ SubSeq(b, 17, 20) = dst /\ From(b, 20) = data
<1> DEFINE n == Len(data)
           u == U16(20 + n)
           o == <<69, 0>>
           a == o \o u
           m == <<0, 0, 0, 0, 64, protocol, 0, 0>>
           c == a \o m
           d == c \o src
           e == d \o dst
<1>0. data \in Seq(Byte)
  BY DEF IpData
<1>1. n \in Nat /\ 20 + n >= 20 /\ IsWord(20 + n)
  BY <1>0 DEF IpData, IsWord
<1>2. o \in Seq(Byte) /\ u \in Seq(Byte) /\ m \in Seq(Byte)
  <2>1. o \in Seq(Byte)
    BY ByteIs
  <2>2. u \in Seq(Byte)
    BY <1>1, U16Bytes
  <2>3. m \in Seq(Byte)
    BY ByteIs
  <2> QED
    BY <2>1, <2>2, <2>3
<1>3. Len(o) = 2 /\ o[1] = 69 /\ Len(m) = 8 /\ m[5] = 64 /\ m[6] = protocol
  OBVIOUS
<1>4. Len(u) = 2
  BY <1>1, U16Bytes
<1>5. src \in Seq(Byte) /\ dst \in Seq(Byte)
  BY DEF IsAddress
<1>6. Len(src) = 4 /\ Len(dst) = 4
  BY DEF IsAddress
<1>7. b = e \o data
  BY DEF BuildIp
<1> HIDE DEF o, u, m, n
<1>a. a \in Seq(Byte)
  BY <1>2, ConcatBytes
<1>8. /\ Len(a) = Len(o) + Len(u)
      /\ \A i \in 1 .. Len(o) : a[i] = o[i]
  BY <1>2, ConcatBytes
<1> HIDE DEF a
<1>c. c \in Seq(Byte)
  BY <1>2, <1>a, ConcatBytes
<1>9. /\ Len(c) = Len(a) + Len(m)
      /\ \A i \in 1 .. Len(a) : c[i] = a[i]
      /\ \A i \in 1 .. Len(m) : c[Len(a) + i] = m[i]
  BY <1>2, <1>a, ConcatBytes
<1> HIDE DEF c
<1>d. d \in Seq(Byte)
  BY <1>5, <1>c, ConcatBytes
<1>10. /\ Len(d) = Len(c) + Len(src)
       /\ \A i \in 1 .. Len(c) : d[i] = c[i]
       /\ \A i \in 1 .. Len(src) : d[Len(c) + i] = src[i]
  BY <1>5, <1>c, ConcatBytes
<1> HIDE DEF d
<1>e. e \in Seq(Byte)
  BY <1>5, <1>d, ConcatBytes
<1>11. /\ Len(e) = Len(d) + Len(dst)
       /\ \A i \in 1 .. Len(d) : e[i] = d[i]
       /\ \A i \in 1 .. Len(dst) : e[Len(d) + i] = dst[i]
  BY <1>5, <1>d, ConcatBytes
<1> HIDE DEF e
<1>b. b \in Seq(Byte)
  BY <1>0, <1>7, <1>e, ConcatBytes
<1>12. /\ Len(b) = Len(e) + Len(data)
       /\ \A i \in 1 .. Len(e) : b[i] = e[i]
       /\ \A i \in 1 .. Len(data) : b[Len(e) + i] = data[i]
  BY <1>0, <1>7, <1>e, ConcatBytes
<1>13. Len(a) = 4 /\ Len(c) = 12 /\ Len(d) = 16 /\ Len(e) = 20 /\ Len(b) = 20 + n
  BY <1>3, <1>4, <1>6, <1>8, <1>9, <1>10, <1>11, <1>12 DEF n
<1>14. b[1] = 69 /\ b[9] = 64 /\ b[10] = protocol
  <2>1. a[1] = 69
    BY <1>3, <1>8
  <2>2. c[1] = 69 /\ c[9] = 64 /\ c[10] = protocol
    BY <1>3, <1>9, <1>13, <2>1
  <2>3. d[1] = 69 /\ d[9] = 64 /\ d[10] = protocol
    BY <1>10, <1>13, <2>2
  <2>4. e[1] = 69 /\ e[9] = 64 /\ e[10] = protocol
    BY <1>11, <1>13, <2>3
  <2> QED
    BY <1>12, <1>13, <2>4
<1>15. SubSeq(b, 13, 16) = src
  <2>1. d[13] = src[1] /\ d[14] = src[2] /\ d[15] = src[3] /\ d[16] = src[4]
    BY <1>6, <1>10, <1>13
  <2>2. b[13] = src[1] /\ b[14] = src[2] /\ b[15] = src[3] /\ b[16] = src[4]
    BY <1>11, <1>12, <1>13, <2>1, SMTT(20)
  <2> QED
    BY <1>1, <1>5, <1>6, <1>b, <1>13, <2>2, FourAt
<1>16. SubSeq(b, 17, 20) = dst
  <2>1. e[17] = dst[1] /\ e[18] = dst[2] /\ e[19] = dst[3] /\ e[20] = dst[4]
    BY <1>6, <1>11, <1>13
  <2>2. b[17] = dst[1] /\ b[18] = dst[2] /\ b[19] = dst[3] /\ b[20] = dst[4]
    BY <1>12, <1>13, <2>1
  <2> QED
    BY <1>1, <1>5, <1>6, <1>b, <1>13, <2>2, FourAt
<1>17. From(b, 20) = data
  <2>1. Len(b) = 20 + Len(data) /\ \A i \in 1 .. Len(data) : b[20 + i] = data[i]
    BY <1>12, <1>13 DEF n
  <2> QED
    BY <1>0, <1>b, <2>1, SubSeqIs
<1>18. IsPacket(b)
  <2>1. n \in Nat /\ 20 + n < 65535 /\ 20 + n >= 20
    <3>1. PICK k \in Nat : k = Len(data) /\ k <= 65514
      BY DEF IpData
    <3> QED
      BY <3>1 DEF n
  <2> QED
    BY <1>b, <1>13, <1>14, <2>1 DEF IsPacket
<1> QED
  BY <1>13, <1>14, <1>15, <1>16, <1>17, <1>18 DEF n

\* The fields of a packet.
LEMMA PacketFields ==
    ASSUME NEW b, IsPacket(b)
    PROVE  /\ ParseIp(b) = [version |-> 4, ttl |-> b[9], protocol |-> b[10],
                            src |-> SubSeq(b, 13, 16), dst |-> SubSeq(b, 17, 20),
                            data |-> From(b, 20)]
           /\ ParseIp(b) # ShortPacket
           /\ b[9] \in Byte /\ b[10] \in Byte
           /\ From(b, 20) \in Seq(Byte) /\ Len(From(b, 20)) = Len(b) - 20
<1>1. b \in Seq(Byte) /\ Len(b) \in Nat /\ Len(b) >= 20 /\ b[1] = 69
  BY DEF IsPacket
<1>2. 69 \div 16 = 4 /\ (69 % 16) * 4 = 20
  OBVIOUS
<1>3. ParseIp(b) = [version |-> 4, ttl |-> b[9], protocol |-> b[10],
                    src |-> SubSeq(b, 13, 16), dst |-> SubSeq(b, 17, 20), data |-> From(b, 20)]
  <2>1. ~(Len(b) < 20)
    BY <1>1
  <2> QED
    BY <1>1, <1>2, <2>1 DEF ParseIp
<1>4. ParseIp(b).version = 4 /\ ShortPacket.version = -1
  BY <1>3 DEF ShortPacket
<1>5. From(b, 20) \in Seq(Byte) /\ Len(From(b, 20)) = Len(b) - 20
  BY <1>1, FromBytes
<1>6. ParseIp(b) # ShortPacket
  <2>1. 4 # -1
    OBVIOUS
  <2> QED
    BY <1>4, <2>1
<1> QED
  BY <1>1, <1>3, <1>5, <1>6

\* Fields that agree byte by byte are the same.
LEMMA SubSeqSame ==
    ASSUME NEW b \in Seq(Byte), NEW d \in Seq(Byte), NEW k \in Nat, k >= 1, NEW l \in Nat,
           l <= Len(b), l <= Len(d), \A i \in k .. l : d[i] = b[i]
    PROVE  SubSeq(d, k, l) = SubSeq(b, k, l)
<1>1. \A i \in k .. l : b[i] \in Byte /\ d[i] \in Byte
  OBVIOUS
<1> DEFINE n == IF k <= l THEN l - k + 1 ELSE 0
<1>2. k \in Int /\ l \in Int /\ n \in Nat
  OBVIOUS
<1>3. /\ SubSeq(b, k, l) \in Seq(Byte) /\ Len(SubSeq(b, k, l)) = n
      /\ \A i \in 1 .. l - k + 1 : SubSeq(b, k, l)[i] = b[k + i - 1]
  BY <1>1, <1>2, SubSeqProperties
<1>4. /\ SubSeq(d, k, l) \in Seq(Byte) /\ Len(SubSeq(d, k, l)) = n
      /\ \A i \in 1 .. l - k + 1 : SubSeq(d, k, l)[i] = d[k + i - 1]
  BY <1>1, <1>2, SubSeqProperties
<1>5. ASSUME NEW i \in 1 .. n PROVE SubSeq(d, k, l)[i] = SubSeq(b, k, l)[i]
  <2>1. i \in 1 .. l - k + 1 /\ k + i - 1 \in k .. l
    OBVIOUS
  <2> QED
    BY <1>3, <1>4, <2>1
<1> HIDE DEF n
<1> QED
  BY <1>3, <1>4, <1>5, SeqEqual

\* A packet that has passed k routers: less TTL, and a checksum of zero.
Travelled(b, d, k) ==
    /\ IsPacket(d) /\ Len(d) = Len(b) /\ d[9] = b[9] - k
    /\ \A i \in 1 .. Len(b) : i \notin {9, 11, 12} => d[i] = b[i]

\* One hop leaves a packet a packet, with one TTL less.
LEMMA DecrementIsPacket ==
    ASSUME NEW b, IsPacket(b)
    PROVE  /\ IsPacket(DecrementTtl(b))
           /\ b[9] > 0 => Travelled(b, DecrementTtl(b), 1)
<1> DEFINE d == [i \in 1 .. Len(b) |-> CASE i = 9 /\ b[9] > 0 -> b[9] - 1
                                         [] i \in {11, 12}    -> 0
                                         [] OTHER             -> b[i]]
<1>1. b \in Seq(Byte) /\ Len(b) \in Nat /\ Len(b) >= 20 /\ Len(b) < 65535 /\ b[1] = 69
  BY DEF IsPacket
<1>2. DecrementTtl(b) = d
  <2>1. DOMAIN b = 1 .. Len(b) /\ ~(Len(b) < 9)
    BY <1>1
  <2> QED
    BY <2>1 DEF DecrementTtl
<1>3. \A i \in 1 .. Len(b) : b[i] \in Nat /\ b[i] < 256
  BY <1>1, ByteIs
<1>4. PICK n \in Nat : n = Len(b) /\ n >= 20
  BY <1>1
<1>5. \A i \in 1 .. n : d[i] \in Byte
  <2> SUFFICES ASSUME NEW i \in 1 .. n PROVE d[i] \in Nat /\ d[i] < 256
    BY ByteIs
  <2>1. CASE i = 9 /\ b[9] > 0
    BY <1>3, <1>4, <2>1
  <2>2. CASE i # 9 /\ i \in {11, 12}
    BY <1>4, <2>2
  <2>3. CASE ~(i = 9 /\ b[9] > 0) /\ i \notin {11, 12}
    BY <1>3, <1>4, <2>3
  <2> QED
    BY <2>1, <2>2, <2>3
<1>6. d \in Seq(Byte) /\ Len(d) = n
  <2>1. d \in [1 .. n -> Byte]
    BY <1>4, <1>5
  <2> HIDE DEF d
  <2> QED
    BY <2>1
<1>7. \A i \in 1 .. n : i \notin {9, 11, 12} => d[i] = b[i]
  BY <1>4
<1>8. b[9] > 0 => d[9] = b[9] - 1
  BY <1>4
<1>9. d[1] = b[1]
  BY <1>4, <1>7
<1> HIDE DEF d
<1>10. IsPacket(d)
  BY <1>1, <1>4, <1>6, <1>9 DEF IsPacket
<1> QED
  BY <1>2, <1>4, <1>6, <1>7, <1>8, <1>10 DEF Travelled

\* One hop more.
LEMMA TravelledOn ==
    ASSUME NEW b, IsPacket(b), NEW c, NEW k \in Nat, Travelled(b, c, k), NEW d, Travelled(c, d, 1)
    PROVE  Travelled(b, d, k + 1)
<1>1. b[9] \in Nat
  BY PacketFields, ByteIs
<1>2. /\ IsPacket(d) /\ Len(d) = Len(b) /\ c[9] = b[9] - k /\ d[9] = c[9] - 1
      /\ \A i \in 1 .. Len(b) : i \notin {9, 11, 12} => d[i] = b[i]
  BY DEF Travelled
<1>3. d[9] = b[9] - (k + 1)
  BY <1>1, <1>2
<1> QED
  BY <1>2, <1>3 DEF Travelled

\* As many hops as the TTL allows.
LEMMA DecrementedTravels ==
    ASSUME NEW b, IsPacket(b), NEW n \in Nat, n <= b[9]
    PROVE  Travelled(b, Decremented(b, n), n)
<1> DEFINE P == {x \in Seq(Byte) : IsPacket(x)}
           step == [k \in 1 .. n |-> [x \in P |-> DecrementTtl(x)]]
           after == CHOOSE f : f = [k \in 0 .. n |-> IF k = 0 THEN b ELSE DecrementTtl(f[k - 1])]
<1>1. b \in P /\ \A x \in P : DecrementTtl(x) \in P
  <2>1. \A x : IsPacket(x) => x \in P
    BY DEF IsPacket
  <2> QED
    BY <2>1, DecrementIsPacket
<1>2. Decremented(b, n) = after[n]
  BY DEF Decremented
<1>p. \A x \in P : IsPacket(x)
  OBVIOUS
<1> HIDE DEF P
<1>3. \A k \in 1 .. n : \A x \in P : step[k][x] = DecrementTtl(x) /\ step[k][x] \in P
  BY <1>1
<1> HIDE DEF step
<1>4. PICK f : Computes(f, b, step, n)
  BY RecursionExists
<1>5. \A k \in 0 .. n : f[k] \in P
  <2>1. f[0] \in P /\ \A k \in 1 .. n : f[k - 1] \in P => f[k] \in P
    BY <1>1, <1>3, <1>4 DEF Computes
  <2> QED
    BY <2>1, StaysIn
<1>6. f = [k \in 0 .. n |-> IF k = 0 THEN b ELSE DecrementTtl(f[k - 1])]
  <2>1. \A k \in 0 .. n : (IF k = 0 THEN b ELSE step[k][f[k - 1]])
                          = IF k = 0 THEN b ELSE DecrementTtl(f[k - 1])
    BY <1>3, <1>5
  <2> QED
    BY <1>4, <2>1 DEF Computes
<1>7. after = [k \in 0 .. n |-> IF k = 0 THEN b ELSE DecrementTtl(after[k - 1])]
  BY <1>6
<1> HIDE DEF after
<1> DEFINE S == {k \in 0 .. n : Travelled(b, after[k], k)}
<1>8. b[9] \in Nat
  BY PacketFields, ByteIs
<1>9. 0 \in S
  <2>1. after[0] = b /\ 0 \in 0 .. n
    BY <1>7
  <2>2. Travelled(b, b, 0)
    BY <1>8 DEF Travelled
  <2> QED
    BY <2>1, <2>2
<1>10. ASSUME NEW k \in 1 .. n, k - 1 \in S PROVE k \in S
  <2>1. Travelled(b, after[k - 1], k - 1) /\ k - 1 \in Nat /\ (k - 1) + 1 = k
    BY <1>10
  <2>2. IsPacket(after[k - 1]) /\ after[k - 1][9] > 0
    BY <1>8, <2>1 DEF Travelled
  <2>3. after[k] = DecrementTtl(after[k - 1])
    BY <1>7
  <2>4. Travelled(after[k - 1], after[k], 1)
    BY <2>2, <2>3, DecrementIsPacket
  <2>5. Travelled(b, after[k], (k - 1) + 1)
    BY <2>1, <2>4, TravelledOn
  <2> QED
    BY <2>1, <2>5
<1> HIDE DEF S
<1>11. n \in S
  BY <1>9, <1>10, UpTo
<1> QED
  BY <1>2, <1>11 DEF S

\* It still says what it said.
LEMMA TravelledSays ==
    ASSUME NEW b, IsPacket(b), NEW d, NEW k \in Nat, Travelled(b, d, k)
    PROVE  ParseIp(d) = [ParseIp(b) EXCEPT !.ttl = @ - k]
<1>1. /\ b \in Seq(Byte) /\ d \in Seq(Byte) /\ Len(d) = Len(b) /\ Len(b) \in Nat /\ Len(b) >= 20
      /\ d[9] = b[9] - k /\ IsPacket(d)
      /\ \A i \in 1 .. Len(b) : i \notin {9, 11, 12} => d[i] = b[i]
  BY DEF Travelled, IsPacket
<1>2. PICK n \in Nat : n = Len(b) /\ n >= 20
  BY <1>1
<1>3. \A i \in 13 .. n : d[i] = b[i]
  BY <1>1, <1>2
<1>4. d[10] = b[10]
  BY <1>1, <1>2
<1>5. SubSeq(d, 13, 16) = SubSeq(b, 13, 16)
  <2>1. \A i \in 13 .. 16 : d[i] = b[i]
    BY <1>2, <1>3
  <2> QED
    BY <1>1, <1>2, <2>1, SubSeqSame
<1>6. SubSeq(d, 17, 20) = SubSeq(b, 17, 20)
  <2>1. \A i \in 17 .. 20 : d[i] = b[i]
    BY <1>2, <1>3
  <2> QED
    BY <1>1, <1>2, <2>1, SubSeqSame
<1>7. From(d, 20) = From(b, 20)
  <2> DEFINE j == 20 + 1
  <2>1. \A i \in j .. n : d[i] = b[i]
    BY <1>2, <1>3
  <2>2. j \in Nat /\ j >= 1
    OBVIOUS
  <2>3. From(d, 20) = SubSeq(d, j, n) /\ From(b, 20) = SubSeq(b, j, n)
    BY <1>1, <1>2 DEF From
  <2>4. n <= Len(b) /\ n <= Len(d)
    BY <1>1, <1>2
  <2> HIDE DEF j
  <2>5. b \in Seq(Byte) /\ d \in Seq(Byte)
    BY <1>1
  <2>6. SubSeq(d, j, n) = SubSeq(b, j, n)
    BY <2>1, <2>2, <2>4, <2>5, SubSeqSame
  <2> QED
    BY <2>3, <2>6
<1>8. ParseIp(b) = [version |-> 4, ttl |-> b[9], protocol |-> b[10], src |-> SubSeq(b, 13, 16),
                    dst |-> SubSeq(b, 17, 20), data |-> From(b, 20)]
  BY PacketFields
<1>9. ParseIp(d) = [version |-> 4, ttl |-> d[9], protocol |-> d[10], src |-> SubSeq(d, 13, 16),
                    dst |-> SubSeq(d, 17, 20), data |-> From(d, 20)]
  BY <1>1, PacketFields
<1>10. ParseIp(d) = [version |-> 4, ttl |-> b[9] - k, protocol |-> b[10], src |-> SubSeq(b, 13, 16),
                     dst |-> SubSeq(b, 17, 20), data |-> From(b, 20)]
  BY <1>1, <1>4, <1>5, <1>6, <1>7, <1>9
<1> QED
  BY <1>8, <1>10

-----------------------------------------------------------------------------
(* What packets carry.                                                     *)

\* The running sums of the words of a message.
Sums(b, f) ==
    /\ f[0] = 0 /\ f[Len(b) \div 2] = WordSum(b)
    /\ \A k \in 0 .. (Len(b) \div 2) : f[k] \in Nat
    /\ \A k \in 1 .. (Len(b) \div 2) : f[k] = f[k - 1] + At16(b, 2 * k - 1)

\* Half of a length, and the two bytes of a word.
LEMMA WordsOf ==
    ASSUME NEW b \in Seq(Byte)
    PROVE  /\ Len(b) \div 2 \in Nat
           /\ \A k \in 1 .. (Len(b) \div 2) :
                /\ 2 * k - 1 \in 1 .. Len(b) /\ 2 * k \in 1 .. Len(b)
                /\ At16(b, 2 * k - 1) \in Nat
<1>1. PICK n \in Nat : n = Len(b)
  OBVIOUS
<1>2. PICK w : w = n \div 2
  OBVIOUS
<1>3. w \in Nat /\ 2 * w <= n
  BY <1>2
<1>4. ASSUME NEW k \in 1 .. w
      PROVE  2 * k - 1 \in 1 .. n /\ 2 * k \in 1 .. n
  BY <1>3
<1>5. \A i \in 1 .. n : b[i] \in Nat
  BY <1>1, ByteIs
<1>6. ASSUME NEW k \in 1 .. w
      PROVE  At16(b, 2 * k - 1) \in Nat
  <2>1. 2 * k - 1 + 1 = 2 * k
    BY <1>3
  <2>2. b[2 * k - 1] \in Nat /\ b[2 * k] \in Nat
    BY <1>4, <1>5
  <2> QED
    BY <2>1, <2>2 DEF At16
<1> QED
  BY <1>1, <1>2, <1>3, <1>4, <1>6

\* There are such sums, and the last of them is the sum of the words.
LEMMA SumsExist ==
    ASSUME NEW b \in Seq(Byte)
    PROVE  \E f : Sums(b, f)
<1> DEFINE words == Len(b) \div 2
           step == [k \in 1 .. words |-> [x \in Nat |-> x + At16(b, 2 * k - 1)]]
           sum == CHOOSE f : f = [k \in 0 .. words |->
                                    IF k = 0 THEN 0 ELSE f[k - 1] + At16(b, 2 * k - 1)]
<1>2. words \in Nat
  BY WordsOf
<1>3. \A k \in 1 .. words : At16(b, 2 * k - 1) \in Nat
  BY WordsOf
<1>4. WordSum(b) = sum[words]
  BY DEF WordSum
<1>w. words = Len(b) \div 2
  OBVIOUS
<1> HIDE DEF words
<1>5. \A k \in 1 .. words : \A x \in Nat : step[k][x] = x + At16(b, 2 * k - 1) /\ step[k][x] \in Nat
  BY <1>3
<1> HIDE DEF step
<1>6. PICK f : Computes(f, 0, step, words)
  BY <1>2, RecursionExists
<1>7. \A k \in 0 .. words : f[k] \in Nat
  <2>1. f[0] \in Nat /\ \A k \in 1 .. words : f[k - 1] \in Nat => f[k] \in Nat
    BY <1>2, <1>5, <1>6 DEF Computes
  <2> QED
    BY <1>2, <2>1, StaysIn
<1>8. f = [k \in 0 .. words |-> IF k = 0 THEN 0 ELSE f[k - 1] + At16(b, 2 * k - 1)]
  <2>1. \A k \in 0 .. words : (IF k = 0 THEN 0 ELSE step[k][f[k - 1]])
                              = IF k = 0 THEN 0 ELSE f[k - 1] + At16(b, 2 * k - 1)
    BY <1>2, <1>5, <1>7
  <2> QED
    BY <1>6, <2>1 DEF Computes
<1>9. sum = [k \in 0 .. words |-> IF k = 0 THEN 0 ELSE sum[k - 1] + At16(b, 2 * k - 1)]
  BY <1>8
<1> HIDE DEF sum
<1>10. \A k \in 0 .. words : sum[k] \in Nat
  <2>1. sum[0] \in Nat /\ \A k \in 1 .. words : sum[k - 1] \in Nat => sum[k] \in Nat
    BY <1>2, <1>3, <1>9
  <2> QED
    BY <1>2, <2>1, StaysIn
<1>11. sum[0] = 0 /\ \A k \in 1 .. words : sum[k] = sum[k - 1] + At16(b, 2 * k - 1)
  BY <1>2, <1>9
<1> QED
  BY <1>4, <1>w, <1>10, <1>11 DEF Sums

\* The sum of the words is a number.
LEMMA WordSumIsNat ==
    ASSUME NEW b \in Seq(Byte)
    PROVE  WordSum(b) \in Nat
<1>1. PICK f : Sums(b, f)
  BY SumsExist
<1>2. Len(b) \div 2 \in 0 .. (Len(b) \div 2)
  BY WordsOf
<1> QED
  BY <1>1, <1>2 DEF Sums

\* Two messages that differ in their checksum alone.
Alike(b, d) ==
    /\ Len(b) = Len(d)
    /\ \A i \in 1 .. Len(b) : i \notin {3, 4} => b[i] = d[i]

\* The sums of such messages differ by their checksums.
LEMMA SumsDiffer ==
    ASSUME NEW b \in Seq(Byte), NEW d \in Seq(Byte), Alike(b, d), 4 <= Len(b)
    PROVE  WordSum(b) + At16(d, 3) = WordSum(d) + At16(b, 3)
<1>1. PICK f : Sums(b, f)
  BY SumsExist
<1>2. PICK g : Sums(d, g)
  BY SumsExist
<1>3. PICK w : w = Len(b) \div 2
  OBVIOUS
<1>4. w \in Nat /\ w >= 2 /\ w = Len(d) \div 2
  <2>1. PICK n \in Nat : n = Len(b) /\ n >= 4
    OBVIOUS
  <2>2. n \div 2 \in Nat /\ n \div 2 >= 2
    BY <2>1
  <2> QED
    BY <1>3, <2>1, <2>2 DEF Alike
<1>5. \A k \in 0 .. w : f[k] \in Nat /\ g[k] \in Nat
  BY <1>1, <1>2, <1>3, <1>4 DEF Sums
<1>6. f[0] = 0 /\ g[0] = 0 /\ f[w] = WordSum(b) /\ g[w] = WordSum(d)
  BY <1>1, <1>2, <1>3, <1>4 DEF Sums
<1>7. \A k \in 1 .. w : f[k] = f[k - 1] + At16(b, 2 * k - 1) /\ g[k] = g[k - 1] + At16(d, 2 * k - 1)
  BY <1>1, <1>2, <1>3, <1>4 DEF Sums
<1>8. \A k \in 1 .. w : At16(b, 2 * k - 1) \in Nat /\ At16(d, 2 * k - 1) \in Nat
  BY <1>3, <1>4, WordsOf
<1>9. ASSUME NEW k \in 1 .. w, k # 2
      PROVE  At16(b, 2 * k - 1) = At16(d, 2 * k - 1)
  <2>1. 2 * k - 1 \in 1 .. Len(b) /\ 2 * k \in 1 .. Len(b)
    BY <1>3, WordsOf
  <2>2. 2 * k - 1 \notin {3, 4} /\ 2 * k \notin {3, 4} /\ 2 * k - 1 + 1 = 2 * k
    BY <1>4, <1>9
  <2>3. b[2 * k - 1] = d[2 * k - 1] /\ b[2 * k] = d[2 * k]
    BY <2>1, <2>2 DEF Alike
  <2> QED
    BY <2>2, <2>3 DEF At16
<1>10. PICK p \in Nat, q \in Nat : p = At16(b, 3) /\ q = At16(d, 3)
  <2>1. 2 \in 1 .. w /\ 2 * 2 - 1 = 3
    BY <1>4
  <2> QED
    BY <1>8, <2>1
<1> DEFINE S == {k \in 0 .. w : f[k] + (IF k >= 2 THEN q ELSE 0) = g[k] + (IF k >= 2 THEN p ELSE 0)}
<1>11. 0 \in S
  BY <1>4, <1>6
<1>12. ASSUME NEW k \in 1 .. w, k - 1 \in S PROVE k \in S
  <2>1. f[k - 1] \in Nat /\ g[k - 1] \in Nat /\ k \in Nat
    BY <1>4, <1>5
  <2>2. f[k - 1] + (IF k - 1 >= 2 THEN q ELSE 0) = g[k - 1] + (IF k - 1 >= 2 THEN p ELSE 0)
    BY <1>12
  <2>3. f[k] = f[k - 1] + At16(b, 2 * k - 1) /\ g[k] = g[k - 1] + At16(d, 2 * k - 1)
    BY <1>7
  <2>4. CASE k = 2
    <3>1. f[k] = f[k - 1] + p /\ g[k] = g[k - 1] + q /\ f[k - 1] = g[k - 1]
      BY <1>10, <2>1, <2>2, <2>3, <2>4
    <3> QED
      BY <1>4, <2>1, <2>4, <3>1
  <2>5. CASE k # 2
    <3>1. PICK m \in Nat : m = At16(b, 2 * k - 1) /\ m = At16(d, 2 * k - 1)
      BY <1>8, <1>9, <2>5
    <3>2. f[k] = f[k - 1] + m /\ g[k] = g[k - 1] + m
      BY <2>3, <3>1
    <3>3. PICK u \in Nat, v \in Nat : /\ u = (IF k >= 2 THEN q ELSE 0) /\ u = (IF k - 1 >= 2 THEN q ELSE 0)
                                     /\ v = (IF k >= 2 THEN p ELSE 0) /\ v = (IF k - 1 >= 2 THEN p ELSE 0)
      <4>1. CASE k >= 2
        <5>1. k - 1 >= 2
          BY <2>1, <2>5, <4>1
        <5> QED
          BY <4>1, <5>1
      <4>2. CASE ~(k >= 2)
        <5>1. ~(k - 1 >= 2)
          BY <2>1, <4>2
        <5> QED
          BY <4>2, <5>1
      <4> QED
        BY <4>1, <4>2
    <3>4. f[k - 1] + u = g[k - 1] + v
      BY <2>2, <3>3
    <3>5. f[k] + u = g[k] + v
      <4>1. PICK x \in Nat, y \in Nat : x = f[k - 1] /\ y = g[k - 1]
        BY <2>1
      <4>2. x + u = y + v /\ f[k] = x + m /\ g[k] = y + m
        BY <3>2, <3>4, <4>1
      <4>3. x + m + u = y + m + v
        BY <4>2
      <4> QED
        BY <4>2, <4>3
    <3>6. k \in 0 .. w
      BY <1>4
    <3> QED
      BY <3>3, <3>5, <3>6
  <2> QED
    BY <2>4, <2>5
<1> HIDE DEF S
<1>13. w \in S
  <2>1. w \in Nat /\ w \in 0 .. w
    BY <1>4
  <2>2. \A k \in 1 .. w : k - 1 \in S => k \in S
    BY <1>12
  <2> QED
    BY <1>11, <2>1, <2>2, UpTo
<1>14. f[w] + q = g[w] + p
  BY <1>4, <1>13 DEF S
<1> QED
  BY <1>6, <1>10, <1>14

\* What is appended to such messages leaves them so.
LEMMA ConcatAlike ==
    ASSUME NEW b \in Seq(Byte), NEW d \in Seq(Byte), NEW e \in Seq(Byte),
           Alike(b, d), 4 <= Len(b)
    PROVE  Alike(b \o e, d \o e) /\ 4 <= Len(b \o e)
           /\ b \o e \in Seq(Byte) /\ d \o e \in Seq(Byte)
<1> DEFINE x == b \o e
           y == d \o e
<1>1. /\ x \in Seq(Byte) /\ Len(x) = Len(b) + Len(e)
      /\ \A k \in 1 .. Len(b) : x[k] = b[k]
      /\ \A k \in 1 .. Len(e) : x[Len(b) + k] = e[k]
  BY ConcatBytes
<1>2. /\ y \in Seq(Byte) /\ Len(y) = Len(d) + Len(e)
      /\ \A k \in 1 .. Len(d) : y[k] = d[k]
      /\ \A k \in 1 .. Len(e) : y[Len(d) + k] = e[k]
  BY ConcatBytes
<1> HIDE DEF x, y
<1>3. PICK n \in Nat, m \in Nat : n = Len(b) /\ n = Len(d) /\ m = Len(e) /\ 4 <= n
  BY DEF Alike
<1>4. ASSUME NEW i \in 1 .. (n + m), i \notin {3, 4} PROVE x[i] = y[i]
  <2>1. CASE i <= n
    BY <1>1, <1>2, <1>3, <1>4, <2>1 DEF Alike
  <2>2. CASE ~(i <= n)
    <3>1. PICK k \in 1 .. m : i = n + k
      <4>1. i - n \in 1 .. m /\ i = n + (i - n)
        BY <2>2
      <4> QED
        BY <4>1
    <3>2. x[Len(b) + k] = e[k] /\ y[Len(d) + k] = e[k]
      BY <1>1, <1>2, <1>3
    <3> QED
      BY <1>3, <3>1, <3>2
  <2> QED
    BY <2>1, <2>2
<1>5. Len(x) = n + m /\ Len(y) = n + m /\ 4 <= n + m
  BY <1>1, <1>2, <1>3
<1>6. Alike(x, y)
  BY <1>4, <1>5 DEF Alike
<1>7. 4 <= Len(x) /\ x \in Seq(Byte) /\ y \in Seq(Byte)
  BY <1>1, <1>2, <1>5
<1> QED
  BY <1>6, <1>7 DEF x, y

\* Folded, it fits into its field.
LEMMA ChecksumIsWord ==
    ASSUME NEW b \in Seq(Byte)
    PROVE  IsWord(Checksum(b))
<1>1. PICK n \in Nat : n = WordSum(b)
  BY WordSumIsNat
<1>2. PICK q \in Nat : q = n \div 65536
  <2>1. n \div 65536 \in Int
    OBVIOUS
  <2>2. n \div 65536 >= 0
    OBVIOUS
  <2> QED
    BY <2>1, <2>2
<1>3. PICK r \in Nat : r = n % 65536
  OBVIOUS
<1>4. PICK m \in Nat : m = (q + r) % 65536 /\ m < 65536
  OBVIOUS
<1>5. Checksum(b) = 65535 - m
  BY <1>1, <1>2, <1>3, <1>4 DEF Checksum
<1> QED
  BY <1>4, <1>5 DEF IsWord

\* An ICMP message with a given checksum.
IcmpBytes(type, code, sum, id, sequence, data) ==
    <<type, code>> \o U16(sum) \o U16(id) \o U16(sequence) \o data

\* The fields of a message, whatever its checksum.
LEMMA IcmpBytesSay ==
    ASSUME NEW type \in Byte, NEW code \in Byte, NEW sum, IsWord(sum),
           NEW id, IsWord(id), NEW sequence, IsWord(sequence),
           NEW data \in Seq(Byte), NEW x, x = IcmpBytes(type, code, sum, id, sequence, data)
    PROVE  /\ x \in Seq(Byte) /\ 8 <= Len(x) /\ At16(x, 3) = sum
           /\ x[1] = type /\ At16(x, 5) = id /\ At16(x, 7) = sequence /\ From(x, 8) = data
<1> DEFINE o == <<type, code>>
           s == U16(sum)
           i == U16(id)
           q == U16(sequence)
           c == o \o s
           d == c \o i
           e == d \o q
<1>1. o \in Seq(Byte) /\ s \in Seq(Byte) /\ i \in Seq(Byte) /\ q \in Seq(Byte)
  BY U16Bytes
<1>2. Len(o) = 2 /\ o[1] = type
  OBVIOUS
<1>3. /\ Len(s) = 2 /\ Len(i) = 2 /\ Len(q) = 2
      /\ i[1] * 256 + i[2] = id /\ q[1] * 256 + q[2] = sequence
      /\ s[1] * 256 + s[2] = sum
  BY U16Bytes
<1>4. x = e \o data
  BY DEF IcmpBytes
<1> HIDE DEF o, s, i, q
<1>c. c \in Seq(Byte)
  BY <1>1, ConcatBytes
<1>5. /\ Len(c) = Len(o) + Len(s) /\ \A k \in 1 .. Len(o) : c[k] = o[k]
      /\ \A k \in 1 .. Len(s) : c[Len(o) + k] = s[k]
  BY <1>1, ConcatBytes
<1> HIDE DEF c
<1>d. d \in Seq(Byte)
  BY <1>1, <1>c, ConcatBytes
<1>6. /\ Len(d) = Len(c) + Len(i)
      /\ \A k \in 1 .. Len(c) : d[k] = c[k]
      /\ \A k \in 1 .. Len(i) : d[Len(c) + k] = i[k]
  BY <1>1, <1>c, ConcatBytes
<1> HIDE DEF d
<1>e. e \in Seq(Byte)
  BY <1>1, <1>d, ConcatBytes
<1>7. /\ Len(e) = Len(d) + Len(q)
      /\ \A k \in 1 .. Len(d) : e[k] = d[k]
      /\ \A k \in 1 .. Len(q) : e[Len(d) + k] = q[k]
  BY <1>1, <1>d, ConcatBytes
<1> HIDE DEF e
<1>x. x \in Seq(Byte)
  BY <1>4, <1>e, ConcatBytes
<1>8. /\ Len(x) = Len(e) + Len(data)
      /\ \A k \in 1 .. Len(e) : x[k] = e[k]
      /\ \A k \in 1 .. Len(data) : x[Len(e) + k] = data[k]
  BY <1>4, <1>e, ConcatBytes
<1>9. Len(c) = 4 /\ Len(d) = 6 /\ Len(e) = 8 /\ Len(x) = 8 + Len(data)
  BY <1>2, <1>3, <1>5, <1>6, <1>7, <1>8
<1>10. x[1] = type
  <2>1. c[1] = type
    BY <1>2, <1>5
  <2>2. d[1] = type
    BY <1>6, <1>9, <2>1
  <2>3. e[1] = type
    BY <1>7, <1>9, <2>2
  <2> QED
    BY <1>8, <1>9, <2>3
<1>s. At16(x, 3) = sum
  <2>1. c[3] = s[1] /\ c[4] = s[2]
    BY <1>2, <1>3, <1>5
  <2>2. d[3] = s[1] /\ d[4] = s[2]
    BY <1>6, <1>9, <2>1
  <2>3. e[3] = s[1] /\ e[4] = s[2]
    BY <1>7, <1>9, <2>2
  <2>4. x[3] = s[1] /\ x[4] = s[2]
    BY <1>8, <1>9, <2>3
  <2> QED
    BY <1>3, <2>4 DEF At16
<1>11. At16(x, 5) = id
  <2>1. d[5] = i[1] /\ d[6] = i[2]
    BY <1>3, <1>6, <1>9
  <2>2. e[5] = i[1] /\ e[6] = i[2]
    BY <1>7, <1>9, <2>1
  <2>3. x[5] = i[1] /\ x[6] = i[2]
    BY <1>8, <1>9, <2>2
  <2> QED
    BY <1>3, <2>3 DEF At16
<1>12. At16(x, 7) = sequence
  <2>1. e[7] = q[1] /\ e[8] = q[2]
    BY <1>3, <1>7, <1>9
  <2>2. x[7] = q[1] /\ x[8] = q[2]
    BY <1>8, <1>9, <2>1
  <2> QED
    BY <1>3, <2>2 DEF At16
<1>13. From(x, 8) = data
  <2>1. Len(x) = 8 + Len(data) /\ \A k \in 1 .. Len(data) : x[8 + k] = data[k]
    BY <1>8, <1>9
  <2> QED
    BY <1>x, <2>1, SubSeqIs
<1>14. 8 <= Len(x)
  <2>1. \A n \in Nat : 8 <= 8 + n
    OBVIOUS
  <2> QED
    BY <1>9, <2>1
<1> QED
  BY <1>x, <1>s, <1>14, <1>10, <1>11, <1>12, <1>13

\* Messages that were given other checksums are alike.
LEMMA IcmpBytesAlike ==
    ASSUME NEW type \in Byte, NEW code \in Byte, NEW s, IsWord(s), NEW t, IsWord(t),
           NEW id, IsWord(id), NEW sequence, IsWord(sequence), NEW data \in Seq(Byte)
    PROVE  Alike(IcmpBytes(type, code, s, id, sequence, data),
                 IcmpBytes(type, code, t, id, sequence, data))
<1> DEFINE o == <<type, code>>
           u == U16(s)
           v == U16(t)
           i == U16(id)
           q == U16(sequence)
           a == o \o u
           b == o \o v
<1>1. /\ o \in Seq(Byte) /\ u \in Seq(Byte) /\ v \in Seq(Byte)
      /\ i \in Seq(Byte) /\ q \in Seq(Byte)
  BY U16Bytes
<1>2. Len(o) = 2 /\ Len(u) = 2 /\ Len(v) = 2
  BY U16Bytes
<1>3. /\ IcmpBytes(type, code, s, id, sequence, data) = ((a \o i) \o q) \o data
      /\ IcmpBytes(type, code, t, id, sequence, data) = ((b \o i) \o q) \o data
  BY DEF IcmpBytes
<1> HIDE DEF o, u, v, i, q
<1>4. a \in Seq(Byte) /\ Len(a) = 4 /\ \A k \in 1 .. 2 : a[k] = o[k]
  <2>1. a \in Seq(Byte) /\ Len(a) = Len(o) + Len(u) /\ \A k \in 1 .. Len(o) : a[k] = o[k]
    BY <1>1, ConcatBytes
  <2> QED
    BY <1>2, <2>1
<1>5. b \in Seq(Byte) /\ Len(b) = 4 /\ \A k \in 1 .. 2 : b[k] = o[k]
  <2>1. b \in Seq(Byte) /\ Len(b) = Len(o) + Len(v) /\ \A k \in 1 .. Len(o) : b[k] = o[k]
    BY <1>1, ConcatBytes
  <2> QED
    BY <1>2, <2>1
<1> HIDE DEF a, b
<1>6. Alike(a, b) /\ 4 <= Len(a)
  BY <1>4, <1>5 DEF Alike
<1>7. /\ Alike(a \o i, b \o i) /\ 4 <= Len(a \o i)
      /\ a \o i \in Seq(Byte) /\ b \o i \in Seq(Byte)
  BY <1>1, <1>4, <1>5, <1>6, ConcatAlike
<1>8. /\ Alike((a \o i) \o q, (b \o i) \o q) /\ 4 <= Len((a \o i) \o q)
      /\ (a \o i) \o q \in Seq(Byte) /\ (b \o i) \o q \in Seq(Byte)
  BY <1>1, <1>7, ConcatAlike
<1>9. Alike(((a \o i) \o q) \o data, ((b \o i) \o q) \o data)
  BY <1>8, ConcatAlike
<1> QED
  BY <1>3, <1>9

\* A message with the checksum of its other words verifies, unless a carry of
\* the carries was forgotten.
LEMMA ChecksumVerifies ==
    ASSUME NEW b \in Seq(Byte), NEW d \in Seq(Byte), Alike(b, d), 4 <= Len(b),
           At16(b, 3) = 0, At16(d, 3) = Checksum(b)
    PROVE  Verifies(d) \/ CarryForgotten(d)
<1>1. PICK n \in Nat : n = WordSum(b)
  BY WordSumIsNat
<1>2. PICK m \in Nat : m = WordSum(d)
  BY WordSumIsNat
<1>3. PICK q \in Int, r \in Int : /\ q = n \div 65536 /\ r = n % 65536
                                  /\ n = 65536 * q + r /\ q >= 0 /\ r >= 0
  <2>1. n \div 65536 \in Int /\ n % 65536 \in Int /\ n \div 65536 >= 0 /\ n % 65536 >= 0
    OBVIOUS
  <2>2. n = 65536 * (n \div 65536) + (n % 65536)
    OBVIOUS
  <2> QED
    BY <2>1, <2>2
<1>4. Checksum(b) = 65535 - ((q + r) % 65536)
  BY <1>1, <1>3 DEF Checksum
<1>5. PICK c \in Nat : c = Checksum(b)
  BY ChecksumIsWord DEF IsWord
<1>6. n + c = m
  BY <1>1, <1>2, <1>5, SumsDiffer
<1>7. CASE q + r > 65535
  <2>1. WordSum(d) - At16(d, 3) = n
    BY <1>2, <1>5, <1>6
  <2> QED
    BY <1>3, <1>7, <2>1 DEF CarryForgotten
<1>8. CASE ~(q + r > 65535)
  <2>1. (q + r) % 65536 = q + r
    BY <1>3, <1>8
  <2>2. c = 65535 - (q + r)
    BY <1>4, <1>5, <2>1
  <2>3. m = 65535 * (q + 1)
    BY <1>3, <1>6, <2>2
  <2>4. m % 65535 = 0
    <3>1. \A k \in Int : (65535 * k) % 65535 = 0
      OBVIOUS
    <3>2. q + 1 \in Int
      BY <1>3
    <3> QED
      BY <2>3, <3>1, <3>2
  <2> QED
    BY <1>2, <2>4 DEF Verifies
<1> QED
  BY <1>7, <1>8

\* What padding leaves.
LEMMA PaddedIs ==
    ASSUME NEW data \in Seq(Byte)
    PROVE  /\ Padded(data) \in Seq(Byte)
           /\ \/ Padded(data) = data
              \/ Padded(data) = Append(data, 0) /\ Len(data) % 2 = 1
           /\ IcmpData(data) => IcmpData(Padded(data))
<1>1. PICK n \in Nat : n = Len(data)
  OBVIOUS
<1>2. CASE n % 2 = 1
  <2>1. Padded(data) = Append(data, 0)
    BY <1>1, <1>2 DEF Padded
  <2>2. Append(data, 0) \in Seq(Byte) /\ Len(Append(data, 0)) = n + 1
    BY <1>1, ByteIs
  <2>3. n <= 65506 => n + 1 <= 65506
    BY <1>2
  <2> QED
    BY <1>1, <1>2, <2>1, <2>2, <2>3 DEF IcmpData
<1>3. CASE ~(n % 2 = 1)
  <2>1. Padded(data) = data
    BY <1>1, <1>3 DEF Padded
  <2> QED
    BY <2>1
<1> QED
  BY <1>2, <1>3

\* What is put into a message of ICMP is read out of it, with its padding.
LEMMA IcmpRoundTrip ==
    ASSUME NEW type \in Byte, NEW code \in Byte,
           NEW id, IsWord(id), NEW sequence, IsWord(sequence),
           NEW data \in Seq(Byte)
    PROVE  LET x == BuildIcmp(type, code, id, sequence, data) IN
           /\ x \in Seq(Byte) /\ Len(x) = 8 + Len(Padded(data))
           /\ ParseIcmp(x).type = type /\ ParseIcmp(x).id = id
           /\ ParseIcmp(x).sequence = sequence /\ ParseIcmp(x).data = Padded(data)
           /\ ParseIcmp(x).version = 0
           /\ Verifies(x) \/ CarryForgotten(x)
<1>p. PICK p \in Seq(Byte) : p = Padded(data)
  BY PaddedIs
<1> DEFINE z == IcmpBytes(type, code, 0, id, sequence, p)
           sum == Checksum(z)
<1>0. PICK x : x = BuildIcmp(type, code, id, sequence, data)
  OBVIOUS
<1>1. z \in Seq(Byte) /\ 8 <= Len(z) /\ At16(z, 3) = 0
  BY ZeroIsWord, IcmpBytesSay
<1>2. IsWord(sum)
  BY <1>1, ChecksumIsWord
<1>3. x = IcmpBytes(type, code, sum, id, sequence, p)
  BY <1>0, <1>p DEF BuildIcmp, IcmpBytes
<1>a. Alike(z, IcmpBytes(type, code, sum, id, sequence, p))
  <2> HIDE DEF sum
  <2> QED
    BY <1>2, ZeroIsWord, IcmpBytesAlike
<1>s. sum = Checksum(z)
  OBVIOUS
<1> HIDE DEF sum, z
<1>4. /\ x \in Seq(Byte) /\ Len(x) = 8 + Len(p) /\ At16(x, 3) = sum
      /\ x[1] = type /\ At16(x, 5) = id /\ At16(x, 7) = sequence /\ From(x, 8) = p
  <2> DEFINE y == IcmpBytes(type, code, sum, id, sequence, p)
  <2>1. /\ y \in Seq(Byte) /\ 8 <= Len(y) /\ At16(y, 3) = sum
        /\ y[1] = type /\ At16(y, 5) = id /\ At16(y, 7) = sequence /\ From(y, 8) = p
    BY <1>2, IcmpBytesSay
  <2> HIDE DEF y
  <2>2. x = y
    BY <1>3 DEF y
  <2>3. Len(p) = Len(y) - 8
    BY <2>1, FromBytes
  <2>4. PICK n \in Nat : n = Len(y)
    BY <2>1
  <2> QED
    BY <2>1, <2>2, <2>3, <2>4
<1>5. ParseIcmp(x) = [version |-> 0, type |-> x[1], code |-> x[2], checksum |-> At16(x, 3),
                      id |-> At16(x, 5), sequence |-> At16(x, 7), data |-> From(x, 8)]
  <2>1. PICK n \in Nat : n = Len(p) /\ ~(8 + n < 8)
    OBVIOUS
  <2> QED
    BY <1>4, <2>1 DEF ParseIcmp
<1>6. /\ ParseIcmp(x).type = type /\ ParseIcmp(x).id = id
      /\ ParseIcmp(x).sequence = sequence /\ ParseIcmp(x).data = p
      /\ ParseIcmp(x).version = 0
  BY <1>4, <1>5
<1>7. Verifies(x) \/ CarryForgotten(x)
  <2>1. Alike(z, x) /\ 4 <= Len(z)
    <3>1. PICK n \in Nat : n = Len(z) /\ 8 <= n
      BY <1>1
    <3> QED
      BY <1>3, <1>a, <3>1
  <2> QED
    BY <1>1, <1>4, <1>s, <2>1, ChecksumVerifies
<1> QED
  BY <1>0, <1>p, <1>4, <1>6, <1>7

\* What a message that is long enough has in its fields.
LEMMA IcmpFields ==
    ASSUME NEW x \in Seq(Byte), ~IsShort(ParseIcmp(x))
    PROVE  /\ IsWord(ParseIcmp(x).id) /\ IsWord(ParseIcmp(x).sequence)
           /\ ParseIcmp(x).data \in Seq(Byte) /\ Len(x) = 8 + Len(ParseIcmp(x).data)
<1>1. PICK n \in Nat : n = Len(x)
  OBVIOUS
<1>2. n >= 8
  BY <1>1 DEF ParseIcmp, ShortPacket, IsShort
<1>3. ParseIcmp(x) = [version |-> 0, type |-> x[1], code |-> x[2], checksum |-> At16(x, 3),
                      id |-> At16(x, 5), sequence |-> At16(x, 7), data |-> From(x, 8)]
  BY <1>1, <1>2 DEF ParseIcmp
<1>4. \A i \in 1 .. n : x[i] \in Nat /\ x[i] < 256
  BY <1>1, ByteIs
<1>5. x[5] \in Nat /\ x[5] < 256 /\ x[6] \in Nat /\ x[6] < 256
      /\ x[7] \in Nat /\ x[7] < 256 /\ x[8] \in Nat /\ x[8] < 256
  BY <1>2, <1>4
<1>6. \A a, b \in Nat : a < 256 /\ b < 256 => IsWord(a * 256 + b)
  BY DEF IsWord
<1>7. IsWord(At16(x, 5)) /\ IsWord(At16(x, 7))
  <2>1. At16(x, 5) = x[5] * 256 + x[6] /\ At16(x, 7) = x[7] * 256 + x[8]
    BY DEF At16
  <2>2. IsWord(x[5] * 256 + x[6])
    BY <1>5, <1>6, Zenon
  <2>3. IsWord(x[7] * 256 + x[8])
    BY <1>5, <1>6, Zenon
  <2> QED
    BY <2>1, <2>2, <2>3, Zenon
<1>8. From(x, 8) \in Seq(Byte) /\ Len(From(x, 8)) = Len(x) - 8
  BY <1>1, <1>2, FromBytes
<1>9. Len(x) = 8 + Len(From(x, 8))
  BY <1>1, <1>8
<1> QED
  BY <1>3, <1>7, <1>8, <1>9

\* The answer to a ping, field by field.
LEMMA EchoReplySays ==
    ASSUME NEW src, IsAddress(src), NEW dst, IsAddress(dst),
           NEW id, IsWord(id), NEW sequence, IsWord(sequence),
           NEW data, IcmpData(data),
           NEW b, b = EchoReply(src, dst, id, sequence, data)
    PROVE  /\ IsPacket(b) /\ b[9] = 64
           /\ ParseIp(b).protocol = Icmp /\ ParseIp(b).src = src /\ ParseIp(b).dst = dst
           /\ ParseIcmp(ParseIp(b).data).type = 0 /\ ParseIcmp(ParseIp(b).data).id = id
           /\ ParseIcmp(ParseIp(b).data).sequence = sequence
           /\ ParseIcmp(ParseIp(b).data).data = Padded(data)
           /\ Verifies(ParseIp(b).data) \/ CarryForgotten(ParseIp(b).data)
<1> DEFINE x == BuildIcmp(0, 0, id, sequence, data)
<1>1. 0 \in Byte /\ Icmp \in Byte
  BY ByteIs DEF Icmp
<1>d. data \in Seq(Byte)
  BY DEF IcmpData
<1>2. /\ x \in Seq(Byte) /\ Len(x) = 8 + Len(Padded(data))
      /\ ParseIcmp(x).type = 0 /\ ParseIcmp(x).id = id
      /\ ParseIcmp(x).sequence = sequence /\ ParseIcmp(x).data = Padded(data)
      /\ ParseIcmp(x).version = 0
      /\ Verifies(x) \/ CarryForgotten(x)
  BY <1>1, <1>d, IcmpRoundTrip
<1>3. b = BuildIp(src, dst, Icmp, x)
  BY DEF EchoReply
<1> HIDE DEF x
<1>4. IpData(x)
  <2>1. Padded(data) \in Seq(Byte) /\ Len(Padded(data)) <= 65506
    BY <1>d, PaddedIs DEF IcmpData
  <2>2. PICK n \in Nat : n = Len(Padded(data))
    BY <2>1
  <2> QED
    BY <1>2, <2>1, <2>2 DEF IpData
<1> DEFINE c == BuildIp(src, dst, Icmp, x)
<1>c. /\ IsPacket(c) /\ c[9] = 64 /\ c[10] = Icmp
      /\ SubSeq(c, 13, 16) = src /\ SubSeq(c, 17, 20) = dst /\ From(c, 20) = x
  BY <1>1, <1>4, IpRoundTrip
<1> HIDE DEF c
<1>5. /\ IsPacket(b) /\ b[9] = 64 /\ b[10] = Icmp
      /\ SubSeq(b, 13, 16) = src /\ SubSeq(b, 17, 20) = dst /\ From(b, 20) = x
  BY <1>3, <1>c DEF c
<1>6. ParseIp(b) = [version |-> 4, ttl |-> b[9], protocol |-> b[10], src |-> SubSeq(b, 13, 16),
                    dst |-> SubSeq(b, 17, 20), data |-> From(b, 20)]
  BY <1>5, PacketFields
<1> QED
  BY <1>2, <1>5, <1>6

\* What the firewall is asked about a packet that the program can have made.
Speaks(b, src, dst) ==
    /\ IsPacket(b) /\ ParseIp(b).src = src /\ ParseIp(b).dst = dst
    /\ Payload(ParseIp(b)) # ShortPacket

\* The firewall reads no port out of ICMP.
LEMMA IcmpSpeaks ==
    ASSUME NEW ip, ip.protocol = Icmp
    PROVE  Payload(ip) = [version |-> 0, dst_port |-> NoPort] /\ Payload(ip) # ShortPacket
<1>1. Payload(ip) = [version |-> 0, dst_port |-> NoPort]
  BY DEF Payload, Icmp, Tcp, Udp
<1>2. Payload(ip).version # ShortPacket.version
  BY <1>1 DEF ShortPacket
<1> QED
  BY <1>1, <1>2

\* A packet of ICMP is one the firewall can read.
LEMMA PingSpeaks ==
    ASSUME NEW src, IsAddress(src), NEW dst, IsAddress(dst), NEW x, IpData(x)
    PROVE  Speaks(BuildIp(src, dst, Icmp, x), src, dst) /\ BuildIp(src, dst, Icmp, x)[9] = 64
<1> DEFINE b == BuildIp(src, dst, Icmp, x)
<1>1. Icmp \in Byte
  BY ByteIs DEF Icmp
<1>2. /\ IsPacket(b) /\ b[9] = 64 /\ b[10] = Icmp
      /\ SubSeq(b, 13, 16) = src /\ SubSeq(b, 17, 20) = dst
  BY <1>1, IpRoundTrip
<1> HIDE DEF b
<1>3. ParseIp(b) = [version |-> 4, ttl |-> b[9], protocol |-> b[10], src |-> SubSeq(b, 13, 16),
                    dst |-> SubSeq(b, 17, 20), data |-> From(b, 20)]
  BY <1>2, PacketFields
<1>4. Payload(ParseIp(b)) # ShortPacket
  BY <1>2, <1>3, IcmpSpeaks
<1> QED
  BY <1>2, <1>3, <1>4 DEF Speaks, b

\* A traceroute sets the TTL of such a packet to one.
LEMMA TraceSpeaks ==
    ASSUME NEW b, NEW src, NEW dst, Speaks(b, src, dst), b[9] = 64
    PROVE  Speaks([b EXCEPT ![9] = 1], src, dst)
<1> DEFINE d == [b EXCEPT ![9] = 1]
<1>1. b \in Seq(Byte) /\ Len(b) \in Nat /\ Len(b) >= 20 /\ Len(b) < 65535 /\ b[1] = 69
  BY DEF IsPacket, Speaks
<1>2. PICK n \in Nat : n = Len(b) /\ n >= 20
  BY <1>1
<1>3. d \in Seq(Byte) /\ Len(d) = n /\ d[9] = 1 /\ \A i \in 1 .. n : i # 9 => d[i] = b[i]
  <2>1. 1 \in Byte /\ 9 \in 1 .. Len(b)
    BY <1>2, ByteIs
  <2> QED
    BY <1>1, <1>2, <2>1, ExceptSeq
<1>4. d[1] = 69
  BY <1>1, <1>2, <1>3
<1> HIDE DEF d
<1>5. IsPacket(d)
  BY <1>1, <1>2, <1>3, <1>4 DEF IsPacket
<1>6. Travelled(b, d, 63)
  <2>1. b[9] - 63 = 1
    OBVIOUS
  <2> QED
    BY <1>2, <1>3, <1>5, <2>1 DEF Travelled
<1>7. ParseIp(d) = [ParseIp(b) EXCEPT !.ttl = @ - 63]
  BY <1>6, TravelledSays DEF Speaks
<1>8. ParseIp(b) = [version |-> 4, ttl |-> b[9], protocol |-> b[10], src |-> SubSeq(b, 13, 16),
                    dst |-> SubSeq(b, 17, 20), data |-> From(b, 20)]
  BY PacketFields DEF Speaks
<1>9. /\ ParseIp(d).src = ParseIp(b).src /\ ParseIp(d).dst = ParseIp(b).dst
      /\ ParseIp(d).protocol = ParseIp(b).protocol /\ ParseIp(d).data = ParseIp(b).data
  BY <1>7, <1>8
<1>10. Payload(ParseIp(d)) = Payload(ParseIp(b))
  BY <1>9 DEF Payload
<1> QED
  BY <1>5, <1>9, <1>10 DEF Speaks, d

\* The segment of a script that connects.
LEMMA SynBytes ==
    LET x == BuildTcp(40000, 22, 258, 0, SegmentFlags["syn"], <<>>)
    IN  x \in Seq(Byte) /\ Len(x) = 20
<1> DEFINE p == U16(40000)
           q == U16(22)
           r == U32(258)
           s == U32(0)
           f == <<80, FlagByte({"SYN"})>>
           w == U16(65535)
           z == <<0, 0, 0, 0>>
           e == <<>>
           c2 == p \o q
           c3 == c2 \o r
           c4 == c3 \o s
           c5 == c4 \o f
           c6 == c5 \o w
           c7 == c6 \o z
           c8 == c7 \o e
<1>0. IsWord(40000) /\ IsWord(22) /\ IsWord(65535) /\ IsWord(258)
  BY DEF IsWord
<1>1. p \in Seq(Byte) /\ Len(p) = 2 /\ q \in Seq(Byte) /\ Len(q) = 2 /\ w \in Seq(Byte) /\ Len(w) = 2
  BY <1>0, U16Bytes
<1>2. \A n : IsWord(n) => U32(n) \in Seq(Byte) /\ Len(U32(n)) = 4
  <2> SUFFICES ASSUME NEW n, IsWord(n) PROVE U32(n) \in Seq(Byte) /\ Len(U32(n)) = 4
    OBVIOUS
  <2>1. n \div 65536 = 0
    BY DEF IsWord
  <2>2. n % 65536 = n
    BY DEF IsWord
  <2>3. U16(0) \in Seq(Byte) /\ U16(n) \in Seq(Byte)
    BY ZeroIsWord, U16Bytes
  <2>4. Len(U16(0)) = 2 /\ Len(U16(n)) = 2
    BY ZeroIsWord, U16Bytes
  <2>5. /\ U16(0) \o U16(n) \in Seq(Byte)
        /\ Len(U16(0) \o U16(n)) = Len(U16(0)) + Len(U16(n))
    BY <2>3, ConcatBytes
  <2> QED
    BY <2>1, <2>2, <2>4, <2>5 DEF U32
<1>3. r \in Seq(Byte) /\ Len(r) = 4 /\ s \in Seq(Byte) /\ Len(s) = 4
  BY <1>0, <1>2, ZeroIsWord
<1>4. FlagByte({"SYN"}) = 2
  BY DEF FlagByte, FlagBit
<1>5. f \in Seq(Byte) /\ Len(f) = 2 /\ z \in Seq(Byte) /\ Len(z) = 4 /\ e \in Seq(Byte) /\ Len(e) = 0
  BY <1>4, ByteIs
<1>6. BuildTcp(40000, 22, 258, 0, SegmentFlags["syn"], <<>>) = c8
  BY SMTT(20) DEF BuildTcp, SegmentFlags
<1> HIDE DEF p, q, r, s, f, w, z, e
<1>7. c2 \in Seq(Byte) /\ Len(c2) = Len(p) + Len(q)
  BY <1>1, ConcatBytes
<1> HIDE DEF c2
<1>8. c3 \in Seq(Byte) /\ Len(c3) = Len(c2) + Len(r)
  BY <1>3, <1>7, ConcatBytes
<1> HIDE DEF c3
<1>9. c4 \in Seq(Byte) /\ Len(c4) = Len(c3) + Len(s)
  BY <1>3, <1>8, ConcatBytes
<1> HIDE DEF c4
<1>10. c5 \in Seq(Byte) /\ Len(c5) = Len(c4) + Len(f)
  BY <1>5, <1>9, ConcatBytes
<1> HIDE DEF c5
<1>11. c6 \in Seq(Byte) /\ Len(c6) = Len(c5) + Len(w)
  BY <1>1, <1>10, ConcatBytes
<1> HIDE DEF c6
<1>12. c7 \in Seq(Byte) /\ Len(c7) = Len(c6) + Len(z)
  BY <1>5, <1>11, ConcatBytes
<1> HIDE DEF c7
<1>13. c8 \in Seq(Byte) /\ Len(c8) = Len(c7) + Len(e)
  BY <1>5, <1>12, ConcatBytes
<1> HIDE DEF c8
<1>14. Len(c8) = 20
  BY <1>1, <1>3, <1>5, <1>7, <1>8, <1>9, <1>10, <1>11, <1>12, <1>13
<1> QED
  BY <1>6, <1>13, <1>14

\* The datagram of a script that asks for a name.
LEMMA DnsBytes ==
    LET x == BuildUdp(40000, 53, <<1>>)
    IN  x \in Seq(Byte) /\ Len(x) = 9
<1> DEFINE p == U16(40000)
           q == U16(53)
           l == U16(9)
           z == <<0, 0>>
           e == <<1>>
           c2 == p \o q
           c3 == c2 \o l
           c4 == c3 \o z
           c5 == c4 \o e
<1>0. IsWord(40000) /\ IsWord(53) /\ IsWord(9)
  BY DEF IsWord
<1>1. p \in Seq(Byte) /\ Len(p) = 2 /\ q \in Seq(Byte) /\ Len(q) = 2 /\ l \in Seq(Byte) /\ Len(l) = 2
  BY <1>0, U16Bytes
<1>2. z \in Seq(Byte) /\ Len(z) = 2 /\ e \in Seq(Byte) /\ Len(e) = 1
  BY ByteIs
<1>3. BuildUdp(40000, 53, <<1>>) = c5
  <2>1. 8 + Len(<<1>>) = 9
    OBVIOUS
  <2> QED
    BY <2>1 DEF BuildUdp
<1> HIDE DEF p, q, l, z, e
<1>4. c2 \in Seq(Byte) /\ Len(c2) = Len(p) + Len(q)
  BY <1>1, ConcatBytes
<1> HIDE DEF c2
<1>5. c3 \in Seq(Byte) /\ Len(c3) = Len(c2) + Len(l)
  BY <1>1, <1>4, ConcatBytes
<1> HIDE DEF c3
<1>6. c4 \in Seq(Byte) /\ Len(c4) = Len(c3) + Len(z)
  BY <1>2, <1>5, ConcatBytes
<1> HIDE DEF c4
<1>7. c5 \in Seq(Byte) /\ Len(c5) = Len(c4) + Len(e)
  BY <1>2, <1>6, ConcatBytes
<1> HIDE DEF c5
<1>8. Len(c5) = 9
  BY <1>1, <1>2, <1>4, <1>5, <1>6, <1>7
<1> QED
  BY <1>3, <1>7, <1>8

\* A message of ICMP in a packet.
LEMMA EchoSpeaks ==
    ASSUME NEW src, IsAddress(src), NEW dst, IsAddress(dst), NEW type \in Byte, NEW code \in Byte,
           NEW id, IsWord(id), NEW sequence, IsWord(sequence),
           NEW data, IcmpData(data)
    PROVE  LET b == BuildIp(src, dst, Icmp, BuildIcmp(type, code, id, sequence, data))
           IN  Speaks(b, src, dst) /\ b[9] = 64
<1> DEFINE x == BuildIcmp(type, code, id, sequence, data)
<1>0. data \in Seq(Byte)
  BY DEF IcmpData
<1>1. x \in Seq(Byte) /\ Len(x) = 8 + Len(Padded(data))
  BY <1>0, IcmpRoundTrip
<1> HIDE DEF x
<1>2. IpData(x)
  <2>1. Padded(data) \in Seq(Byte) /\ Len(Padded(data)) <= 65506
    BY <1>0, PaddedIs DEF IcmpData
  <2>2. PICK n \in Nat : n = Len(Padded(data))
    BY <2>1
  <2> QED
    BY <1>1, <2>1, <2>2 DEF IpData
<1> QED
  BY <1>2, PingSpeaks DEF x

\* A segment or datagram that is long enough, in a packet.
LEMMA TransportSpeaks ==
    ASSUME NEW src, IsAddress(src), NEW dst, IsAddress(dst), NEW x, IpData(x),
           NEW protocol \in Byte,
           protocol = Tcp => ~(Len(x) < 20), protocol = Udp => ~(Len(x) < 8)
    PROVE  Speaks(BuildIp(src, dst, protocol, x), src, dst)
<1> DEFINE b == BuildIp(src, dst, protocol, x)
<1>1. /\ IsPacket(b) /\ b[10] = protocol /\ From(b, 20) = x
      /\ SubSeq(b, 13, 16) = src /\ SubSeq(b, 17, 20) = dst
  BY IpRoundTrip
<1> HIDE DEF b
<1>2. ParseIp(b) = [version |-> 4, ttl |-> b[9], protocol |-> b[10], src |-> SubSeq(b, 13, 16),
                    dst |-> SubSeq(b, 17, 20), data |-> From(b, 20)]
  BY <1>1, PacketFields
<1>3. /\ ParseIp(b).protocol = protocol /\ ParseIp(b).data = x
      /\ ParseIp(b).src = src /\ ParseIp(b).dst = dst
  BY <1>1, <1>2
<1>4. Payload(ParseIp(b)).version = 0
  <2>1. CASE protocol = Tcp
    <3>1. ~(Len(x) < 20)
      BY <2>1
    <3>2. ParseTcp(x).version = 0
      BY <3>1 DEF ParseTcp
    <3>3. Payload(ParseIp(b)) = ParseTcp(x)
      <4> HIDE DEF b
      <4> QED
        BY <1>3, <2>1 DEF Payload, Tcp, Udp
    <3> QED
      BY <3>2, <3>3
  <2>2. CASE protocol = Udp
    BY <1>3, <2>2 DEF Payload, ParseUdp, Tcp, Udp
  <2>3. CASE protocol # Tcp /\ protocol # Udp
    BY <1>3, <2>3 DEF Payload
  <2> QED
    BY <2>1, <2>2, <2>3
<1>5. Payload(ParseIp(b)) # ShortPacket
  BY <1>4 DEF ShortPacket
<1> QED
  BY <1>1, <1>3, <1>5 DEF Speaks, b

\* Every packet the scripts write is whole, is for the addresses they gave, and
\* has a payload the firewall can read.
LEMMA CraftedSpeaks ==
    ASSUME NEW kind \in Kinds, NEW src, IsAddress(src), NEW dst, IsAddress(dst)
    PROVE  Speaks(Crafted(kind, src, dst), src, dst)
<1>0. 0 \in Byte /\ 8 \in Byte /\ IsWord(7) /\ IsWord(1) /\ IsWord(2)
  BY ByteIs DEF IsWord
<1>1. CASE kind = "ping"
  <2> DEFINE data == <<98, 114, 255>>
  <2>1. data \in Seq(Byte)
    BY ByteIs
  <2>2. IcmpData(data)
    BY <2>1 DEF IcmpData
  <2>3. Crafted(kind, src, dst) = BuildIp(src, dst, Icmp, BuildIcmp(8, 0, 7, 1, data))
    BY <1>1 DEF Crafted, EchoRequest
  <2> HIDE DEF data
  <2>4. /\ Speaks(BuildIp(src, dst, Icmp, BuildIcmp(8, 0, 7, 1, data)), src, dst)
        /\ BuildIp(src, dst, Icmp, BuildIcmp(8, 0, 7, 1, data))[9] = 64
    BY <1>0, <2>2, EchoSpeaks
  <2> QED
    BY <2>3, <2>4
<1>2. CASE kind = "trace"
  <2> DEFINE data == <<>>
             b == BuildIp(src, dst, Icmp, BuildIcmp(8, 0, 7, 2, data))
  <2>1. data \in Seq(Byte)
    OBVIOUS
  <2>2. IcmpData(data)
    BY <2>1 DEF IcmpData
  <2>3. Crafted(kind, src, dst) = [b EXCEPT ![9] = 1]
    BY <1>2 DEF Crafted, EchoRequest
  <2> HIDE DEF data
  <2>4. Speaks(b, src, dst) /\ b[9] = 64
    BY <1>0, <2>2, EchoSpeaks
  <2> HIDE DEF b
  <2>5. Speaks([b EXCEPT ![9] = 1], src, dst)
    BY <2>4, TraceSpeaks
  <2> QED
    BY <2>3, <2>5
<1>3. CASE kind = "syn"
  <2> DEFINE x == BuildTcp(40000, 22, 258, 0, SegmentFlags["syn"], <<>>)
  <2>0. x \in Seq(Byte)
    BY SynBytes
  <2>1. Len(x) = 20
    BY SynBytes
  <2>2. Crafted(kind, src, dst) = BuildIp(src, dst, Tcp, x)
    BY <1>3 DEF Crafted, TcpSegment
  <2> HIDE DEF x
  <2>3. IpData(x) /\ ~(Len(x) < 20) /\ ~(Len(x) < 8)
    BY <2>0, <2>1 DEF IpData
  <2>4. Tcp \in Byte
    BY ByteIs DEF Tcp
  <2>5. Speaks(BuildIp(src, dst, Tcp, x), src, dst)
    BY <2>3, <2>4, TransportSpeaks
  <2> QED
    BY <2>2, <2>5
<1>4. CASE kind = "dns"
  <2> DEFINE x == BuildUdp(40000, 53, <<1>>)
  <2>0. x \in Seq(Byte)
    BY DnsBytes
  <2>1. Len(x) = 9
    BY DnsBytes
  <2>2. Crafted(kind, src, dst) = BuildIp(src, dst, Udp, x)
    BY <1>4 DEF Crafted, UdpDatagram
  <2> HIDE DEF x
  <2>3. IpData(x) /\ ~(Len(x) < 8)
    BY <2>0, <2>1 DEF IpData
  <2>4. Udp \in Byte /\ Udp # Tcp
    BY ByteIs DEF Tcp, Udp
  <2>5. Speaks(BuildIp(src, dst, Udp, x), src, dst)
    BY <2>3, <2>4, TransportSpeaks
  <2> QED
    BY <2>2, <2>5
<1>5. CASE kind = "runt"
  <2> DEFINE x == <<8, 0>>
  <2>1. x \in Seq(Byte)
    BY ByteIs
  <2>2. IpData(x)
    BY <2>1 DEF IpData
  <2>3. Crafted(kind, src, dst) = BuildIp(src, dst, Icmp, x)
    BY <1>5 DEF Crafted
  <2> HIDE DEF x
  <2>4. Speaks(BuildIp(src, dst, Icmp, x), src, dst)
    BY <2>2, PingSpeaks
  <2> QED
    BY <2>3, <2>4
<1>6. CASE kind = "odd"
  <2> DEFINE x == <<8, 0, 0, 0, 0, 7, 0, 3, 98>>
  <2>1. x \in Seq(Byte)
    BY ByteIs
  <2>2. IpData(x)
    BY <2>1 DEF IpData
  <2>3. Crafted(kind, src, dst) = BuildIp(src, dst, Icmp, x)
    BY <1>6 DEF Crafted
  <2> HIDE DEF x
  <2>4. Speaks(BuildIp(src, dst, Icmp, x), src, dst)
    BY <2>2, PingSpeaks
  <2> QED
    BY <2>3, <2>4
<1> QED
  BY <1>1, <1>2, <1>3, <1>4, <1>5, <1>6 DEF Kinds

-----------------------------------------------------------------------------
(* The firewall.                                                           *)

\* The rule that decides is the first with an action the code knows.
Denies(rs, ip, src) ==
    \E k \in DOMAIN rs :
        /\ Applies(rs[k], ip, src) /\ rs[k].action # "ACCEPT"
        /\ \A j \in 1 .. (k - 1) : ~Applies(rs[j], ip, src)

\* Rules tell packets apart by protocol, port and source alone.
LEMMA DeniesAlike ==
    ASSUME NEW ip, NEW other, ip.protocol = other.protocol,
           Payload(ip).dst_port = Payload(other).dst_port, NEW rs, NEW src
    PROVE  Denies(rs, ip, src) <=> Denies(rs, other, src)
<1>1. \A r : Applies(r, ip, src) <=> Applies(r, other, src)
  BY DEF Applies, Concerns
<1> QED
  BY <1>1 DEF Denies

\* The first rule that applies decides.
LEMMA FirewallDecides ==
    ASSUME NEW S, NEW rs \in Seq(S), NEW b, Payload(ParseIp(b)) # ShortPacket, NEW src
    PROVE  CheckPacketFirewall(b, rs, src) <=> ~Denies(rs, ParseIp(b), src)
<1> DEFINE ip == ParseIp(b)
           A(r) == Applies(r, ip, src)
           I == {i \in 1 .. Len(rs) : A(rs[i])}
           first == IF I # {} THEN Min(I) ELSE 0
<1>1. CheckPacketFirewall(b, rs, src) <=> (first = 0 \/ rs[first].action = "ACCEPT")
  BY DEF CheckPacketFirewall, SelectInSeq
<1>2. Denies(rs, ip, src) <=>
        \E k \in DOMAIN rs : /\ A(rs[k]) /\ rs[k].action # "ACCEPT"
                             /\ \A j \in 1 .. (k - 1) : ~A(rs[j])
  BY DEF Denies
<1> HIDE DEF ip, A
<1>3. DOMAIN rs = 1 .. Len(rs) /\ Len(rs) \in Nat
  OBVIOUS
<1>4. CASE I = {}
  <2>1. first = 0
    BY <1>4
  <2>2. ~Denies(rs, ip, src)
    BY <1>2, <1>3, <1>4
  <2> QED
    BY <1>1, <2>1, <2>2 DEF ip
<1>5. CASE I # {}
  <2>1. I \in SUBSET Nat
    BY <1>3
  <2>2. first \in I /\ \A k \in I : first <= k
    <3>1. \E m \in I : \A k \in I : m <= k
      BY <1>5, <2>1, LeastNumber
    <3>2. first = CHOOSE m \in I : \A k \in I : m <= k
      BY <1>5 DEF Min
    <3> HIDE DEF I, first
    <3> QED
      BY <3>1, <3>2
  <2>3. first \in Nat /\ first # 0 /\ first \in DOMAIN rs /\ A(rs[first])
    BY <1>3, <2>2
  <2>4. \A j \in 1 .. (first - 1) : ~A(rs[j])
    <3> SUFFICES ASSUME NEW j \in 1 .. (first - 1), A(rs[j]) PROVE FALSE
      OBVIOUS
    <3>1. j \in 1 .. Len(rs) /\ j < first
      BY <1>3, <2>2, <2>3
    <3>2. j \in I
      BY <3>1
    <3> HIDE DEF I, first
    <3> QED
      BY <2>1, <2>2, <2>3, <3>1, <3>2
  <2>5. \A k \in DOMAIN rs : A(rs[k]) /\ (\A j \in 1 .. (k - 1) : ~A(rs[j])) => k = first
    <3> SUFFICES ASSUME NEW k \in DOMAIN rs, A(rs[k]), \A j \in 1 .. (k - 1) : ~A(rs[j]), k # first
                 PROVE  FALSE
      OBVIOUS
    <3>1. k \in I
      BY <1>3
    <3>2. k \in Nat /\ first < k /\ first >= 1
      <4> HIDE DEF I, first
      <4> QED
        BY <2>1, <2>2, <2>3, <3>1
    <3>3. first \in 1 .. (k - 1)
      <4> HIDE DEF I, first
      <4> QED
        BY <2>3, <3>2
    <3> QED
      BY <2>3, <3>3
  <2> HIDE DEF I, first
  <2> QED
    BY <1>1, <1>2, <2>3, <2>4, <2>5 DEF ip
<1> QED
  BY <1>4, <1>5

-----------------------------------------------------------------------------
(* The way of a packet.                                                    *)

\* Hosts of the topology have captures within their limit and queues of whole
\* packets that are for them.
Directions == {"send", "recv", "forward", "drop"}
Kept == {c \in Seq(Seq(Byte) \X Directions) : Len(c) <= CaptureLimit}
Addressed(h) == {b \in Seq(Byte) : ParseIp(b).dst \in ToSet(topo.ifaces[h])}
Inbounds == {q \in [Hosts -> Seq(Seq(Byte))] : \A h \in Hosts : q[h] \in Seq(Addressed(h))}
Stores == [inbound : Inbounds, captured : [Hosts -> Kept], sent : BOOLEAN]

\* The rules a host may ever have.
RulesIn == RuleChoices \cup UNION {ToSet(RulesOfScenario(topo, h)) : h \in Hosts}

\* The game around the queues.
World ==
    /\ topo \in Topologies /\ Len(order) \in Nat /\ up \subseteq Hosts
    /\ rules \in [Hosts -> Seq(RulesIn)]

\* The rules of the scenarios, and those that players append, have the actions
\* that the program has words for.
LEMMA ActionsAreKnown ==
    ASSUME World, NEW h \in Hosts, NEW k \in DOMAIN rules[h]
    PROVE  rules[h][k].action \in Actions
<1>1. rules[h][k] \in RulesIn
  <2>1. rules[h] \in Seq(RulesIn)
    BY DEF World
  <2> QED
    BY <2>1
<1>2. CASE rules[h][k] \in RuleChoices
  BY <1>2, RulesAssumption
<1>3. ASSUME NEW g \in Hosts, rules[h][k] \in ToSet(RulesOfScenario(topo, g))
      PROVE  rules[h][k].action \in Actions
  BY <1>3 DEF ToSet, RulesOfScenario, Rule, Actions
<1> QED
  BY <1>1, <1>2, <1>3 DEF RulesIn

\* Without the DENY rules, a reader of the table reads what the code does.
LEMMA RefusedIsDenied ==
    ASSUME World, NEW h \in Hosts, NEW ip
    PROVE  Refused(h, ip, {"DENY"}) <=> Denies(rules[h], ip, ip.src)
<1>1. ASSUME NEW k \in DOMAIN rules[h]
      PROVE  Applies(rules[h][k], ip, ip.src)
             <=> Concerns(rules[h][k], ip, ip.src) /\ rules[h][k].action # "DENY"
  <2>1. rules[h][k].action \in Actions
    BY ActionsAreKnown
  <2> QED
    BY <2>1 DEF Applies, Actions
<1>2. \A k \in DOMAIN rules[h] : \A j \in 1 .. (k - 1) : j \in DOMAIN rules[h]
  <2>1. rules[h] \in Seq(RulesIn)
    BY DEF World
  <2> QED
    BY <2>1
<1> QED
  BY <1>1, <1>2 DEF Refused, Denies

\* The condition of HopsDone on the i-th host of a path.
Passing(path, bytes, i) ==
    /\ SystemAt(topo, path[i]) \in up
    /\ i > 1 => ParseIp(bytes).ttl > i - 1

\* How far a packet comes.
LEMMA HopsDoneIs ==
    ASSUME NEW path, NEW last \in Nat, Len(path) = last + 1, NEW bytes
    PROVE  /\ HopsDone(path, bytes) \in 0 .. last
           /\ \A i \in 1 .. HopsDone(path, bytes) : Passing(path, bytes, i)
           /\ (\A i \in 1 .. last : Passing(path, bytes, i)) => HopsDone(path, bytes) = last
<1> DEFINE P(i) == Passing(path, bytes, i)
           Ends(n) == (\A i \in 1 .. n : P(i)) /\ (n < last => ~P(n + 1))
           T == {i \in 1 .. last : ~P(i)}
<1>1. HopsDone(path, bytes) = CHOOSE n \in 0 .. last : Ends(n)
  <2>1. Len(path) - 1 = last
    OBVIOUS
  <2> QED
    BY <2>1 DEF HopsDone, Passing
<1> HIDE DEF P
<1>2. \E n \in 0 .. last : Ends(n)
  <2>1. CASE T = {}
    <3>1. Ends(last)
      BY <2>1
    <3> QED
      BY <3>1
  <2>2. CASE T # {}
    <3>0. T \in SUBSET Nat
      OBVIOUS
    <3>1. PICK m \in T : \A k \in T : m <= k
      <4> HIDE DEF T
      <4> QED
        BY <2>2, <3>0, LeastNumber
    <3>2. m - 1 \in 0 .. last /\ (m - 1) + 1 = m
      OBVIOUS
    <3>3. Ends(m - 1)
      <4>1. ~P((m - 1) + 1)
        BY <3>2
      <4>2. ASSUME NEW i \in 1 .. (m - 1) PROVE P(i)
        <5>1. i \in 1 .. last /\ ~(m <= i)
          OBVIOUS
        <5> QED
          BY <3>1, <5>1
      <4> QED
        BY <4>1, <4>2
    <3> QED
      BY <3>2, <3>3
  <2> QED
    BY <2>1, <2>2
<1>3. HopsDone(path, bytes) \in 0 .. last /\ Ends(HopsDone(path, bytes))
  <2> HIDE DEF Ends
  <2> QED
    BY <1>1, <1>2
<1>4. ASSUME \A i \in 1 .. last : P(i) PROVE HopsDone(path, bytes) = last
  <2>1. PICK n \in 0 .. last : n = HopsDone(path, bytes) /\ Ends(n)
    BY <1>3
  <2>2. ~(n < last)
    <3>1. n < last => n + 1 \in 1 .. last
      OBVIOUS
    <3> QED
      BY <1>4, <2>1, <3>1
  <2> QED
    BY <2>1, <2>2
<1> QED
  BY <1>3, <1>4 DEF P

\* Capturing changes nothing but what tcpdump sees.
LEMMA CaptureKeeps ==
    ASSUME CaptureLimit \in Nat,
           NEW st \in Stores, NEW h \in Hosts, NEW b \in Seq(Byte), NEW direction \in Directions
    PROVE  /\ Capture(st, h, b, direction) \in Stores
           /\ Capture(st, h, b, direction).inbound = st.inbound
           /\ Capture(st, h, b, direction).sent = st.sent
<1> DEFINE all == Append(st.captured[h], <<b, direction>>)
           k == IF Len(all) > CaptureLimit THEN 2 ELSE 1
           c == SubSeq(all, k, Len(all))
           S == Seq(Byte) \X Directions
<1>1. /\ st = [inbound |-> st.inbound, captured |-> st.captured, sent |-> st.sent]
      /\ st.inbound \in Inbounds /\ st.captured \in [Hosts -> Kept] /\ st.sent \in BOOLEAN
  BY DEF Stores
<1>2. st.captured[h] \in Seq(S) /\ Len(st.captured[h]) <= CaptureLimit
  BY <1>1 DEF Kept
<1>3. Capture(st, h, b, direction) = [st EXCEPT !.captured[h] = c]
  BY DEF Capture
<1>4. c \in Kept
  <2>1. <<b, direction>> \in S
    OBVIOUS
  <2> HIDE DEF S
  <2>2. PICK n \in Nat : n = Len(st.captured[h]) /\ n <= CaptureLimit
    BY <1>2
  <2>3. all \in Seq(S) /\ Len(all) = n + 1
    BY <1>2, <2>1, <2>2
  <2> HIDE DEF all
  <2>4. \A i \in k .. Len(all) : all[i] \in S
    BY <2>3
  <2>5. k \in Int /\ Len(all) \in Int
    BY <2>3
  <2>6. c \in Seq(S) /\ Len(c) = IF k <= Len(all) THEN Len(all) - k + 1 ELSE 0
    BY <2>4, <2>5, SubSeqProperties
  <2>7. Len(c) <= CaptureLimit
    BY <2>2, <2>3, <2>6
  <2> QED
    BY <2>6, <2>7 DEF Kept, S
<1> HIDE DEF c
<1>5. [st EXCEPT !.captured[h] = c] =
        [inbound |-> st.inbound, captured |-> [st.captured EXCEPT ![h] = c], sent |-> st.sent]
  BY <1>1
<1>6. [st.captured EXCEPT ![h] = c] \in [Hosts -> Kept]
  BY <1>1, <1>4
<1> QED
  BY <1>1, <1>3, <1>5, <1>6 DEF Stores

\* A packet that arrives is the last in the queue of its host.
LEMMA ArriveAdds ==
    ASSUME CaptureLimit \in Nat,
           NEW st \in Stores, NEW h \in Hosts, NEW b \in Addressed(h)
    PROVE  /\ Arrive(st, h, b) \in Stores
           /\ Arrive(st, h, b).inbound = [st.inbound EXCEPT ![h] = Append(@, b)]
           /\ Arrive(st, h, b).sent = st.sent
<1> DEFINE q == [st.inbound EXCEPT ![h] = Append(@, b)]
           after == [st EXCEPT !.inbound[h] = Append(@, b)]
<1>1. /\ st = [inbound |-> st.inbound, captured |-> st.captured, sent |-> st.sent]
      /\ st.inbound \in Inbounds /\ st.captured \in [Hosts -> Kept] /\ st.sent \in BOOLEAN
  BY DEF Stores
<1>2. after = [inbound |-> q, captured |-> st.captured, sent |-> st.sent]
  BY <1>1, SMTT(20)
<1>3. q \in Inbounds
  <2>1. /\ st.inbound \in [Hosts -> Seq(Seq(Byte))]
        /\ \A g \in Hosts : st.inbound[g] \in Seq(Addressed(g))
    BY <1>1 DEF Inbounds
  <2>2. Append(st.inbound[h], b) \in Seq(Addressed(h))
    BY <2>1
  <2>3. b \in Seq(Byte)
    BY DEF Addressed
  <2>4. Append(st.inbound[h], b) \in Seq(Seq(Byte))
    <3> DEFINE S == Seq(Byte)
    <3>1. b \in S /\ st.inbound[h] \in Seq(S)
      BY <2>1, <2>3
    <3> HIDE DEF S
    <3>2. Append(st.inbound[h], b) \in Seq(S)
      BY <3>1
    <3> QED
      BY <3>2 DEF S
  <2> DEFINE a == Append(st.inbound[h], b)
  <2> HIDE DEF a
  <2>5. q = [st.inbound EXCEPT ![h] = a]
    BY DEF a
  <2> HIDE DEF q
  <2>6. q \in [Hosts -> Seq(Seq(Byte))] /\ \A g \in Hosts : q[g] = IF g = h THEN a ELSE st.inbound[g]
    BY <2>1, <2>4, <2>5 DEF a
  <2> QED
    BY <2>1, <2>2, <2>6 DEF Inbounds, a
<1>4. Arrive(st, h, b) = Capture(after, h, b, "recv")
  BY DEF Arrive
<1> HIDE DEF after, q
<1>5. after \in Stores /\ after.inbound = q /\ after.sent = st.sent
  BY <1>1, <1>2, <1>3 DEF Stores
<1>6. b \in Seq(Byte) /\ "recv" \in Directions
  BY DEF Addressed, Directions
<1> QED
  BY <1>4, <1>5, <1>6, CaptureKeeps DEF q

\* The routers capture, and queue nothing.
LEMMA OnTheWayKeeps ==
    ASSUME CaptureLimit \in Nat, NEW st \in Stores, NEW path, NEW n \in Nat,
           \A k \in 2 .. n : SystemAt(topo, path[k]) \in Hosts, NEW b \in Seq(Byte)
    PROVE  /\ CaptureOnTheWay(st, path, n, b) \in Stores
           /\ CaptureOnTheWay(st, path, n, b).inbound = st.inbound
           /\ CaptureOnTheWay(st, path, n, b).sent = st.sent
<1> DEFINE D == {r \in Stores : r.inbound = st.inbound /\ r.sent = st.sent}
           Step(k, r) == IF k <= 1 THEN st
                         ELSE Capture(r, SystemAt(topo, path[k]), b, "forward")
           step == [k \in 1 .. n |-> [r \in D |-> Step(k, r)]]
           seen == CHOOSE f : f = [k \in 0 .. n |->
                     IF k <= 1 THEN st
                     ELSE Capture(f[k - 1], SystemAt(topo, path[k]), b, "forward")]
<1>1. CaptureOnTheWay(st, path, n, b) = seen[n]
  BY DEF CaptureOnTheWay
<1>2. \A k \in 1 .. n : \A r \in D : Step(k, r) \in D
  <2> SUFFICES ASSUME NEW k \in 1 .. n, NEW r \in D PROVE Step(k, r) \in D
    OBVIOUS
  <2>1. CASE k <= 1
    BY <2>1
  <2>2. CASE ~(k <= 1)
    <3>1. SystemAt(topo, path[k]) \in Hosts /\ "forward" \in Directions
      BY <2>2 DEF Directions
    <3> DEFINE c == Capture(r, SystemAt(topo, path[k]), b, "forward")
    <3>2. c \in Stores /\ c.inbound = r.inbound /\ c.sent = r.sent
      BY <3>1, CaptureKeeps
    <3>3. Step(k, r) = c
      BY <2>2
    <3> HIDE DEF c
    <3> QED
      BY <3>2, <3>3
  <2> QED
    BY <2>1, <2>2
<1>3. st \in D
  OBVIOUS
<1>4. \A r \in D : r \in Stores /\ r.inbound = st.inbound /\ r.sent = st.sent
  OBVIOUS
<1> HIDE DEF D
<1>5. \A k \in 1 .. n : \A r \in D : step[k][r] = Step(k, r) /\ step[k][r] \in D
  BY <1>2
<1> HIDE DEF step
<1>6. PICK f : Computes(f, st, step, n)
  BY RecursionExists
<1>7. \A k \in 0 .. n : f[k] \in D
  <2>1. f[0] \in D /\ \A k \in 1 .. n : f[k - 1] \in D => f[k] \in D
    <3>1. f[0] = st
      BY <1>6 DEF Computes
    <3>2. \A k \in 1 .. n : f[k] = step[k][f[k - 1]]
      BY <1>6 DEF Computes
    <3> QED
      BY <1>3, <1>5, <3>1, <3>2
  <2> QED
    BY <2>1, StaysIn
<1>8. f = [k \in 0 .. n |-> IF k <= 1 THEN st
                            ELSE Capture(f[k - 1], SystemAt(topo, path[k]), b, "forward")]
  <2>1. \A k \in 0 .. n : (IF k = 0 THEN st ELSE step[k][f[k - 1]])
                          = IF k <= 1 THEN st
                            ELSE Capture(f[k - 1], SystemAt(topo, path[k]), b, "forward")
    <3> SUFFICES ASSUME NEW k \in 0 .. n
                 PROVE  (IF k = 0 THEN st ELSE step[k][f[k - 1]])
                        = IF k <= 1 THEN st
                          ELSE Capture(f[k - 1], SystemAt(topo, path[k]), b, "forward")
      OBVIOUS
    <3>1. CASE k = 0
      BY <3>1
    <3>2. CASE k # 0
      <4>1. k \in 1 .. n /\ k - 1 \in 0 .. n
        BY <3>2
      <4>2. step[k][f[k - 1]] = Step(k, f[k - 1])
        BY <1>5, <1>7, <4>1
      <4> QED
        BY <3>2, <4>2
    <3> QED
      BY <3>1, <3>2
  <2> QED
    BY <1>6, <2>1 DEF Computes
<1>9. seen = [k \in 0 .. n |-> IF k <= 1 THEN st
                               ELSE Capture(seen[k - 1], SystemAt(topo, path[k]), b, "forward")]
  BY <1>8
<1> HIDE DEF seen
<1>10. \A k \in 0 .. n : seen[k] \in D
  <2>1. seen[0] \in D
    BY <1>3, <1>9
  <2>2. ASSUME NEW k \in 1 .. n, seen[k - 1] \in D PROVE seen[k] \in D
    <3>1. seen[k] = Step(k, seen[k - 1])
      BY <1>9
    <3> HIDE DEF Step
    <3> QED
      BY <1>2, <2>2, <3>1
  <2> QED
    BY <2>1, <2>2, StaysIn
<1> QED
  BY <1>1, <1>4, <1>10

\* A call that has given up: nothing more happens to it.
LEMMA NotSent ==
    ASSUME NEW st \in Stores
    PROVE  /\ [st EXCEPT !.sent = FALSE] \in Stores
           /\ [st EXCEPT !.sent = FALSE].inbound = st.inbound
           /\ [st EXCEPT !.sent = FALSE].sent = FALSE
BY DEF Stores

\* send_packet answers True where the answer to the ping failed.
LEMMA SentAnyway ==
    ASSUME NEW st \in Stores
    PROVE  /\ [st EXCEPT !.sent = TRUE] \in Stores
           /\ [st EXCEPT !.sent = TRUE].inbound = st.inbound
           /\ [st EXCEPT !.sent = TRUE].sent = TRUE
BY DEF Stores

\* The addresses and hosts of a network of the game.
LEMMA TopologyFacts ==
    ASSUME topo \in Topologies, NEW ip \in AddressesOf(topo)
    PROVE  /\ IsTopology(topo) /\ IsAddress(ip) /\ SystemAt(topo, ip) \in Hosts
           /\ ip \in ToSet(topo.ifaces[SystemAt(topo, ip)])
<1>1. IsTopology(topo) /\ IsAddress(ip)
  BY TopologiesAssumption
<1>2. SystemAt(topo, ip) \in Hosts
  BY <1>1 DEF IsTopology, SystemAt, Hosts
<1>3. ip \in ToSet(topo.ifaces[SystemAt(topo, ip)])
  BY <1>1, <1>2 DEF IsTopology, Hosts
<1> QED
  BY <1>1, <1>2, <1>3

\* What the destination gets when a packet is delivered to it.
Delivered(st, r, b, src, dest, hops) ==
    /\ hops \in Nat /\ dest \in up /\ ~Denies(rules[dest], ParseIp(b), src)
    /\ \E d : /\ Travelled(b, d, hops) /\ d[9] > 0
              /\ r.inbound = [st.inbound EXCEPT ![dest] = Append(@, d)]

\* The hops, the firewall and the queue of the destination.
LEMMA CarryDoes ==
    ASSUME World, CaptureLimit \in Nat, NEW st \in Stores, st.sent = TRUE,
           NEW src, NEW dst \in AddressesOf(topo), NEW b, Speaks(b, src, dst), b[9] > 0,
           NEW path \in Seq(AddressesOf(topo)), NEW hops \in Nat, Len(path) = hops + 2
    PROVE  LET r    == Carry(st, path, b, ParseIp(b))
               dest == SystemAt(topo, dst)
           IN  /\ r \in Stores
               /\ ~r.sent => r.inbound = st.inbound
               /\ r.sent => Delivered(st, r, b, src, dest, hops)
               /\ /\ \A i \in 1 .. (hops + 1) : SystemAt(topo, path[i]) \in up
                  /\ hops < b[9] /\ dest \in up /\ ~Denies(rules[dest], ParseIp(b), src)
                  => r.sent
<1> DEFINE r == Carry(st, path, b, ParseIp(b))
           dest == SystemAt(topo, dst)
           last == hops + 1
           n == HopsDone(path, b)
           final == AfterHops(b, n)
           arrives == n = last /\ dest \in up
           open == CheckPacketFirewall(final, rules[dest], src)
           passed == CaptureOnTheWay(st, path, n, IF arrives THEN final ELSE b)
<1>1. last \in Nat /\ Len(path) = last + 1 /\ Len(path) - 1 = last
  OBVIOUS
<1>2. /\ n \in 0 .. last /\ \A i \in 1 .. n : Passing(path, b, i)
      /\ (\A i \in 1 .. last : Passing(path, b, i)) => n = last
  <2> HIDE DEF last
  <2> QED
    BY <1>1, HopsDoneIs
<1>3. /\ IsPacket(b) /\ b \in Seq(Byte) /\ ParseIp(b).src = src /\ ParseIp(b).dst = dst
      /\ Payload(ParseIp(b)) # ShortPacket
  BY DEF Speaks, IsPacket
<1>4. ParseIp(b).ttl = b[9] /\ b[9] \in Nat
  <2>1. /\ ParseIp(b) = [version |-> 4, ttl |-> b[9], protocol |-> b[10],
                         src |-> SubSeq(b, 13, 16), dst |-> SubSeq(b, 17, 20), data |-> From(b, 20)]
        /\ b[9] \in Byte
    BY <1>3, PacketFields
  <2>2. b[9] \in Nat
    BY <2>1, ByteIs
  <2> QED
    BY <2>1, <2>2
<1>5. \A k \in 2 .. n : SystemAt(topo, path[k]) \in Hosts
  <2> SUFFICES ASSUME NEW k \in 2 .. n PROVE SystemAt(topo, path[k]) \in Hosts
    OBVIOUS
  <2>1. k \in 1 .. Len(path)
    BY <1>1, <1>2
  <2>2. path[k] \in AddressesOf(topo)
    BY <2>1
  <2> QED
    BY <2>2, TopologyFacts DEF World
<1>6. dest \in Hosts
  BY TopologyFacts DEF World
<1>7. r = CASE ~arrives -> [passed EXCEPT !.sent = FALSE]
            [] arrives /\ ~open -> [Capture(passed, dest, final, "drop") EXCEPT !.sent = FALSE]
            [] OTHER -> Arrive(passed, dest, final)
  BY <1>1, <1>3 DEF Carry
<1> HIDE DEF r, open, final, passed, n, dest
<1>8. CASE ~arrives
  <2>1. passed \in Stores /\ passed.inbound = st.inbound
    <3>1. n \in Nat
      BY <1>2
    <3>2. passed = CaptureOnTheWay(st, path, n, b)
      BY <1>8 DEF passed
    <3> HIDE DEF arrives
    <3> QED
      BY <1>3, <1>5, <3>1, <3>2, OnTheWayKeeps
  <2>2. r \in Stores /\ r.inbound = st.inbound /\ r.sent = FALSE
    BY <1>7, <1>8, <2>1, NotSent
  <2>3. ~((\A i \in 1 .. (hops + 1) : SystemAt(topo, path[i]) \in up) /\ hops < b[9] /\ dest \in up)
    <3> SUFFICES ASSUME \A i \in 1 .. last : SystemAt(topo, path[i]) \in up, hops < b[9], dest \in up
                 PROVE  FALSE
      OBVIOUS
    <3>1. \A i \in 1 .. last : Passing(path, b, i)
      <4> SUFFICES ASSUME NEW i \in 1 .. last PROVE Passing(path, b, i)
        OBVIOUS
      <4>1. b[9] > i - 1
        BY <1>4
      <4> QED
        BY <1>4, <4>1 DEF Passing
    <3> QED
      BY <1>2, <1>8, <3>1
  <2> QED
    BY <2>2, <2>3 DEF r, dest
<1>9. CASE arrives
  <2>1. hops < b[9]
    <3>1. CASE hops = 0
      BY <1>4, <3>1
    <3>2. CASE hops # 0
      <4>1. last \in 1 .. n /\ last > 1 /\ last - 1 = hops
        BY <1>2, <1>9, <3>2
      <4>2. ParseIp(b).ttl > last - 1
        BY <1>2, <4>1 DEF Passing
      <4> QED
        BY <1>4, <4>1, <4>2
    <3> QED
      BY <3>1, <3>2
  <2>2. final = Decremented(b, hops)
    BY <1>9 DEF AfterHops, final
  <2>3. Travelled(b, final, hops)
    BY <1>3, <1>4, <2>1, <2>2, DecrementedTravels
  <2>4. IsPacket(final) /\ final \in Seq(Byte) /\ final[9] = b[9] - hops
    BY <2>3 DEF Travelled, IsPacket
  <2>5. final[9] > 0
    BY <1>4, <2>1, <2>4
  <2>6. ParseIp(final) = [ParseIp(b) EXCEPT !.ttl = @ - hops]
    BY <1>3, <2>3, TravelledSays
  <2>7. /\ ParseIp(final).protocol = ParseIp(b).protocol /\ ParseIp(final).dst = dst
        /\ ParseIp(final).data = ParseIp(b).data
    <3>1. ParseIp(b) = [version |-> 4, ttl |-> b[9], protocol |-> b[10],
                        src |-> SubSeq(b, 13, 16), dst |-> SubSeq(b, 17, 20), data |-> From(b, 20)]
      BY <1>3, PacketFields
    <3> QED
      BY <1>3, <2>6, <3>1
  <2>8. Payload(ParseIp(final)) = Payload(ParseIp(b))
    BY <2>7 DEF Payload
  <2>9. open <=> ~Denies(rules[dest], ParseIp(b), src)
    <3>1. rules[dest] \in Seq(RulesIn)
      BY <1>6 DEF World
    <3>2. open <=> ~Denies(rules[dest], ParseIp(final), src)
      BY <1>3, <2>8, <3>1, FirewallDecides DEF open
    <3>3. Denies(rules[dest], ParseIp(final), src) <=> Denies(rules[dest], ParseIp(b), src)
      BY <2>7, <2>8, DeniesAlike
    <3> QED
      BY <3>2, <3>3
  <2>10. passed \in Stores /\ passed.inbound = st.inbound /\ passed.sent = TRUE
    <3>1. n \in Nat
      BY <1>2
    <3>2. passed = CaptureOnTheWay(st, path, n, final)
      BY <1>9 DEF passed
    <3> QED
      BY <1>5, <2>4, <3>1, <3>2, OnTheWayKeeps
  <2>11. CASE open
    <3>1. final \in Addressed(dest)
      BY <2>4, <2>7, TopologyFacts DEF Addressed, World, dest
    <3>2. r = Arrive(passed, dest, final)
      BY <1>7, <1>9, <2>11
    <3>3. r \in Stores /\ r.inbound = [st.inbound EXCEPT ![dest] = Append(@, final)] /\ r.sent = TRUE
      <4> DEFINE c == Arrive(passed, dest, final)
      <4>1. /\ c \in Stores /\ c.inbound = [passed.inbound EXCEPT ![dest] = Append(@, final)]
            /\ c.sent = passed.sent
        <5>1. passed \in Stores
          BY <2>10
        <5> QED
          BY <1>6, <3>1, <5>1, ArriveAdds
      <4> HIDE DEF c
      <4>2. r = c
        BY <3>2 DEF c
      <4> QED
        BY <2>10, <4>1, <4>2
    <3>4. Delivered(st, r, b, src, dest, hops)
      BY <1>9, <2>3, <2>5, <2>9, <2>11, <3>3 DEF Delivered
    <3> QED
      BY <3>3, <3>4 DEF r, dest
  <2>12. CASE ~open
    <3> DEFINE dropped == Capture(passed, dest, final, "drop")
    <3>1. dropped \in Stores /\ dropped.inbound = st.inbound
      <4>1. "drop" \in Directions
        BY DEF Directions
      <4> QED
        BY <1>6, <2>4, <2>10, <4>1, CaptureKeeps
    <3>2. r = [dropped EXCEPT !.sent = FALSE]
      BY <1>7, <1>9, <2>12
    <3> HIDE DEF dropped
    <3>3. r \in Stores /\ r.inbound = st.inbound /\ r.sent = FALSE
      BY <3>1, <3>2, NotSent
    <3> QED
      BY <2>9, <2>12, <3>3 DEF r, dest
  <2> QED
    BY <2>11, <2>12
<1> QED
  BY <1>8, <1>9

\* The fields of a ping can be put into the answer to it.
LEMMA AnswerFits ==
    ASSUME NEW b, IsPacket(b), ~IsShort(IcmpOf(ParseIp(b))), IcmpOf(ParseIp(b)).type = 8
    PROVE  /\ IsWord(IcmpOf(ParseIp(b)).id) /\ IsWord(IcmpOf(ParseIp(b)).sequence)
           /\ IcmpData(IcmpOf(ParseIp(b)).data)
<1> DEFINE x == ParseIp(b).data
<1>1. IcmpOf(ParseIp(b)) = ParseIcmp(x)
  BY DEF IcmpOf
<1>2. x \in Seq(Byte) /\ Len(x) = Len(b) - 20
  <2>1. x = From(b, 20)
    BY PacketFields
  <2>2. From(b, 20) \in Seq(Byte) /\ Len(From(b, 20)) = Len(b) - 20
    BY PacketFields
  <2> QED
    BY <2>1, <2>2
<1> HIDE DEF x
<1>3. /\ IsWord(ParseIcmp(x).id) /\ IsWord(ParseIcmp(x).sequence)
      /\ ParseIcmp(x).data \in Seq(Byte) /\ Len(x) = 8 + Len(ParseIcmp(x).data)
  <2>1. ~IsShort(ParseIcmp(x))
    BY <1>1
  <2> QED
    BY <1>2, <2>1, IcmpFields
<1>4. IcmpData(ParseIcmp(x).data)
  <2>1. PICK n \in Nat : n = Len(ParseIcmp(x).data)
    BY <1>3
  <2>2. PICK m \in Nat : m = Len(b) /\ m < 65535
    BY DEF IsPacket
  <2>3. 8 + n = m - 20
    BY <1>2, <1>3, <2>1, <2>2
  <2>4. n <= 65506
    BY <2>2, <2>3
  <2> QED
    BY <1>3, <2>1, <2>4 DEF IcmpData
<1> QED
  BY <1>1, <1>3, <1>4

\* A packet that is for another address.
LEMMA TransmitDoes ==
    ASSUME World, CaptureLimit \in Nat, NEW st \in Stores, st.sent = TRUE, NEW me,
           NEW src \in AddressesOf(topo), NEW dst \in AddressesOf(topo), src # dst,
           NEW b, Speaks(b, src, dst), SystemAt(topo, src) \in up
    PROVE  LET r    == Transmit(st, me, b)
               path == FindRoutePath(topo, up, order, src, dst)
               dest == SystemAt(topo, dst)
           IN  /\ r \in Stores
               /\ ~r.sent => r.inbound = st.inbound
               /\ r.sent => /\ path # NoPath
                            /\ Delivered(st, r, b, src, dest, Len(path) - 2)
               /\ /\ path # NoPath /\ Len(path) - 2 < b[9]
                  /\ dest \in up /\ ~Denies(rules[dest], ParseIp(b), src)
                  => r.sent
<1> DEFINE r == Transmit(st, me, b)
           path == FindRoutePath(topo, up, order, src, dst)
           dest == SystemAt(topo, dst)
<1>1. /\ IsPacket(b) /\ ParseIp(b).src = src /\ ParseIp(b).dst = dst /\ ParseIp(b) # ShortPacket
  BY PacketFields DEF Speaks
<1>2. ParseIp(b).ttl = b[9] /\ b[9] \in Nat
  <2>1. /\ ParseIp(b) = [version |-> 4, ttl |-> b[9], protocol |-> b[10],
                         src |-> SubSeq(b, 13, 16), dst |-> SubSeq(b, 17, 20), data |-> From(b, 20)]
        /\ b[9] \in Byte
    BY <1>1, PacketFields
  <2>2. b[9] \in Nat
    BY <2>1, ByteIs
  <2> QED
    BY <2>1, <2>2
<1>3. r = IF b[9] <= 0 \/ path = NoPath THEN [st EXCEPT !.sent = FALSE]
          ELSE IF Len(path) = 1 THEN Loopback(st, me, b, ParseIp(b))
          ELSE Carry(st, path, b, ParseIp(b))
  BY <1>1, <1>2 DEF Transmit
<1>4. CASE b[9] <= 0 \/ path = NoPath
  <2>1. r = [st EXCEPT !.sent = FALSE]
    <3> HIDE DEF r, path
    <3> QED
      BY <1>3, <1>4
  <2>2. r \in Stores /\ r.inbound = st.inbound /\ r.sent = FALSE
    BY <2>1, NotSent
  <2>3. path # NoPath => ~(Len(path) - 2 < b[9])
    <3> SUFFICES ASSUME path # NoPath PROVE ~(Len(path) - 2 < b[9])
      OBVIOUS
    <3>0. IsTopology(topo) /\ Len(order) \in Nat
      BY TopologyFacts DEF World
    <3>1. Trail(topo, up, src, path) /\ Len(path) >= 2
      BY <3>0, RouteIsReal
    <3>2. PICK n \in Nat : n = Len(path) /\ n >= 2
      BY <3>1 DEF Trail
    <3> QED
      BY <1>2, <1>4, <3>2
  <2> HIDE DEF r, path, dest
  <2> QED
    BY <2>2, <2>3 DEF r, path, dest
<1>5. CASE ~(b[9] <= 0 \/ path = NoPath)
  <2>1. Trail(topo, up, src, path) /\ Len(path) >= 2
    BY <1>5, TopologyFacts, RouteIsReal DEF World
  <2>2. path \in Seq(AddressesOf(topo)) /\ path[1] = src
    BY <2>1 DEF Trail
  <2>3. PICK n \in Nat : n = Len(path) /\ n >= 2
    BY <2>1, <2>2
  <2>4. PICK hops \in Nat : Len(path) = hops + 2 /\ hops = Len(path) - 2
    <3>1. n - 2 \in Nat /\ n = (n - 2) + 2
      BY <2>3
    <3> QED
      BY <2>3, <3>1
  <2>5. \A i \in 1 .. (hops + 1) : SystemAt(topo, path[i]) \in up
    <3> SUFFICES ASSUME NEW i \in 1 .. (hops + 1) PROVE SystemAt(topo, path[i]) \in up
      OBVIOUS
    <3>1. CASE i = 1
      BY <2>2, <3>1
    <3>2. CASE i # 1
      <4>1. i \in 2 .. (Len(path) - 1)
        BY <2>3, <2>4, <3>2
      <4> QED
        BY <2>1, <4>1 DEF Trail, Crossable
    <3> QED
      BY <3>1, <3>2
  <2>6. r = Carry(st, path, b, ParseIp(b))
    <3>1. Len(path) # 1
      BY <2>3
    <3> QED
      BY <1>3, <1>5, <3>1
  <2>7. b[9] > 0
    BY <1>2, <1>5
  <2> HIDE DEF path
  <2> DEFINE c == Carry(st, path, b, ParseIp(b))
  <2>8. /\ c \in Stores
        /\ ~c.sent => c.inbound = st.inbound
        /\ c.sent => Delivered(st, c, b, src, SystemAt(topo, dst), hops)
        /\ /\ \A i \in 1 .. (hops + 1) : SystemAt(topo, path[i]) \in up
           /\ hops < b[9] /\ SystemAt(topo, dst) \in up
           /\ ~Denies(rules[SystemAt(topo, dst)], ParseIp(b), src)
           => c.sent
    BY <2>2, <2>4, <2>7, CarryDoes
  <2> HIDE DEF c
  <2>9. r = c
    BY <2>6 DEF c
  <2> HIDE DEF r
  <2> QED
    BY <1>5, <2>4, <2>5, <2>8, <2>9 DEF r, path
<1> QED
  BY <1>4, <1>5

\* A packet that is for the address it comes from.
LEMMA LoopbackDoes ==
    ASSUME World, CaptureLimit \in Nat, NEW st \in Stores, st.sent = TRUE,
           NEW src \in AddressesOf(topo), NEW b, Speaks(b, src, src)
    PROVE  LET me   == SystemAt(topo, src)
               r    == Transmit(st, me, b)
               icmp == IcmpOf(ParseIp(b))
           IN  /\ r \in Stores
               /\ ~r.sent => r.inbound = st.inbound
               /\ r.sent =>
                    /\ ~IsShort(icmp)
                    /\ r.inbound = [st.inbound EXCEPT ![me] =
                         Append(@, IF icmp.type = 8
                                   THEN EchoReply(src, src, icmp.id, icmp.sequence, icmp.data)
                                   ELSE b)]
<1> DEFINE me == SystemAt(topo, src)
           r == Transmit(st, me, b)
           icmp == IcmpOf(ParseIp(b))
           path == FindRoutePath(topo, up, order, src, src)
           reply == EchoReply(src, src, icmp.id, icmp.sequence, icmp.data)
<1>1. /\ IsPacket(b) /\ b \in Seq(Byte) /\ ParseIp(b).src = src /\ ParseIp(b).dst = src
      /\ ParseIp(b) # ShortPacket
  BY PacketFields DEF Speaks, IsPacket
<1>2. r = IF ParseIp(b).ttl <= 0 \/ path = NoPath THEN [st EXCEPT !.sent = FALSE]
          ELSE IF Len(path) = 1 THEN Loopback(st, me, b, ParseIp(b))
          ELSE Carry(st, path, b, ParseIp(b))
  BY <1>1 DEF Transmit
<1>3. me \in Hosts /\ IsAddress(src) /\ src \in ToSet(topo.ifaces[me])
  BY TopologyFacts DEF World
<1>4. CASE ParseIp(b).ttl <= 0 \/ path = NoPath
  <2>1. r = [st EXCEPT !.sent = FALSE]
    <3> HIDE DEF r, path
    <3> QED
      BY <1>2, <1>4
  <2>2. r \in Stores /\ r.inbound = st.inbound /\ r.sent = FALSE
    BY <2>1, NotSent
  <2> HIDE DEF r
  <2> QED
    BY <2>2 DEF r
<1>5. CASE ~(ParseIp(b).ttl <= 0 \/ path = NoPath)
  <2>1. Len(path) = 1
    <3>1. path = <<src>>
      BY <1>5 DEF FindRoutePath
    <3> QED
      BY <3>1
  <2>2. r = Loopback(st, me, b, ParseIp(b))
    BY <1>2, <1>5, <2>1
  <2>3. r = CASE IsShort(icmp) -> [st EXCEPT !.sent = FALSE]
              [] ~IsShort(icmp) /\ icmp.type = 8 -> Arrive(Capture(st, me, b, "send"), me, reply)
              [] OTHER -> Arrive(st, me, b)
    BY <1>1, <2>2 DEF Loopback
  <2> HIDE DEF r, path, me
  <2>4. CASE IsShort(icmp)
    <3>1. r \in Stores /\ r.inbound = st.inbound /\ r.sent = FALSE
      BY <2>3, <2>4, NotSent
    <3> QED
      BY <3>1 DEF r, me
  <2>5. CASE ~IsShort(icmp) /\ icmp.type = 8
    <3>1. IsPacket(reply) /\ ParseIp(reply).dst = src
      BY <1>1, <1>3, <2>5, AnswerFits, EchoReplySays
    <3>2. reply \in Addressed(me)
      BY <1>3, <3>1 DEF Addressed, IsPacket
    <3> DEFINE c == Capture(st, me, b, "send")
    <3>3. c \in Stores /\ c.inbound = st.inbound /\ c.sent = st.sent
      <4>1. "send" \in Directions
        BY DEF Directions
      <4> QED
        BY <1>1, <1>3, <4>1, CaptureKeeps
    <3>4. r = Arrive(c, me, reply)
      BY <2>3, <2>5
    <3> HIDE DEF c
    <3>5. r \in Stores /\ r.inbound = [st.inbound EXCEPT ![me] = Append(@, reply)] /\ r.sent = TRUE
      BY <1>3, <3>2, <3>3, <3>4, ArriveAdds
    <3> QED
      BY <2>5, <3>5 DEF r, me
  <2>6. CASE ~IsShort(icmp) /\ ~(icmp.type = 8)
    <3>1. b \in Addressed(me)
      BY <1>1, <1>3 DEF Addressed
    <3>2. r = Arrive(st, me, b)
      BY <2>3, <2>6
    <3>3. r \in Stores /\ r.inbound = [st.inbound EXCEPT ![me] = Append(@, b)] /\ r.sent = TRUE
      BY <1>3, <3>1, <3>2, ArriveAdds
    <3> QED
      BY <2>6, <3>3 DEF r, me
  <2> QED
    BY <2>4, <2>5, <2>6
<1> QED
  BY <1>4, <1>5

\* The answer to a ping, as the packet it is.
LEMMA AnswerSpeaks ==
    ASSUME NEW src, IsAddress(src), NEW dst, IsAddress(dst),
           NEW b, IsPacket(b), ~IsShort(IcmpOf(ParseIp(b))), IcmpOf(ParseIp(b)).type = 8
    PROVE  LET icmp   == IcmpOf(ParseIp(b))
               answer == EchoReply(src, dst, icmp.id, icmp.sequence, icmp.data)
           IN  Speaks(answer, src, dst) /\ answer[9] = 64
<1>1. 0 \in Byte
  BY ByteIs
<1> QED
  BY <1>1, AnswerFits, EchoSpeaks DEF EchoReply

\* No other host gets what was delivered.
LEMMA Elsewhere ==
    ASSUME NEW st \in Stores, NEW r, NEW b, NEW src, NEW dest, NEW hops,
           Delivered(st, r, b, src, dest, hops), NEW h \in Hosts, h # dest
    PROVE  r.inbound[h] = st.inbound[h]
<1>1. PICK d : r.inbound = [st.inbound EXCEPT ![dest] = Append(@, d)]
  BY DEF Delivered
<1>2. st.inbound \in [Hosts -> Seq(Seq(Byte))]
  BY DEF Stores, Inbounds
<1> QED
  BY <1>1, <1>2

\* The whole of send_packet, for the queues.
Sends(st, src, dst, b) ==
    LET me     == SystemAt(topo, src)
        dest   == SystemAt(topo, dst)
        r      == SendPacket(st, me, b)
        icmp   == IcmpOf(ParseIp(b))
        hops   == Len(FindRoutePath(topo, up, order, src, dst)) - 2
        back   == FindRoutePath(topo, up, order, dst, src)
        answer == EchoReply(dst, src, icmp.id, icmp.sequence, icmp.data)
    IN  /\ r \in Stores
        /\ ~r.sent /\ ~IsShort(icmp) => r.inbound = st.inbound
        /\ \A h \in Hosts \ {me, dest} : r.inbound[h] = st.inbound[h]
        /\ src = dst /\ r.sent =>
             /\ ~IsShort(icmp)
             /\ r.inbound = [st.inbound EXCEPT ![me] =
                               Append(@, IF icmp.type = 8 THEN answer ELSE b)]
        /\ src # dst /\ r.sent => ~IsShort(icmp) /\ \E done \in Stores :
             /\ Delivered(st, done, b, src, dest, hops)
             /\ \/ icmp.type # 8 /\ r.inbound = done.inbound
                \/ icmp.type = 8 /\ Delivered(done, r, answer, dst, me, Len(back) - 2)
                \/ /\ icmp.type = 8 /\ r.inbound = done.inbound
                   /\ \/ back = NoPath \/ ~(Len(back) - 2 < 64)
                      \/ Denies(rules[me], ParseIp(answer), dst)

\* One call of send_packet, with the answer it makes.
LEMMA SendDoes ==
    ASSUME World, CaptureLimit \in Nat, NEW st \in Stores, st.sent = TRUE,
           NEW src \in AddressesOf(topo), NEW dst \in AddressesOf(topo),
           NEW b, Speaks(b, src, dst), SystemAt(topo, src) \in up
    PROVE  Sends(st, src, dst, b)
<1> DEFINE me     == SystemAt(topo, src)
           dest   == SystemAt(topo, dst)
           r      == SendPacket(st, me, b)
           icmp   == IcmpOf(ParseIp(b))
           hops   == Len(FindRoutePath(topo, up, order, src, dst)) - 2
           back   == FindRoutePath(topo, up, order, dst, src)
           answer == EchoReply(dst, src, icmp.id, icmp.sequence, icmp.data)
           done   == Transmit(st, me, b)
           reply  == Transmit(done, dest, answer)
<1>1. IsPacket(b) /\ ParseIp(b).src = src /\ ParseIp(b).dst = dst
  BY DEF Speaks
<1>2. r = IF ~done.sent \/ src = dst THEN done
          ELSE IF IsShort(icmp) THEN [done EXCEPT !.sent = FALSE]
          ELSE IF icmp.type = 8 THEN [reply EXCEPT !.sent = TRUE]
          ELSE done
  BY <1>1 DEF SendPacket
<1>3. me \in Hosts /\ dest \in Hosts /\ IsAddress(src) /\ IsAddress(dst)
  BY TopologyFacts DEF World
<1>4. CASE src = dst
  <2>1. r = done
    <3> HIDE DEF r, done
    <3> QED
      BY <1>2, <1>4
  <2>2. Speaks(b, src, src)
    BY <1>4
  <2>3. /\ done \in Stores
        /\ ~done.sent => done.inbound = st.inbound
        /\ done.sent =>
             /\ ~IsShort(icmp)
             /\ done.inbound = [st.inbound EXCEPT ![me] =
                  Append(@, IF icmp.type = 8
                            THEN EchoReply(src, src, icmp.id, icmp.sequence, icmp.data)
                            ELSE b)]
    BY <2>2, LoopbackDoes
  <2>4. answer = EchoReply(src, src, icmp.id, icmp.sequence, icmp.data)
    BY <1>4
  <2> HIDE DEF r, done, me, icmp, answer
  <2>5. \A h \in Hosts \ {me, dest} : done.inbound[h] = st.inbound[h]
    <3>1. st.inbound \in [Hosts -> Seq(Seq(Byte))] /\ done.sent \in BOOLEAN
      BY <2>3 DEF Stores, Inbounds
    <3> QED
      BY <2>3, <3>1
  <2> QED
    BY <1>4, <2>1, <2>3, <2>4, <2>5 DEF r, me, icmp, answer, Sends
<1>5. CASE src # dst
  <2>1. /\ done \in Stores
        /\ ~done.sent => done.inbound = st.inbound
        /\ done.sent => /\ FindRoutePath(topo, up, order, src, dst) # NoPath
                        /\ Delivered(st, done, b, src, dest, hops)
    BY <1>5, TransmitDoes
  <2>2. /\ st.inbound \in [Hosts -> Seq(Seq(Byte))] /\ done.inbound \in [Hosts -> Seq(Seq(Byte))]
        /\ done.sent \in BOOLEAN
    BY <2>1 DEF Stores, Inbounds
  <2>3. \A h \in Hosts \ {me, dest} : done.inbound[h] = st.inbound[h]
    <3> HIDE DEF done, me, dest
    <3> QED
      BY <2>1, <2>2, Elsewhere
  <2>4. CASE ~done.sent
    <3>1. r = done
      <4> HIDE DEF r, done
      <4> QED
        BY <1>2, <2>4
    <3> HIDE DEF r, done, me, dest, icmp
    <3> QED
      BY <1>5, <2>1, <2>3, <2>4, <3>1 DEF r, me, dest, icmp, Sends
  <2>5. CASE done.sent /\ IsShort(icmp)
    <3>1. r = [done EXCEPT !.sent = FALSE]
      <4> HIDE DEF r, done, icmp
      <4> QED
        BY <1>2, <1>5, <2>5
    <3>2. r \in Stores /\ r.inbound = done.inbound /\ r.sent = FALSE
      BY <2>1, <3>1, NotSent
    <3> HIDE DEF r, done, me, dest, icmp
    <3> QED
      BY <1>5, <2>3, <2>5, <3>2 DEF r, me, dest, icmp, Sends
  <2>6. CASE done.sent /\ ~IsShort(icmp) /\ icmp.type # 8
    <3>1. r = done
      <4> HIDE DEF r, done, icmp
      <4> QED
        BY <1>2, <1>5, <2>6
    <3> HIDE DEF r, done, me, dest, icmp, hops
    <3> QED
      BY <1>5, <2>1, <2>3, <2>6, <3>1 DEF r, me, dest, icmp, hops, Sends
  <2>7. CASE done.sent /\ ~IsShort(icmp) /\ icmp.type = 8
    <3>1. r = [reply EXCEPT !.sent = TRUE]
      <4> HIDE DEF r, done, icmp, reply
      <4> QED
        BY <1>2, <1>5, <2>7
    <3>2. Speaks(answer, dst, src) /\ answer[9] = 64
      BY <1>1, <1>3, <2>7, AnswerSpeaks
    <3>3. dest \in up /\ done.sent = TRUE
      BY <2>1, <2>2, <2>7 DEF Delivered
    <3> HIDE DEF done, answer
    <3>4. /\ reply \in Stores
          /\ ~reply.sent => reply.inbound = done.inbound
          /\ reply.sent => /\ back # NoPath
                           /\ Delivered(done, reply, answer, dst, me, Len(back) - 2)
          /\ /\ back # NoPath /\ Len(back) - 2 < answer[9]
             /\ me \in up /\ ~Denies(rules[me], ParseIp(answer), dst)
             => reply.sent
      BY <1>5, <2>1, <3>2, <3>3, TransmitDoes
    <3>5. r \in Stores /\ r.inbound = reply.inbound /\ r.sent = TRUE
      BY <3>1, <3>4, SentAnyway
    <3>6. reply.sent => Delivered(done, r, answer, dst, me, Len(back) - 2)
      BY <3>4, <3>5 DEF Delivered
    <3>7. \A h \in Hosts \ {me, dest} : reply.inbound[h] = done.inbound[h]
      <4>1. reply.sent \in BOOLEAN
        BY <3>4 DEF Stores
      <4> HIDE DEF reply, me, dest
      <4> QED
        BY <2>1, <3>4, <4>1, Elsewhere
    <3>8. ~reply.sent => \/ back = NoPath \/ ~(Len(back) - 2 < 64)
                         \/ Denies(rules[me], ParseIp(answer), dst)
      BY <3>2, <3>4
    <3> HIDE DEF r, reply, me, dest, icmp, hops, back
    <3> QED
      BY <1>5, <2>1, <2>3, <2>7, <3>4, <3>5, <3>6, <3>7, <3>8
      DEF r, me, dest, icmp, hops, back, answer, Sends
  <2> QED
    BY <2>4, <2>5, <2>6, <2>7
<1> QED
  BY <1>4, <1>5

-----------------------------------------------------------------------------
(* The invariant.                                                          *)

\* The queues and captures as a call of send_packet finds them.
Here == [inbound |-> inbound, captured |-> captured, sent |-> TRUE]

Inv == World /\ Here \in Stores /\ events \in 0 .. MaxEvents

\* The queues between two calls.
LEMMA HereIs ==
    ASSUME NEW q, NEW c
    PROVE  [inbound |-> q, captured |-> c, sent |-> TRUE] \in Stores
           <=> q \in Inbounds /\ c \in [Hosts -> Kept]
BY DEF Stores

\* The rules a scenario starts with.
LEMMA RulesOfScenarioAre ==
    ASSUME NEW t, IsFiniteSet(t.deny), NEW h
    PROVE  RulesOfScenario(t, h) \in Seq(ToSet(RulesOfScenario(t, h)))
<1> DEFINE n == Cardinality(DeniedAt(t, h))
           rs == RulesOfScenario(t, h)
<1>1. n \in Nat
  <2>1. DeniedAt(t, h) \subseteq t.deny
    BY DEF DeniedAt
  <2> QED
    BY <2>1, FS_Subset, FS_CardinalityType
<1>2. DOMAIN rs = 1 .. n /\ rs = [k \in 1 .. n |-> rs[k]]
  BY DEF RulesOfScenario
<1> HIDE DEF n, rs
<1>3. \A k \in 1 .. n : rs[k] \in ToSet(rs)
  BY <1>2 DEF ToSet
<1>4. rs \in [1 .. n -> ToSet(rs)]
  BY <1>2, <1>3
<1>5. rs \in Seq(ToSet(rs))
  BY <1>1, <1>4
<1> QED
  BY <1>5 DEF rs

\* A game starts with empty queues.
LEMMA InitInv == NetInit => Inv
<1> SUFFICES ASSUME NetInit PROVE Inv
  OBVIOUS
<1>1. IsTopology(topo) /\ topo \in Topologies
  BY TopologiesAssumption DEF NetInit
<1>2. Len(order) \in Nat
  <2>1. topo.order \in Seq(AddressesOf(topo))
    BY <1>1 DEF IsTopology
  <2>2. Len(topo.order) \in Nat
    BY <2>1
  <2>3. Len(Reverse(topo.order)) = Len(topo.order)
    <3> DEFINE n == Len(topo.order)
    <3> HIDE DEF n
    <3>1. \A f : Len([i \in 1 .. n |-> f[i]]) = n
      BY <2>2 DEF n
    <3>2. Reverse(topo.order) = [i \in 1 .. n |-> Reverse(topo.order)[i]]
      BY DEF Reverse, n
    <3> QED
      BY <3>1, <3>2 DEF n
  <2> QED
    BY <2>2, <2>3 DEF NetInit
<1>3. up \subseteq Hosts
  BY DEF NetInit, Hosts
<1>4. rules \in [Hosts -> Seq(RulesIn)]
  <2>1. ASSUME NEW h \in Hosts PROVE RulesOfScenario(topo, h) \in Seq(RulesIn)
    <3>1. RulesOfScenario(topo, h) \in Seq(ToSet(RulesOfScenario(topo, h)))
      BY <1>1, RulesOfScenarioAre DEF IsTopology
    <3>2. ToSet(RulesOfScenario(topo, h)) \subseteq RulesIn
      BY DEF RulesIn
    <3> QED
      BY <3>1, <3>2
  <2> QED
    BY <2>1 DEF NetInit, Hosts
<1>5. inbound \in Inbounds
  <2>1. inbound = [h \in Hosts |-> <<>>]
    BY DEF NetInit, Hosts
  <2>2. \A S : <<>> \in Seq(S)
    OBVIOUS
  <2>3. inbound \in [Hosts -> Seq(Seq(Byte))]
    BY <2>1, <2>2
  <2>4. \A h \in Hosts : inbound[h] \in Seq(Addressed(h))
    BY <2>1, <2>2
  <2> QED
    BY <2>3, <2>4 DEF Inbounds
<1>6. captured \in [Hosts -> Kept]
  <2>1. <<>> \in Kept
    BY LimitsAssumption DEF Kept
  <2> QED
    BY <2>1 DEF NetInit, Hosts
<1>7. Here \in Stores
  BY <1>5, <1>6, HereIs DEF Here
<1>8. events \in 0 .. MaxEvents
  BY LimitsAssumption DEF NetInit
<1> QED
  BY <1>1, <1>2, <1>3, <1>4, <1>7, <1>8 DEF Inv, World

\* A write to the device, as the call of send_packet that it is.
Writes(h, src, dst, b) ==
    /\ World /\ CaptureLimit \in Nat /\ Here \in Stores /\ Here.sent = TRUE
    /\ Here.inbound = inbound
    /\ src \in AddressesOf(topo) /\ SystemAt(topo, src) = h /\ h \in up
    /\ Speaks(b, src, dst)
    /\ SendPacket(Here, h, b) \in Stores
    /\ inbound' = SendPacket(Here, h, b).inbound
    /\ captured' = SendPacket(Here, h, b).captured
    /\ call' = [host |-> h, bytes |-> b, sent |-> SendPacket(Here, h, b).sent]

\* A script writes a packet from an address of its host.
LEMMA WriteIsSend ==
    ASSUME Inv, NEW h \in Hosts, NEW kind \in Kinds, NEW src \in ToSet(topo.ifaces[h]),
           NEW dst \in AddressesOf(topo), Send(h, Crafted(kind, src, dst))
    PROVE  Writes(h, src, dst, Crafted(kind, src, dst))
<1> DEFINE b == Crafted(kind, src, dst)
<1>1. World /\ CaptureLimit \in Nat /\ Here \in Stores
  BY LimitsAssumption DEF Inv
<1>2. Here.sent = TRUE /\ Here.inbound = inbound
  BY DEF Here
<1>3. IsTopology(topo)
  BY <1>1, TopologiesAssumption DEF World
<1>4. src \in AddressesOf(topo) /\ SystemAt(topo, src) = h
  <2>1. topo.ifaces[h] \in Seq(AddressesOf(topo))
    BY <1>3 DEF IsTopology, Hosts
  <2>2. src \in AddressesOf(topo)
    BY <2>1 DEF ToSet
  <2> QED
    BY <1>3, <2>2 DEF IsTopology, Hosts
<1>5. h \in up
  BY DEF Send
<1>6. Speaks(b, src, dst)
  BY <1>1, <1>4, TopologyFacts, CraftedSpeaks DEF World
<1>7. /\ inbound' = SendPacket(Here, h, b).inbound
      /\ captured' = SendPacket(Here, h, b).captured
      /\ call' = [host |-> h, bytes |-> b, sent |-> SendPacket(Here, h, b).sent]
  BY DEF Send, Here
<1>8. SendPacket(Here, h, b) \in Stores
  <2>1. Sends(Here, src, dst, b)
    BY <1>1, <1>2, <1>4, <1>5, <1>6, SendDoes
  <2> QED
    BY <1>4, <2>1 DEF Sends
<1> QED
  BY <1>1, <1>2, <1>4, <1>5, <1>6, <1>7, <1>8 DEF Writes

\* Every call and every change of the game keeps the invariant.
LEMMA NextInv == Inv /\ [NetNext]_netVars => Inv'
<1> SUFFICES ASSUME Inv, [NetNext]_netVars PROVE Inv'
  OBVIOUS
<1>0. /\ topo \in Topologies /\ Len(order) \in Nat /\ up \subseteq Hosts
      /\ rules \in [Hosts -> Seq(RulesIn)]
      /\ inbound \in Inbounds /\ captured \in [Hosts -> Kept] /\ events \in 0 .. MaxEvents
  BY HereIs DEF Inv, World, Here
<1>1. ASSUME topo' = topo, order' = order, up' \subseteq Hosts,
             rules' \in [Hosts -> Seq(RulesIn)], inbound' \in Inbounds,
             captured' \in [Hosts -> Kept], events' \in 0 .. MaxEvents
      PROVE  Inv'
  <2>1. Hosts' = Hosts
    BY <1>1 DEF Hosts
  <2>2. RulesIn' = RulesIn
    BY <1>1, <2>1 DEF RulesIn
  <2>3. Inbounds' = Inbounds
    BY <1>1, <2>1 DEF Inbounds, Addressed
  <2>4. Stores' = Stores
    BY <2>1, <2>3 DEF Stores
  <2>5. World'
    BY <1>0, <1>1, <2>1, <2>2 DEF World
  <2>6. [inbound |-> inbound', captured |-> captured', sent |-> TRUE] \in Stores
    BY <1>1, HereIs
  <2> QED
    BY <1>1, <2>4, <2>5, <2>6 DEF Inv, Here
<1>2. Event => events' \in 0 .. MaxEvents
  BY <1>0, LimitsAssumption DEF Event
<1>3. ASSUME NEW h \in Hosts, NEW kind \in Kinds, NEW src \in ToSet(topo.ifaces[h]),
             NEW dst \in AddressesOf(topo), Send(h, Crafted(kind, src, dst))
      PROVE  Inv'
  <2> DEFINE b == Crafted(kind, src, dst)
             r == SendPacket(Here, h, b)
  <2>1. r \in Stores /\ inbound' = r.inbound /\ captured' = r.captured
    <3>1. Writes(h, src, dst, b)
      BY <1>3, WriteIsSend
    <3> HIDE DEF b
    <3> QED
      BY <3>1 DEF Writes
  <2>2. inbound' \in Inbounds /\ captured' \in [Hosts -> Kept]
    <3> HIDE DEF r
    <3> QED
      BY <2>1 DEF Stores
  <2>3. events' \in 0 .. MaxEvents /\ UNCHANGED <<topo, order, up, rules>>
    BY <1>2, <1>3 DEF Send
  <2> QED
    BY <1>0, <1>1, <2>2, <2>3
<1>4. ASSUME NEW h \in Hosts, ReceivePacket(h) PROVE Inv'
  <2>1. inbound' = [inbound EXCEPT ![h] = Tail(@)] /\ inbound[h] # <<>>
    BY <1>4 DEF ReceivePacket
  <2>2. inbound' \in Inbounds
    <3>1. inbound \in [Hosts -> Seq(Seq(Byte))] /\ \A g \in Hosts : inbound[g] \in Seq(Addressed(g))
      BY <1>0 DEF Inbounds
    <3>2. Tail(inbound[h]) \in Seq(Addressed(h))
      BY <2>1, <3>1, HeadTailProperties
    <3>3. Tail(inbound[h]) \in Seq(Seq(Byte))
      <4> DEFINE S == Seq(Byte)
      <4>1. inbound[h] \in Seq(S)
        BY <3>1
      <4> HIDE DEF S
      <4>2. Tail(inbound[h]) \in Seq(S)
        BY <2>1, <4>1, HeadTailProperties
      <4> QED
        BY <4>2 DEF S
    <3>4. /\ inbound' \in [Hosts -> Seq(Seq(Byte))]
          /\ \A g \in Hosts : inbound'[g] = IF g = h THEN Tail(inbound[h]) ELSE inbound[g]
      BY <2>1, <3>1, <3>3
    <3> QED
      BY <3>1, <3>2, <3>4 DEF Inbounds
  <2>3. events' \in 0 .. MaxEvents /\ UNCHANGED <<topo, order, up, rules, captured>>
    BY <1>2, <1>4 DEF ReceivePacket
  <2> QED
    BY <1>0, <1>1, <2>2, <2>3
<1>5. ASSUME NEW h \in Hosts, GoDown(h) PROVE Inv'
  BY <1>0, <1>1, <1>2, <1>5 DEF GoDown
<1>6. ASSUME NEW h \in Hosts, Boot(h) PROVE Inv'
  BY <1>0, <1>1, <1>2, <1>6 DEF Boot
<1>7. ASSUME NEW h \in Hosts, NEW r \in RuleChoices, AppendRule(h, r) PROVE Inv'
  <2>1. rules' \in [Hosts -> Seq(RulesIn)]
    <3>1. r \in RulesIn
      BY DEF RulesIn
    <3>2. rules' = [rules EXCEPT ![h] = Append(@, r)]
      BY <1>7 DEF AppendRule
    <3> QED
      BY <1>0, <3>1, <3>2
  <2> QED
    BY <1>0, <1>1, <1>2, <1>7, <2>1 DEF AppendRule
<1>8. CASE UNCHANGED netVars
  BY <1>0, <1>1, <1>8 DEF netVars
<1> QED
  BY <1>3, <1>4, <1>5, <1>6, <1>7, <1>8 DEF NetNext

\* The inductive invariant.
LEMMA Invariance == NetSpec => []Inv
BY InitInv, NextInv, PTL DEF NetSpec

-----------------------------------------------------------------------------
(* The properties.                                                         *)

\* Every queue holds whole packets for the host it is on, and no capture buffer
\* outgrows its limit, in every topology, order and sequence of calls
\* (packet_queue.py, _capture_packet and the inbound queues).
THEOREM NetTypesAreKept == NetSpec => []NetTypeOK
<1>1. Inv => NetTypeOK
  <2> SUFFICES ASSUME Inv PROVE NetTypeOK
    OBVIOUS
  <2>1. /\ up \subseteq Hosts /\ events \in 0 .. MaxEvents
        /\ inbound \in Inbounds /\ captured \in [Hosts -> Kept]
    BY HereIs DEF Inv, World, Here
  <2>2. ASSUME NEW h \in Hosts PROVE Len(captured[h]) <= CaptureLimit
    BY <2>1 DEF Kept
  <2>3. ASSUME NEW h \in Hosts, NEW k \in DOMAIN inbound[h]
        PROVE  /\ inbound[h][k] \in Seq(Byte)
               /\ ParseIp(inbound[h][k]).dst \in ToSet(topo.ifaces[h])
    <3>1. inbound[h] \in Seq(Addressed(h))
      BY <2>1 DEF Inbounds
    <3>2. inbound[h][k] \in Addressed(h)
      BY <3>1
    <3> QED
      BY <3>2 DEF Addressed
  <2> QED
    BY <2>1, <2>2, <2>3 DEF NetTypeOK
<1> QED
  BY <1>1, Invariance, PTL

\* A route that the search finds is a path of links from one address to the
\* other that repeats nothing and crosses only hosts that are up and forward,
\* whatever the topology, the order of iteration and the hosts that are down
\* (network.py, _find_route_path).
THEOREM RoutesAreAlwaysReal == NetSpec => []RoutesAreReal
<1>1. Inv => RoutesAreReal
  <2> SUFFICES ASSUME Inv, NEW a \in AddressesOf(topo), NEW b \in AddressesOf(topo),
                      NEW p, p = FindRoutePath(topo, up, order, a, b), p # NoPath
               PROVE  /\ p[1] = a /\ Last(p) = b /\ IsInjective(p)
                      /\ \A i \in 2 .. (Len(p) - 1) : SystemAt(topo, p[i]) \in up \cap topo.forward
                      /\ \A i \in 1 .. (Len(p) - 1) :
                           \E q \in ToSet(topo.ifaces[SystemAt(topo, p[i])]) :
                             p[i + 1] \in Linked(topo, q)
    BY DEF RoutesAreReal
  <2>1. IsTopology(topo) /\ Len(order) \in Nat
    BY TopologiesAssumption DEF Inv, World
  <2>2. Trail(topo, up, a, p) /\ Last(p) = b
    BY <2>1, RouteIsReal
  <2> QED
    BY <2>2 DEF Trail, Crossable, Linking
<1> QED
  BY <1>1, Invariance, PTL

\* What the queue of the destination holds after a delivery.
Gets(st, r, b, dst, hops) ==
    LET dest == SystemAt(topo, dst)
        n    == Len(st.inbound[dest])
        home == r.inbound[dest]
    IN  /\ n \in Nat /\ Len(home) = n + 1
        /\ \A i \in 1 .. n : home[i] = st.inbound[dest][i]
        /\ ParseIp(home[n + 1]) = [ParseIp(b) EXCEPT !.ttl = @ - hops]
        /\ ParseIp(home[n + 1]).ttl > 0
        /\ dest \in up /\ ~Refused(dest, ParseIp(b), {"DENY"})

\* The packet in the queue is the one that was sent, hops apart.
LEMMA GotIs ==
    ASSUME World, NEW st \in Stores, NEW r, NEW b, NEW src, NEW dst \in AddressesOf(topo),
           Speaks(b, src, dst), NEW hops, Delivered(st, r, b, src, SystemAt(topo, dst), hops)
    PROVE  Gets(st, r, b, dst, hops)
<1> DEFINE dest == SystemAt(topo, dst)
           n    == Len(st.inbound[dest])
           home == r.inbound[dest]
<1>1. /\ hops \in Nat /\ dest \in up /\ ~Denies(rules[dest], ParseIp(b), src)
      /\ IsPacket(b) /\ ParseIp(b).src = src
  BY DEF Delivered, Speaks
<1>2. PICK d : /\ Travelled(b, d, hops) /\ d[9] > 0
               /\ r.inbound = [st.inbound EXCEPT ![dest] = Append(@, d)]
  BY DEF Delivered
<1>3. dest \in Hosts /\ st.inbound \in [Hosts -> Seq(Seq(Byte))]
  BY TopologyFacts DEF World, Stores, Inbounds
<1>4. st.inbound[dest] \in Seq(Seq(Byte)) /\ home = Append(st.inbound[dest], d)
  BY <1>2, <1>3
<1>5. d \in Seq(Byte) /\ IsPacket(d)
  BY <1>2 DEF Travelled, IsPacket
<1>6. n \in Nat /\ Len(home) = n + 1 /\ home[n + 1] = d
      /\ \A i \in 1 .. n : home[i] = st.inbound[dest][i]
  <2> DEFINE S == Seq(Byte)
             q == st.inbound[dest]
  <2>1. q \in Seq(S) /\ d \in S /\ home = Append(q, d)
    BY <1>4, <1>5
  <2> HIDE DEF S, q, home
  <2>2. /\ Len(q) \in Nat /\ Len(home) = Len(q) + 1 /\ home[Len(q) + 1] = d
        /\ \A i \in 1 .. Len(q) : home[i] = q[i]
    BY <2>1
  <2> QED
    BY <2>2 DEF q
<1>7. ParseIp(d) = [ParseIp(b) EXCEPT !.ttl = @ - hops]
  BY <1>1, <1>2, TravelledSays
<1>8. ParseIp(d).ttl = d[9]
  <2>1. ParseIp(d) = [version |-> 4, ttl |-> d[9], protocol |-> d[10], src |-> SubSeq(d, 13, 16),
                      dst |-> SubSeq(d, 17, 20), data |-> From(d, 20)]
    BY <1>5, PacketFields
  <2> QED
    BY <2>1
<1>9. ~Refused(dest, ParseIp(b), {"DENY"})
  BY <1>1, <1>3, RefusedIsDenied
<1> HIDE DEF n, home, dest
<1> QED
  BY <1>1, <1>2, <1>6, <1>7, <1>8, <1>9 DEF n, home, dest, Gets

\* The step of DeliveredAsSent, for one call.
LEMMA SendDelivers ==
    ASSUME Inv, NEW h \in Hosts, NEW kind \in Kinds, NEW src \in ToSet(topo.ifaces[h]),
           NEW dst \in AddressesOf(topo), NEW b, b = Crafted(kind, src, dst), Send(h, b)
    PROVE  LET ip   == ParseIp(b)
               dest == SystemAt(topo, dst)
               hops == Len(FindRoutePath(topo, up, order, src, dst)) - 2
               got  == inbound'[dest][Len(inbound[dest]) + 1]
           IN  /\ \A g \in Hosts \ {h, dest} : inbound'[g] = inbound[g]
               /\ ~call'.sent /\ ~IsShort(IcmpOf(ip)) => inbound' = inbound
               /\ call'.sent /\ src # dst =>
                    /\ h # dest => Len(inbound'[dest]) = Len(inbound[dest]) + 1
                    /\ ParseIp(got) = [ip EXCEPT !.ttl = @ - hops]
                    /\ ParseIp(got).ttl > 0
                    /\ dest \in up /\ ~Refused(dest, ip, {"DENY"})
<1> DEFINE r      == SendPacket(Here, h, b)
           dest   == SystemAt(topo, dst)
           icmp   == IcmpOf(ParseIp(b))
           path   == FindRoutePath(topo, up, order, src, dst)
           back   == FindRoutePath(topo, up, order, dst, src)
           answer == EchoReply(dst, src, icmp.id, icmp.sequence, icmp.data)
<1>1. /\ World /\ CaptureLimit \in Nat /\ Here \in Stores /\ Here.sent = TRUE
      /\ Here.inbound = inbound /\ src \in AddressesOf(topo) /\ SystemAt(topo, src) = h
      /\ h \in up /\ Speaks(b, src, dst) /\ inbound' = r.inbound /\ call'.sent = r.sent
  <2>1. /\ World /\ CaptureLimit \in Nat /\ Here \in Stores /\ Here.sent = TRUE
        /\ Here.inbound = inbound
        /\ src \in AddressesOf(topo) /\ SystemAt(topo, src) = h /\ h \in up
        /\ Speaks(b, src, dst)
        /\ inbound' = SendPacket(Here, h, b).inbound
        /\ call' = [host |-> h, bytes |-> b, sent |-> SendPacket(Here, h, b).sent]
    <3>1. Writes(h, src, dst, b)
      BY WriteIsSend
    <3> QED
      BY <3>1 DEF Writes
  <2> HIDE DEF r
  <2>2. inbound' = r.inbound /\ call' = [host |-> h, bytes |-> b, sent |-> r.sent]
    BY <2>1 DEF r
  <2>3. call'.sent = r.sent
    BY <2>2
  <2> QED
    BY <2>1, <2>2, <2>3
<1>2. /\ ~r.sent /\ ~IsShort(icmp) => r.inbound = inbound
      /\ \A g \in Hosts \ {h, dest} : r.inbound[g] = inbound[g]
      /\ src # dst /\ r.sent => ~IsShort(icmp) /\ \E done \in Stores :
           /\ Delivered(Here, done, b, src, dest, Len(path) - 2)
           /\ \/ icmp.type # 8 /\ r.inbound = done.inbound
              \/ icmp.type = 8 /\ Delivered(done, r, answer, dst, h, Len(back) - 2)
              \/ /\ icmp.type = 8 /\ r.inbound = done.inbound
                 /\ \/ back = NoPath \/ ~(Len(back) - 2 < 64)
                    \/ Denies(rules[h], ParseIp(answer), dst)
  <2> DEFINE me == SystemAt(topo, src)
             s  == SendPacket(Here, me, b)
  <2>1. /\ ~s.sent /\ ~IsShort(icmp) => s.inbound = Here.inbound
        /\ \A g \in Hosts \ {me, dest} : s.inbound[g] = Here.inbound[g]
        /\ src # dst /\ s.sent => ~IsShort(icmp) /\ \E done \in Stores :
             /\ Delivered(Here, done, b, src, dest, Len(path) - 2)
             /\ \/ icmp.type # 8 /\ s.inbound = done.inbound
                \/ icmp.type = 8 /\ Delivered(done, s, answer, dst, me, Len(back) - 2)
                \/ /\ icmp.type = 8 /\ s.inbound = done.inbound
                   /\ \/ back = NoPath \/ ~(Len(back) - 2 < 64)
                      \/ Denies(rules[me], ParseIp(answer), dst)
    <3>1. Sends(Here, src, dst, b)
      BY <1>1, SendDoes
    <3> QED
      BY <3>1 DEF Sends
  <2>2. me = h /\ s = r /\ Here.inbound = inbound
    BY <1>1
  <2> HIDE DEF me, s, r, path, back, answer, icmp, dest
  <2> QED
    BY <2>1, <2>2
<1> HIDE DEF r, path, back
<1>3. ASSUME src # dst, r.sent
      PROVE  /\ h # dest => Len(r.inbound[dest]) = Len(inbound[dest]) + 1
             /\ ParseIp(r.inbound[dest][Len(inbound[dest]) + 1])
                  = [ParseIp(b) EXCEPT !.ttl = @ - (Len(path) - 2)]
             /\ ParseIp(r.inbound[dest][Len(inbound[dest]) + 1]).ttl > 0
             /\ dest \in up /\ ~Refused(dest, ParseIp(b), {"DENY"})
  <2>1. PICK done \in Stores :
           /\ Delivered(Here, done, b, src, dest, Len(path) - 2)
           /\ \/ r.inbound = done.inbound
              \/ icmp.type = 8 /\ Delivered(done, r, answer, dst, h, Len(back) - 2)
    BY <1>2, <1>3
  <2> DEFINE n == Len(inbound[dest])
             home == done.inbound[dest]
  <2>2. /\ n \in Nat /\ Len(home) = n + 1
        /\ ParseIp(home[n + 1]) = [ParseIp(b) EXCEPT !.ttl = @ - (Len(path) - 2)]
        /\ ParseIp(home[n + 1]).ttl > 0
        /\ dest \in up /\ ~Refused(dest, ParseIp(b), {"DENY"})
    <3> DEFINE stored == Here.inbound[dest]
    <3>1. /\ Len(stored) \in Nat /\ Len(home) = Len(stored) + 1
          /\ ParseIp(home[Len(stored) + 1]) = [ParseIp(b) EXCEPT !.ttl = @ - (Len(path) - 2)]
          /\ ParseIp(home[Len(stored) + 1]).ttl > 0
          /\ dest \in up /\ ~Refused(dest, ParseIp(b), {"DENY"})
      <4>1. Gets(Here, done, b, dst, Len(path) - 2)
        BY <1>1, <2>1, GotIs
      <4> QED
        BY <4>1 DEF Gets
    <3>2. stored = inbound[dest]
      BY <1>1
    <3> HIDE DEF stored, home, dest
    <3> QED
      BY <3>1, <3>2
  <2>3. (h # dest => r.inbound[dest] = home) /\ r.inbound[dest][n + 1] = home[n + 1]
    <3>1. CASE r.inbound = done.inbound
      BY <3>1
    <3>2. CASE icmp.type = 8 /\ Delivered(done, r, answer, dst, h, Len(back) - 2)
      <4>1. CASE h # dest
        <5>1. dest \in Hosts
          BY <1>1, TopologyFacts DEF World
        <5>2. r.inbound[dest] = done.inbound[dest]
          BY <2>1, <3>2, <4>1, <5>1, Elsewhere
        <5> QED
          BY <5>2
      <4>2. CASE h = dest
        <5>1. IsPacket(b) /\ ~IsShort(icmp) /\ IsAddress(src) /\ IsAddress(dst)
          BY <1>1, <1>2, <1>3, TopologyFacts DEF Speaks, World
        <5>2. Speaks(answer, dst, src)
          BY <3>2, <5>1, AnswerSpeaks
        <5> HIDE DEF answer
        <5>3. \A i \in 1 .. Len(done.inbound[h]) : r.inbound[h][i] = done.inbound[h][i]
          <6>1. Delivered(done, r, answer, dst, SystemAt(topo, src), Len(back) - 2)
            BY <1>1, <3>2
          <6>2. \A i \in 1 .. Len(done.inbound[SystemAt(topo, src)]) :
                  r.inbound[SystemAt(topo, src)][i] = done.inbound[SystemAt(topo, src)][i]
            <7>1. Gets(done, r, answer, src, Len(back) - 2)
              BY <1>1, <5>2, <6>1, GotIs
            <7> QED
              BY <7>1 DEF Gets
          <6> QED
            BY <1>1, <6>2
        <5>4. n + 1 \in 1 .. Len(home)
          BY <2>2
        <5> QED
          BY <4>2, <5>3, <5>4
      <4> QED
        BY <4>1, <4>2
    <3> QED
      BY <2>1, <3>1, <3>2
  <2> QED
    BY <2>2, <2>3
<1> QED
  BY <1>1, <1>2, <1>3 DEF path

\* send_packet delivers the packet it was given: to the live host it is for,
\* with one TTL less for every host that forwarded it, past rules that let it
\* in (DENY rules are never read), and to nobody else; a send that fails leaves the queues alone, unless
\* what was queued cannot be parsed (packet_queue.py, send_packet).
THEOREM DeliveryIsAsSent == NetSpec => DeliveredAsSent
<1> DEFINE AsSent ==
      LET ip   == ParseIp(call'.bytes)
          dest == SystemAt(topo, ip.dst)
          hops == Len(FindRoutePath(topo, up, order, ip.src, ip.dst)) - 2
          got  == inbound'[dest][Len(inbound[dest]) + 1]
      IN  call' # NoCall =>
            /\ \A h \in Hosts \ {call'.host, dest} : inbound'[h] = inbound[h]
            /\ ~call'.sent /\ ~IsShort(IcmpOf(ip)) => inbound' = inbound
            /\ call'.sent /\ ip.src # ip.dst =>
                /\ call'.host # dest => Len(inbound'[dest]) = Len(inbound[dest]) + 1
                /\ ParseIp(got) = [ip EXCEPT !.ttl = @ - hops]
                /\ ParseIp(got).ttl > 0
                /\ dest \in up /\ ~Refused(dest, ip, {"DENY"})
<1>1. Inv /\ [NetNext]_netVars => [AsSent]_netVars
  <2> SUFFICES ASSUME Inv, NetNext PROVE AsSent
    OBVIOUS
  <2>1. CASE call' = NoCall
    BY <2>1
  <2>2. ASSUME NEW h \in Hosts, NEW kind \in Kinds, NEW src \in ToSet(topo.ifaces[h]),
               NEW dst \in AddressesOf(topo), Send(h, Crafted(kind, src, dst))
        PROVE  AsSent
    <3> DEFINE b == Crafted(kind, src, dst)
    <3>1. call'.host = h /\ call'.bytes = b
      BY <2>2 DEF Send
    <3>2. Speaks(b, src, dst)
      <4>1. Writes(h, src, dst, b)
        BY <2>2, WriteIsSend
      <4> QED
        BY <4>1 DEF Writes
    <3>3. ParseIp(b).src = src /\ ParseIp(b).dst = dst
      BY <3>2 DEF Speaks
    <3>4. LET dest == SystemAt(topo, dst)
              hops == Len(FindRoutePath(topo, up, order, src, dst)) - 2
              got  == inbound'[dest][Len(inbound[dest]) + 1]
          IN  /\ \A g \in Hosts \ {h, dest} : inbound'[g] = inbound[g]
              /\ ~call'.sent /\ ~IsShort(IcmpOf(ParseIp(b))) => inbound' = inbound
              /\ call'.sent /\ src # dst =>
                   /\ h # dest => Len(inbound'[dest]) = Len(inbound[dest]) + 1
                   /\ ParseIp(got) = [ParseIp(b) EXCEPT !.ttl = @ - hops]
                   /\ ParseIp(got).ttl > 0
                   /\ dest \in up /\ ~Refused(dest, ParseIp(b), {"DENY"})
      BY <2>2, SendDelivers
    <3> HIDE DEF b
    <3> QED
      BY <3>1, <3>3, <3>4
  <2>3. ASSUME NEW h \in Hosts, ReceivePacket(h) \/ GoDown(h) \/ Boot(h) PROVE call' = NoCall
    BY <2>3 DEF ReceivePacket, GoDown, Boot
  <2>4. ASSUME NEW h \in Hosts, NEW r \in RuleChoices, AppendRule(h, r) PROVE call' = NoCall
    BY <2>4 DEF AppendRule
  <2> HIDE DEF AsSent
  <2> QED
    BY <2>1, <2>2, <2>3, <2>4 DEF NetNext
<1> QED
  BY <1>1, Invariance, PTL DEF NetSpec, DeliveredAsSent

\* A reply to an ICMP message, from src to dst, when it is made and when it has
\* arrived.
IsReply(d, icmp, src, dst) ==
    /\ ParseIp(d).src = src /\ ParseIp(d).dst = dst
    /\ Answers(ParseIp(d), icmp)

\* What EchoReply builds is a reply to the ping.
LEMMA AnswerIsReply ==
    ASSUME NEW src, IsAddress(src), NEW dst, IsAddress(dst),
           NEW b, IsPacket(b), ~IsShort(IcmpOf(ParseIp(b))), IcmpOf(ParseIp(b)).type = 8,
           NEW icmp, icmp = IcmpOf(ParseIp(b))
    PROVE  IsReply(EchoReply(src, dst, icmp.id, icmp.sequence, icmp.data), icmp, src, dst)
<1> DEFINE a == EchoReply(src, dst, icmp.id, icmp.sequence, icmp.data)
<1>1. IsWord(icmp.id) /\ IsWord(icmp.sequence) /\ IcmpData(icmp.data)
  BY AnswerFits
<1>2. /\ ParseIp(a).src = src /\ ParseIp(a).dst = dst
      /\ ParseIcmp(ParseIp(a).data).type = 0 /\ ParseIcmp(ParseIp(a).data).id = icmp.id
      /\ ParseIcmp(ParseIp(a).data).sequence = icmp.sequence
      /\ ParseIcmp(ParseIp(a).data).data = Padded(icmp.data)
      /\ Verifies(ParseIp(a).data) \/ CarryForgotten(ParseIp(a).data)
  BY <1>1, EchoReplySays
<1>3. \/ Padded(icmp.data) = icmp.data
      \/ Padded(icmp.data) = Append(icmp.data, 0) /\ Len(icmp.data) % 2 = 1
  <2>1. icmp.data \in Seq(Byte)
    BY <1>1 DEF IcmpData
  <2> QED
    BY <2>1, PaddedIs
<1> HIDE DEF a
<1>4. Answers(ParseIp(a), icmp)
  BY <1>2, <1>3 DEF Answers
<1> QED
  BY <1>2, <1>4 DEF IsReply, a

\* It is still one after any number of hops.
LEMMA ArrivesAsReply ==
    ASSUME NEW a, IsPacket(a), NEW icmp, NEW src, NEW dst, IsReply(a, icmp, src, dst),
           NEW d, NEW hops, ParseIp(d) = [ParseIp(a) EXCEPT !.ttl = @ - hops]
    PROVE  IsReply(d, icmp, src, dst)
<1>1. ParseIp(a) = [version |-> 4, ttl |-> a[9], protocol |-> a[10], src |-> SubSeq(a, 13, 16),
                    dst |-> SubSeq(a, 17, 20), data |-> From(a, 20)]
  BY PacketFields
<1>2. /\ ParseIp(d).src = ParseIp(a).src /\ ParseIp(d).dst = ParseIp(a).dst
      /\ ParseIp(d).data = ParseIp(a).data
  BY <1>1
<1> QED
  BY <1>2 DEF IsReply, Answers

\* The rules of a host see a reply as they see any other message of ICMP.
LEMMA RepliesAlike ==
    ASSUME NEW src, IsAddress(src), NEW dst, IsAddress(dst),
           NEW b, IsPacket(b), ~IsShort(IcmpOf(ParseIp(b))), IcmpOf(ParseIp(b)).type = 8,
           NEW icmp, icmp = IcmpOf(ParseIp(b)), World, NEW h \in Hosts,
           Denies(rules[h], ParseIp(EchoReply(src, dst, icmp.id, icmp.sequence, icmp.data)), src)
    PROVE  Refused(h, ParseIp(BuildIp(src, dst, Icmp, <<0, 0>>)), {"DENY"})
<1> DEFINE a == ParseIp(EchoReply(src, dst, icmp.id, icmp.sequence, icmp.data))
           x == <<0, 0>>
           m == BuildIp(src, dst, Icmp, x)
<1>1. IpData(x)
  BY ByteIs DEF IpData
<1> HIDE DEF x
<1>2. Icmp \in Byte
  BY ByteIs DEF Icmp
<1>3. IsPacket(m) /\ m[10] = Icmp /\ SubSeq(m, 13, 16) = src
  <2>1. /\ IsPacket(m) /\ Len(m) = 20 + Len(x) /\ m[9] = 64 /\ m[10] = Icmp
        /\ SubSeq(m, 13, 16) = src /\ SubSeq(m, 17, 20) = dst /\ From(m, 20) = x
    BY <1>1, <1>2, IpRoundTrip
  <2> QED
    BY <2>1
<1> HIDE DEF m
<1>4. ParseIp(m).protocol = Icmp /\ ParseIp(m).src = src
  <2>1. ParseIp(m) = [version |-> 4, ttl |-> m[9], protocol |-> m[10], src |-> SubSeq(m, 13, 16),
                      dst |-> SubSeq(m, 17, 20), data |-> From(m, 20)]
    BY <1>3, PacketFields
  <2> QED
    BY <1>3, <2>1
<1>5. a.protocol = Icmp
  <2>1. IsWord(icmp.id) /\ IsWord(icmp.sequence) /\ IcmpData(icmp.data)
    BY AnswerFits
  <2> QED
    BY <2>1, EchoReplySays
<1> HIDE DEF a
<1>6. Payload(a).dst_port = Payload(ParseIp(m)).dst_port
  BY <1>4, <1>5, IcmpSpeaks
<1>7. Denies(rules[h], ParseIp(m), src)
  <2>1. Denies(rules[h], a, src) <=> Denies(rules[h], ParseIp(m), src)
    BY <1>4, <1>5, <1>6, DeniesAlike
  <2> QED
    BY <2>1 DEF a
<1>8. Refused(h, ParseIp(m), {"DENY"})
  BY <1>4, <1>7, RefusedIsDenied
<1> QED
  BY <1>8 DEF m, x

\* The step of PingAnswered, for one call.
LEMMA SendAnswers ==
    ASSUME Inv, NEW h \in Hosts, NEW kind \in Kinds, NEW src \in ToSet(topo.ifaces[h]),
           NEW dst \in AddressesOf(topo), NEW b, b = Crafted(kind, src, dst), Send(h, b),
           call'.sent, NEW icmp, icmp = IcmpOf(ParseIp(b)), icmp.type = 8
    PROVE  LET home   == inbound'[h]
               got    == ParseIp(Last(home))
               back   == FindRoutePath(topo, up, order, dst, src)
               toSelf == src # dst /\ SystemAt(topo, dst) = h
           IN  \/ /\ Len(home) = Len(inbound[h]) + IF toSelf THEN 2 ELSE 1
                  /\ got.src = dst /\ got.dst = src /\ Answers(got, icmp)
               \/ back = NoPath \/ Len(back) > 65
               \/ Refused(h, ParseIp(BuildIp(dst, src, Icmp, <<0, 0>>)), {"DENY"})
<1> DEFINE r      == SendPacket(Here, h, b)
           dest   == SystemAt(topo, dst)
           path   == FindRoutePath(topo, up, order, src, dst)
           back   == FindRoutePath(topo, up, order, dst, src)
           answer == EchoReply(dst, src, icmp.id, icmp.sequence, icmp.data)
           home   == r.inbound[h]
           stored == inbound[h]
           Reads(d) == IsReply(d, icmp, dst, src)
<1>1. /\ World /\ CaptureLimit \in Nat /\ Here \in Stores /\ Here.sent = TRUE
      /\ Here.inbound = inbound /\ src \in AddressesOf(topo) /\ SystemAt(topo, src) = h
      /\ h \in up /\ Speaks(b, src, dst) /\ inbound' = r.inbound /\ r.sent
  <2>1. /\ World /\ CaptureLimit \in Nat /\ Here \in Stores /\ Here.sent = TRUE
        /\ Here.inbound = inbound
        /\ src \in AddressesOf(topo) /\ SystemAt(topo, src) = h /\ h \in up
        /\ Speaks(b, src, dst)
        /\ inbound' = SendPacket(Here, h, b).inbound
        /\ call' = [host |-> h, bytes |-> b, sent |-> SendPacket(Here, h, b).sent]
    <3>1. Writes(h, src, dst, b)
      BY WriteIsSend
    <3> QED
      BY <3>1 DEF Writes
  <2> HIDE DEF r
  <2>2. inbound' = r.inbound /\ call' = [host |-> h, bytes |-> b, sent |-> r.sent]
    BY <2>1 DEF r
  <2>3. r.sent
    BY <2>2
  <2> QED
    BY <2>1, <2>2, <2>3
<1>2. /\ IsPacket(b) /\ IsAddress(src) /\ IsAddress(dst) /\ dest \in Hosts
      /\ IsTopology(topo) /\ Len(order) \in Nat
      /\ stored \in Seq(Seq(Byte)) /\ inbound \in [Hosts -> Seq(Seq(Byte))]
  <2>1. IsPacket(b) /\ IsAddress(src) /\ IsAddress(dst) /\ dest \in Hosts
    BY <1>1, TopologyFacts DEF Speaks, World
  <2>2. IsTopology(topo) /\ Len(order) \in Nat
    BY <1>1, TopologyFacts DEF World
  <2>3. inbound \in [Hosts -> Seq(Seq(Byte))]
    <3>1. Here.inbound \in [Hosts -> Seq(Seq(Byte))]
      BY <1>1 DEF Stores, Inbounds
    <3> QED
      BY <1>1, <3>1
  <2> QED
    BY <2>1, <2>2, <2>3
<1>3. Sends(Here, src, dst, b)
  BY <1>1, SendDoes
<1>4. ~IsShort(icmp)
  <2>1. r = SendPacket(Here, SystemAt(topo, src), b)
    BY <1>1
  <2> QED
    BY <1>1, <1>3, <2>1 DEF Sends
<1>5. CASE src = dst
  <2>1. r.inbound = [inbound EXCEPT ![h] = Append(@, answer)]
    BY <1>1, <1>3, <1>5 DEF Sends
  <2>2. home = Append(stored, answer)
    BY <1>2, <2>1
  <2>3. Reads(answer)
    BY <1>2, <1>4, AnswerIsReply
  <2>4. answer \in Seq(Byte)
    BY <1>2, <1>4, AnswerSpeaks DEF Speaks, IsPacket
  <2> HIDE DEF r, home, stored, answer, Reads
  <2>5. Len(home) = Len(stored) + 1 /\ Last(home) = answer
    <3> DEFINE S == Seq(Byte)
    <3>1. stored \in Seq(S) /\ answer \in S
      BY <1>2, <2>4
    <3> HIDE DEF S
    <3>2. Len(Append(stored, answer)) = Len(stored) + 1
      BY <3>1
    <3>3. Append(stored, answer)[Len(stored) + 1] = answer
      BY <3>1
    <3> QED
      BY <2>2, <3>2, <3>3 DEF Last
  <2> QED
    BY <1>1, <1>5, <2>3, <2>5 DEF home, stored, Reads, IsReply
<1>6. CASE src # dst
  <2>1. PICK done \in Stores :
           /\ Delivered(Here, done, b, src, dest, Len(path) - 2)
           /\ \/ Delivered(done, r, answer, dst, h, Len(back) - 2)
              \/ back = NoPath \/ ~(Len(back) - 2 < 64)
              \/ Denies(rules[h], ParseIp(answer), dst)
    BY <1>1, <1>3, <1>6 DEF Sends
  <2>2. CASE back = NoPath
    BY <2>2
  <2>3. CASE back # NoPath /\ ~(Len(back) - 2 < 64)
    <3>1. Trail(topo, up, dst, back)
      BY <1>1, <1>2, <2>3, RouteIsReal
    <3>2. PICK n \in Nat : n = Len(back)
      BY <3>1 DEF Trail
    <3>3. n > 65
      BY <2>3, <3>2
    <3> QED
      BY <3>2, <3>3
  <2>4. CASE Denies(rules[h], ParseIp(answer), dst)
    <3>1. Refused(h, ParseIp(BuildIp(dst, src, Icmp, <<0, 0>>)), {"DENY"})
      BY <1>1, <1>2, <1>4, <2>4, RepliesAlike
    <3> QED
      BY <3>1
  <2>5. CASE Delivered(done, r, answer, dst, h, Len(back) - 2)
    <3> DEFINE n == Len(done.inbound[h])
               m == Len(stored)
    <3>1. Gets(done, r, answer, src, Len(back) - 2)
      <4>1. Speaks(answer, dst, src)
        BY <1>2, <1>4, AnswerSpeaks
      <4>2. Delivered(done, r, answer, dst, SystemAt(topo, src), Len(back) - 2)
        BY <1>1, <2>5
      <4> HIDE DEF answer
      <4> QED
        BY <1>1, <4>1, <4>2, GotIs
    <3>2. /\ n \in Nat /\ Len(home) = n + 1
          /\ ParseIp(home[n + 1]) = [ParseIp(answer) EXCEPT !.ttl = @ - (Len(back) - 2)]
      BY <1>1, <3>1 DEF Gets
    <3>3. Reads(home[n + 1])
      <4>1. Reads(answer)
        BY <1>2, <1>4, AnswerIsReply
      <4>2. IsPacket(answer)
        BY <1>2, <1>4, AnswerSpeaks DEF Speaks
      <4> HIDE DEF answer, home, n
      <4> QED
        BY <3>2, <4>1, <4>2, ArrivesAsReply
    <3>4. n = m + IF dest = h THEN 1 ELSE 0
      <4>1. CASE dest = h
        <5>1. Gets(Here, done, b, dst, Len(path) - 2)
          BY <1>1, <2>1, GotIs
        <5> QED
          BY <1>1, <4>1, <5>1 DEF Gets
      <4>2. CASE dest # h
        <5>1. done.inbound[h] = Here.inbound[h]
          BY <1>1, <2>1, <4>2, Elsewhere
        <5> QED
          BY <1>1, <1>2, <4>2, <5>1
      <4> QED
        BY <4>1, <4>2
    <3>5. m \in Nat
      BY <1>2
    <3> HIDE DEF home, n, m, r, answer, dest, Reads
    <3>6. Len(home) = m + IF dest = h THEN 2 ELSE 1
      BY <3>2, <3>4, <3>5
    <3>7. Last(home) = home[n + 1]
      BY <3>2 DEF Last
    <3>8. Reads(Last(home))
      BY <3>3, <3>7
    <3>9. inbound'[h] = home /\ m = Len(inbound[h])
      BY <1>1 DEF home, m
    <3> QED
      BY <1>6, <3>6, <3>8, <3>9 DEF Reads, IsReply, dest
  <2> QED
    BY <2>1, <2>2, <2>3, <2>4, <2>5
<1> QED
  BY <1>5, <1>6

\* A ping that was delivered is answered before the call returns, with its
\* identifier, sequence number and padded data and a checksum that verifies but
\* for a second carry, unless there is no way back, the way back is longer than
\* the TTL of a reply, or the rules of the sender refuse the reply (packet_queue.py, the echo reply that
\* send_packet sends from the destination).
THEOREM PingIsAnswered == NetSpec => PingAnswered
<1> DEFINE Answered ==
      LET ip    == ParseIp(call'.bytes)
          icmp  == IcmpOf(ip)
          host  == call'.host
          home  == inbound'[host]
          got   == ParseIp(Last(home))
          back  == FindRoutePath(topo, up, order, ip.dst, ip.src)
          toSelf == ip.src # ip.dst /\ SystemAt(topo, ip.dst) = host
      IN  (call' # NoCall /\ call'.sent /\ icmp.type = 8) =>
            \/ /\ Len(home) = Len(inbound[host]) + IF toSelf THEN 2 ELSE 1
               /\ got.src = ip.dst /\ got.dst = ip.src /\ Answers(got, icmp)
            \/ back = NoPath \/ Len(back) > 65
            \/ Refused(host, ParseIp(BuildIp(ip.dst, ip.src, Icmp, <<0, 0>>)), {"DENY"})
<1>1. Inv /\ [NetNext]_netVars => [Answered]_netVars
  <2> SUFFICES ASSUME Inv, NetNext PROVE Answered
    OBVIOUS
  <2>1. CASE call' = NoCall
    BY <2>1
  <2>2. ASSUME NEW h \in Hosts, NEW kind \in Kinds, NEW src \in ToSet(topo.ifaces[h]),
               NEW dst \in AddressesOf(topo), Send(h, Crafted(kind, src, dst))
        PROVE  Answered
    <3> DEFINE b == Crafted(kind, src, dst)
               icmp == IcmpOf(ParseIp(b))
    <3>1. call'.host = h /\ call'.bytes = b
      BY <2>2 DEF Send
    <3>2. Speaks(b, src, dst)
      <4>1. Writes(h, src, dst, b)
        BY <2>2, WriteIsSend
      <4> QED
        BY <4>1 DEF Writes
    <3>3. ParseIp(b).src = src /\ ParseIp(b).dst = dst
      BY <3>2 DEF Speaks
    <3>4. ASSUME call'.sent, icmp.type = 8
          PROVE  LET home   == inbound'[h]
                     got    == ParseIp(Last(home))
                     back   == FindRoutePath(topo, up, order, dst, src)
                     toSelf == src # dst /\ SystemAt(topo, dst) = h
                 IN  \/ /\ Len(home) = Len(inbound[h]) + IF toSelf THEN 2 ELSE 1
                        /\ got.src = dst /\ got.dst = src /\ Answers(got, icmp)
                     \/ back = NoPath \/ Len(back) > 65
                     \/ Refused(h, ParseIp(BuildIp(dst, src, Icmp, <<0, 0>>)), {"DENY"})
      BY <2>2, <3>4, SendAnswers
    <3> HIDE DEF b
    <3> QED
      BY <3>1, <3>3, <3>4
  <2>3. ASSUME NEW h \in Hosts, ReceivePacket(h) \/ GoDown(h) \/ Boot(h) PROVE call' = NoCall
    BY <2>3 DEF ReceivePacket, GoDown, Boot
  <2>4. ASSUME NEW h \in Hosts, NEW r \in RuleChoices, AppendRule(h, r) PROVE call' = NoCall
    BY <2>4 DEF AppendRule
  <2> HIDE DEF Answered
  <2> QED
    BY <2>1, <2>2, <2>3, <2>4 DEF NetNext
<1> QED
  BY <1>1, Invariance, PTL DEF NetSpec, PingAnswered
=============================================================================
