------------------------ MODULE OutboundBuffersProofs ------------------------
(***************************************************************************)
(* OneOwner and ContentIntact of OutboundBuffers, for any number of        *)
(* buffers and handles, any table of classes and any limits of the pool    *)
(* and of the channel.  The inductive invariant says element by element    *)
(* that an allocation is in one place, and adds that windows lie within    *)
(* their allocation.  Before that, what the two lookups of SizeClasses     *)
(* promise each other, for every table of classes: a buffer filed under a  *)
(* class covers it, and whatever a request finds in the bins it searches   *)
(* is large enough.                                                        *)
(***************************************************************************)
EXTENDS OutboundBuffers, WellFoundedInduction, TLAPS

\* A set of naturals that is not empty has a least element.
LEMMA LeastIsLeast ==
    ASSUME NEW T, T \subseteq Nat, T # {}
    PROVE  Least(T) \in T /\ \A j \in T : Least(T) <= j
<1>1. PICK m \in T : \A y \in T : ~ (<<y, m>> \in OpToRel(<, Nat))
  BY WFMin, NatLessThanWellFounded, Zenon
<1>2. \A y \in T : m <= y
  <2> SUFFICES ASSUME NEW y \in T PROVE m <= y
    OBVIOUS
  <2>1. y \in Nat /\ m \in Nat
    OBVIOUS
  <2>2. ~(y < m)
    BY <1>1, <2>1, Zenon DEF OpToRel
  <2> QED BY <2>1, <2>2
<1> QED BY <1>2, Zenon DEF Least

\* A set of numbers up to n that is not empty has a greatest element.
LEMMA GreatestIsGreatest ==
    ASSUME NEW n \in Nat, NEW T, T \subseteq 1 .. n, T # {}
    PROVE  Greatest(T) \in T /\ \A j \in T : Greatest(T) >= j
<1> DEFINE U == {n - i : i \in T}
<1>1. U \subseteq Nat /\ U # {}
  <2>1. \A i \in T : n - i \in Nat
    <3>1. \A i \in 1 .. n : n - i \in Nat OBVIOUS
    <3> QED BY <3>1
  <2>2. U \subseteq Nat BY <2>1, Zenon
  <2>3. PICK i \in T : TRUE BY Zenon
  <2>4. n - i \in U BY <2>3, Zenon
  <2> QED BY <2>2, <2>4, Zenon
<1>2. Least(U) \in U /\ \A j \in U : Least(U) <= j
  BY <1>1, LeastIsLeast, Zenon
<1>3. PICK g \in T : Least(U) = n - g
  BY <1>2, Zenon
<1>4. \A j \in T : g >= j
  <2> SUFFICES ASSUME NEW j \in T PROVE g >= j
    OBVIOUS
  <2>1. n - g <= n - j
    BY <1>2, <1>3, Zenon
  <2> QED BY <2>1
<1> QED BY <1>4, Zenon DEF Greatest

\* bin_for_cap and class_for_capacity: the class a buffer is filed under is one
\* of the table, and the buffer covers it.
THEOREM FiledCoversClass ==
    ASSUME NEW classes, Table(classes), NEW cap \in Nat
    PROVE  /\ bin_for_cap(classes, cap) \in 0 .. Len(classes)
           /\ bin_for_cap(classes, cap) # 0 => classes[bin_for_cap(classes, cap)] <= cap
<1> DEFINE covered == {i \in DOMAIN classes : classes[i] <= cap}
<1>1. Len(classes) \in Nat /\ DOMAIN classes = 1 .. Len(classes)
  BY DEF Table
<1>2. CASE covered = {} \/ cap > classes[Len(classes)]
  BY <1>1, <1>2 DEF bin_for_cap
<1>3. CASE ~(covered = {} \/ cap > classes[Len(classes)])
  <2>1. Greatest(covered) \in covered
    <3>1. covered \subseteq 1 .. Len(classes) BY <1>1
    <3>2. covered # {} BY <1>3
    <3> HIDE DEF covered
    <3> QED BY <1>1, <3>1, <3>2, GreatestIsGreatest, Zenon
  <2>2. bin_for_cap(classes, cap) = Greatest(covered)
    BY <1>3 DEF bin_for_cap
  <2> QED BY <2>1, <2>2, <1>1
<1> QED BY <1>2, <1>3

\* bin_for and class_for_request: the class a request starts from holds it.
THEOREM RequestFitsClass ==
    ASSUME NEW classes, Table(classes), NEW len \in Nat
    PROVE  /\ bin_for(classes, len) \in 0 .. Len(classes)
           /\ bin_for(classes, len) # 0 => len <= classes[bin_for(classes, len)]
<1> DEFINE fits == {i \in DOMAIN classes : len <= classes[i]}
<1>1. Len(classes) \in Nat /\ DOMAIN classes = 1 .. Len(classes)
  BY DEF Table
<1>2. CASE fits = {}
  BY <1>1, <1>2 DEF bin_for
<1>3. CASE fits # {}
  <2>1. Least(fits) \in fits
    <3>1. fits \subseteq 1 .. Len(classes) BY <1>1
    <3>2. 1 .. Len(classes) \subseteq Nat BY <1>1
    <3>3. fits \subseteq Nat BY <3>1, <3>2, Zenon
    <3> HIDE DEF fits
    <3> QED BY <1>3, <3>3, LeastIsLeast, Zenon
  <2>2. bin_for(classes, len) = Least(fits)
    BY <1>3 DEF bin_for
  <2> QED BY <2>1, <2>2, <1>1
<1> QED BY <1>2, <1>3

\* The two together: a buffer that was filed in a bin which a request searches
\* can hold the request, so ChunkPool::checkout never grows what it pops and
\* RightSizedPool::take never discards it.
THEOREM SearchedBinFits ==
    ASSUME NEW classes, Table(classes), NEW cap \in Nat, NEW len \in Nat,
           bin_for_cap(classes, cap) # 0, bin_for(classes, len) # 0,
           bin_for_cap(classes, cap) >= bin_for(classes, len)
    PROVE  cap >= len
<1> DEFINE i == bin_for_cap(classes, cap)
           j == bin_for(classes, len)
<1>1. Len(classes) \in Nat /\ DOMAIN classes = 1 .. Len(classes)
  BY DEF Table
<1>2. i \in 1 .. Len(classes) /\ classes[i] <= cap
  <2>1. /\ bin_for_cap(classes, cap) \in 0 .. Len(classes)
        /\ bin_for_cap(classes, cap) # 0 => classes[bin_for_cap(classes, cap)] <= cap
    BY FiledCoversClass
  <2> QED BY <2>1, <1>1
<1>3. j \in 1 .. Len(classes) /\ len <= classes[j]
  <2>1. /\ bin_for(classes, len) \in 0 .. Len(classes)
        /\ bin_for(classes, len) # 0 => len <= classes[bin_for(classes, len)]
    BY RequestFitsClass
  <2> QED BY <2>1, <1>1
<1>4. classes[i] \in Nat /\ classes[j] \in Nat /\ classes[j] <= classes[i]
  <2>1. classes[i] \in Nat /\ classes[j] \in Nat
    BY <1>1, <1>2, <1>3 DEF Table
  <2>2. j < i => classes[j] < classes[i]
    BY <1>1, <1>2, <1>3 DEF Table
  <2>3. j = i \/ j < i
    BY <1>1, <1>2, <1>3
  <2> QED BY <2>1, <2>2, <2>3
<1> QED BY <1>2, <1>3, <1>4

\* What the constants are: those of the code are one instance.
Constants ==
    /\ Table(Classes) /\ None \notin Buffers
    /\ MaxLen \in Nat /\ Payloads \subseteq Nat

\* The types the argument needs.
Types ==
    /\ bins \in [Bins -> SUBSET Buffers] /\ returned \subseteq Buffers
    /\ capacity \in [Buffers -> Nat] /\ data \in [Buffers -> [Positions -> Bytes]]
    /\ handles \in [Handles -> [buf : Buffers \cup {None}, arc : BOOLEAN, off : Nat,
                                len : Nat, want : [Positions -> Bytes]]]

\* OneOwner, element by element.
Owned(b) == \E h \in Handles : handles[h].buf = b
InBin(b) == \E i \in Bins : b \in bins[i]
Apart ==
    /\ \A b \in Buffers, i, j \in Bins : b \in bins[i] /\ b \in bins[j] => i = j
    /\ \A b \in Buffers : InBin(b) => b \notin returned /\ ~Owned(b)
    /\ \A b \in Buffers : b \in returned => ~Owned(b)
    /\ \A b \in Buffers : capacity[b] # 0 <=> b \in returned \/ Owned(b) \/ InBin(b)

\* Windows lie within an allocation and show what was put there.
Intact ==
    \A h \in Handles : handles[h].buf # None =>
       /\ handles[h].off + handles[h].len <= MaxLen
       /\ \A p \in Positions : p > handles[h].off /\ p <= handles[h].off + handles[h].len =>
             data[handles[h].buf][p] = handles[h].want[p]

Inv == Types /\ Apart /\ Intact

LEMMA InvInit == ASSUME Constants PROVE Init => Inv
<1> SUFFICES ASSUME Init PROVE Inv
  OBVIOUS
<1>1. Types
  BY DEF Init, Types, Dropped, Constants, Bytes
<1>2. Apart
  BY DEF Init, Apart, Owned, InBin, Dropped, Constants
<1>3. Intact
  BY DEF Init, Intact, Dropped
<1> QED BY <1>1, <1>2, <1>3 DEF Inv

\* Handles that share, move or shrink: an allocation stays where it is.
LEMMA HandleSteps ==
    ASSUME Constants, Inv, NEW h \in Handles,
           \/ from_chunk(h)
           \/ \E g \in Handles : clone(h, g)
           \/ \E g \in Handles, cut \in 0 .. MaxLen : split_at(h, g, cut)
    PROVE  Inv'
<1> USE DEF Inv, Constants
<1>1. CASE from_chunk(h)
  <2>1. Types'
    BY <1>1, Zenon DEF from_chunk, Types
  <2>2. \A x \in Handles : /\ handles'[x].buf = handles[x].buf /\ handles'[x].off = handles[x].off
                           /\ handles'[x].len = handles[x].len /\ handles'[x].want = handles[x].want
    BY <1>1 DEF from_chunk, Types
  <2>3. Apart'
    BY <1>1, <2>2 DEF from_chunk, Apart, Owned, InBin
  <2>4. Intact'
    BY <1>1, <2>2 DEF from_chunk, Intact
  <2> QED BY <2>1, <2>3, <2>4
<1>2. ASSUME NEW g \in Handles, clone(h, g) PROVE Inv'
  <2>1. Types'
    BY <1>2 DEF clone, Types
  <2>2. \A x \in Handles : handles'[x] = IF x = g THEN handles[h] ELSE handles[x]
    BY <1>2 DEF clone, Types
  <2>3. handles[g].buf = None
    BY <1>2 DEF clone, Dropped
  <2>4. \A b \in Buffers : Owned(b)' <=> Owned(b)
    BY <2>2, <2>3 DEF Owned
  <2>5. Apart'
    BY <1>2, <2>4 DEF clone, Apart, InBin
  <2>6. Intact'
    BY <1>2, <2>2 DEF clone, Intact
  <2> QED BY <2>1, <2>5, <2>6
<1>3. ASSUME NEW g \in Handles, NEW cut \in 0 .. MaxLen, split_at(h, g, cut) PROVE Inv'
  <2> DEFINE from == handles[h].off + cut
             rest == handles[h].len - cut
             head == [handles[h] EXCEPT !.len = cut]
             tail == [handles[h] EXCEPT !.off = from, !.len = rest]
             R == [buf : Buffers \cup {None}, arc : BOOLEAN, off : Nat, len : Nat, want : [Positions -> Bytes]]
  <2>1. /\ handles[h].buf # None /\ handles[g] = Dropped /\ cut <= handles[h].len
        /\ handles' = [handles EXCEPT ![h] = head, ![g] = tail]
        /\ UNCHANGED <<bins, returned, capacity, data>>
    BY <1>3, Zenon DEF split_at
  <2>2. handles[g].buf = None /\ g # h
    BY <2>1 DEF Dropped
  <2>3. handles[h] \in R /\ cut \in Nat
    BY DEF Types
  <2>4. from \in Nat /\ rest \in Nat /\ from + rest = handles[h].off + handles[h].len /\ from >= handles[h].off
    BY <2>1, <2>3
  <2> HIDE DEF from, rest
  <2>5. head \in R /\ tail \in R
    BY <2>3, <2>4, Zenon
  <2>6. /\ head.buf = handles[h].buf /\ head.off = handles[h].off /\ head.len = cut
        /\ head.want = handles[h].want
        /\ tail.buf = handles[h].buf /\ tail.off = from /\ tail.len = rest
        /\ tail.want = handles[h].want
    BY <2>3
  <2> HIDE DEF head, tail
  <2>7. Types'
    BY <2>1, <2>5 DEF Types
  <2>8. \A x \in Handles : handles'[x] = IF x = g THEN tail ELSE IF x = h THEN head ELSE handles[x]
    BY <2>1, <2>2 DEF Types
  <2>9. \A b \in Buffers : Owned(b)' <=> Owned(b)
    BY <2>2, <2>6, <2>8 DEF Owned
  <2>10. Apart'
    BY <2>1, <2>9 DEF Apart, InBin
  <2>11. ASSUME NEW x \in Handles, handles'[x].buf # None
         PROVE  /\ handles'[x].off + handles'[x].len <= MaxLen
                /\ \A p \in Positions : p > handles'[x].off /\ p <= handles'[x].off + handles'[x].len =>
                      data[handles'[x].buf][p] = handles'[x].want[p]
    <3>a. /\ handles[h].off + handles[h].len <= MaxLen
          /\ \A p \in Positions : p > handles[h].off /\ p <= handles[h].off + handles[h].len =>
                data[handles[h].buf][p] = handles[h].want[p]
      BY <2>1 DEF Intact
    <3>b. handles[h].off \in Nat /\ handles[h].len \in Nat /\ MaxLen \in Nat /\ Positions \subseteq Nat
      BY <2>3 DEF Positions
    <3> HIDE DEF Inv, Constants
    <3>1. CASE x = g
      <4>1. handles'[x].buf = handles[h].buf /\ handles'[x].off = from /\ handles'[x].len = rest
            /\ handles'[x].want = handles[h].want
        BY <3>1, <2>6, <2>8
      <4>2. \A p \in Positions : p > from => p > handles[h].off
        BY <2>4, <3>b
      <4> QED BY <4>1, <4>2, <2>4, <3>a
    <3>2. CASE x = h
      <4>1. handles'[x].buf = handles[h].buf /\ handles'[x].off = handles[h].off /\ handles'[x].len = cut
            /\ handles'[x].want = handles[h].want
        BY <3>2, <2>2, <2>6, <2>8
      <4>2. handles[h].off + cut <= handles[h].off + handles[h].len /\ handles[h].off + cut <= MaxLen
        BY <2>1, <2>3, <3>a, <3>b
      <4>3. \A p \in Positions : p <= handles[h].off + cut => p <= handles[h].off + handles[h].len
        BY <4>2, <2>3, <3>b
      <4> QED BY <4>1, <4>2, <4>3, <3>a
    <3>3. CASE x # g /\ x # h
      BY <3>3, <2>8, <2>11 DEF Inv, Intact
    <3> QED BY <3>1, <3>2, <3>3
  <2>12. Intact'
    BY <2>1, <2>11, Zenon DEF Intact
  <2> QED BY <2>7, <2>10, <2>12
<1> QED BY <1>1, <1>2, <1>3

\* A header written in place: the other handles read other allocations.
LEMMA PrefixStep ==
    ASSUME Constants, Inv, NEW h \in Handles, NEW n \in 1 .. MaxLen, try_add_prefix(h, n)
    PROVE  Inv'
<1> DEFINE b == handles[h].buf
           start == handles[h].off - n
           size == handles[h].len + n
           Over(bytes) == [p \in Positions |-> IF p > start /\ p <= handles[h].off THEN 0 ELSE bytes[p]]
           want == Over(handles[h].want)
           bytes == Over(data[b])
           grown == [handles[h] EXCEPT !.off = start, !.len = size, !.want = want]
           R == [buf : Buffers \cup {None}, arc : BOOLEAN, off : Nat, len : Nat, want : [Positions -> Bytes]]
<1>1. /\ b # None /\ handles[h].off >= n /\ Owners(b) = {h}
      /\ data' = [data EXCEPT ![b] = bytes]
      /\ handles' = [handles EXCEPT ![h] = grown]
      /\ UNCHANGED <<bins, returned, capacity>>
  BY Zenon DEF try_add_prefix, Prefixed
<1>2. handles[h] \in R /\ n \in Nat /\ MaxLen \in Nat /\ Positions \subseteq Nat
  BY DEF Inv, Types, Constants, Positions
<1>3. b \in Buffers /\ data[b] \in [Positions -> Bytes] /\ handles[h].want \in [Positions -> Bytes]
  BY <1>1, <1>2 DEF Inv, Types
<1>4. start \in Nat /\ size \in Nat /\ start + size = handles[h].off + handles[h].len
  BY <1>1, <1>2
<1>5. want \in [Positions -> Bytes] /\ bytes \in [Positions -> Bytes]
  BY <1>3 DEF Bytes
<1>6. /\ handles[h].off + handles[h].len <= MaxLen
      /\ \A p \in Positions : p > handles[h].off /\ p <= handles[h].off + handles[h].len =>
            data[b][p] = handles[h].want[p]
  BY <1>1 DEF Inv, Intact
<1>7. \A p \in Positions : p > start /\ p <= start + size => bytes[p] = want[p]
  <2> SUFFICES ASSUME NEW p \in Positions, p > start, p <= handles[h].off + handles[h].len
               PROVE  bytes[p] = want[p]
    BY <1>4
  <2>1. CASE p <= handles[h].off
    BY <2>1
  <2>2. CASE ~(p <= handles[h].off)
    <3>1. p > handles[h].off
      BY <2>2, <1>2
    <3> QED BY <3>1, <2>2, <1>6
  <2> QED BY <2>1, <2>2
<1> HIDE DEF start, size, want, bytes
<1>8. /\ grown \in R
      /\ grown.buf = b /\ grown.off = start /\ grown.len = size /\ grown.want = want
  BY <1>2, <1>4, <1>5, Zenon
<1> HIDE DEF grown
<1>9. \A x \in Handles : handles'[x] = IF x = h THEN grown ELSE handles[x]
  BY <1>1 DEF Inv, Types
<1>10. data'[b] = bytes /\ \A c \in Buffers : c # b => data'[c] = data[c]
  BY <1>1, <1>3 DEF Inv, Types
<1>11. Types'
  BY <1>1, <1>3, <1>5, <1>8 DEF Inv, Types
<1>12. \A c \in Buffers : Owned(c)' <=> Owned(c)
  BY <1>8, <1>9 DEF Owned
<1>13. Apart'
  BY <1>1, <1>12 DEF Inv, Apart, InBin
<1>14. ASSUME NEW x \in Handles, handles'[x].buf # None
       PROVE  /\ handles'[x].off + handles'[x].len <= MaxLen
              /\ \A p \in Positions : p > handles'[x].off /\ p <= handles'[x].off + handles'[x].len =>
                    data'[handles'[x].buf][p] = handles'[x].want[p]
  <2>1. CASE x = h
    <3>1. handles'[x].buf = b /\ handles'[x].off = start /\ handles'[x].len = size /\ handles'[x].want = want
      BY <2>1, <1>8, <1>9
    <3> QED BY <3>1, <1>4, <1>6, <1>7, <1>10
  <2>2. CASE x # h
    <3>1. handles'[x] = handles[x] /\ handles[x].buf # b
      BY <2>2, <1>1, <1>9 DEF Owners
    <3>2. handles[x].buf \in Buffers
      BY <3>1, <1>14 DEF Inv, Types
    <3>3. data'[handles'[x].buf] = data[handles[x].buf]
      BY <3>1, <3>2, <1>10
    <3> QED BY <3>1, <3>3, <1>14 DEF Inv, Intact
  <2> QED BY <2>1, <2>2
<1>15. Intact'
  BY <1>14 DEF Intact
<1> QED BY <1>11, <1>13, <1>15 DEF Inv

\* The last handle to go gives the allocation up; no other handle reads it.
LEMMA DropStep ==
    ASSUME Constants, Inv, NEW h \in Handles, Drop(h)
    PROVE  Inv'
<1> DEFINE b == handles[h].buf
           last == Owners(b) = {h}
           room == Cardinality(returned) < ReturnCapacity
           blank == [p \in Positions |-> 0]
<1>1. /\ b # None
      /\ handles' = [handles EXCEPT ![h] = Dropped]
      /\ returned' = IF last /\ room THEN returned \cup {b} ELSE returned
      /\ capacity' = IF last /\ ~room THEN [capacity EXCEPT ![b] = 0] ELSE capacity
      /\ data' = IF last THEN [data EXCEPT ![b] = blank] ELSE data
      /\ bins' = bins
  BY DEF Drop
<1>2. b \in Buffers /\ Owned(b)
  BY <1>1 DEF Inv, Types, Owned
<1>3. blank \in [Positions -> Bytes] /\ Dropped.buf = None
      /\ Dropped \in [buf : Buffers \cup {None}, arc : BOOLEAN, off : Nat, len : Nat, want : [Positions -> Bytes]]
  BY DEF Dropped, Bytes
<1>4. \A x \in Handles : handles'[x] = IF x = h THEN Dropped ELSE handles[x]
  BY <1>1 DEF Inv, Types
<1>5. \A x \in Handles : x # h /\ handles[x].buf = b => ~last
  BY DEF Owners
<1>6. ~last => \E x \in Handles : x # h /\ handles[x].buf = b
  BY DEF Owners
<1> HIDE DEF last, room, blank
<1>7. Types'
  BY <1>1, <1>2, <1>3 DEF Inv, Types
<1>8. \A c \in Buffers : Owned(c)' <=> Owned(c) /\ ~(c = b /\ last)
  <2> SUFFICES ASSUME NEW c \in Buffers PROVE Owned(c)' <=> Owned(c) /\ ~(c = b /\ last)
    OBVIOUS
  <2>1. Owned(c)' => Owned(c) /\ ~(c = b /\ last)
    BY <1>3, <1>4, <1>5 DEF Owned, Constants
  <2>2. Owned(c) /\ c # b => Owned(c)'
    BY <1>4 DEF Owned
  <2>3. c = b /\ ~last => Owned(c)'
    BY <1>4, <1>6 DEF Owned
  <2> QED BY <2>1, <2>2, <2>3
<1>9. \A c \in Buffers : InBin(c)' <=> InBin(c)
  BY <1>1 DEF InBin
<1>10. \A c \in Buffers : capacity'[c] = IF c = b /\ last /\ ~room THEN 0 ELSE capacity[c]
  BY <1>1, <1>2 DEF Inv, Types
<1>11. Apart'
  <2>1. \A c \in Buffers, i, j \in Bins : c \in bins'[i] /\ c \in bins'[j] => i = j
    BY <1>1 DEF Inv, Apart
  <2>2. \A c \in Buffers : InBin(c)' => c \notin returned' /\ ~Owned(c)'
    BY <1>1, <1>2, <1>8, <1>9 DEF Inv, Apart
  <2>3. \A c \in Buffers : c \in returned' => ~Owned(c)'
    BY <1>1, <1>2, <1>8 DEF Inv, Apart
  <2>4. \A c \in Buffers : capacity'[c] # 0 <=> c \in returned' \/ Owned(c)' \/ InBin(c)'
    BY <1>1, <1>2, <1>8, <1>9, <1>10 DEF Inv, Apart
  <2> QED BY <2>1, <2>2, <2>3, <2>4 DEF Apart, Bins
<1>12. ASSUME NEW x \in Handles, handles'[x].buf # None
       PROVE  handles'[x] = handles[x] /\ data'[handles[x].buf] = data[handles[x].buf]
  <2>1. x # h /\ handles'[x] = handles[x]
    BY <1>3, <1>4, <1>12
  <2>2. handles[x].buf \in Buffers
    BY <2>1, <1>12 DEF Inv, Types
  <2> QED BY <2>1, <2>2, <1>1, <1>2, <1>5 DEF Inv, Types
<1>13. Intact'
  <2> SUFFICES ASSUME NEW x \in Handles, handles'[x].buf # None
               PROVE  /\ handles'[x].off + handles'[x].len <= MaxLen
                      /\ \A p \in Positions : p > handles'[x].off /\ p <= handles'[x].off + handles'[x].len =>
                            data'[handles'[x].buf][p] = handles'[x].want[p]
    BY DEF Intact
  <2> QED BY <1>12 DEF Inv, Intact
<1> QED BY <1>7, <1>11, <1>13 DEF Inv

\* What drain_returned leaves: a kept buffer moves into exactly one bin, a buffer
\* that is not kept is freed.
LEMMA DrainFacts ==
    ASSUME Constants, Inv, NEW kept \in SUBSET returned, checkin(kept)
    PROVE  LET pool == drain_returned(kept)
               left == [b \in Buffers |-> IF b \in returned \ kept THEN 0 ELSE capacity[b]]
           IN  /\ pool \in [Bins -> SUBSET Buffers] /\ left \in [Buffers -> Nat]
               /\ \A c \in Buffers, i, j \in Bins : c \in pool[i] /\ c \in pool[j] => i = j
               /\ \A c \in Buffers, i \in Bins : c \in pool[i] => ~Owned(c)
               /\ \A c \in Buffers : left[c] # 0 <=> Owned(c) \/ \E i \in Bins : c \in pool[i]
<1> DEFINE pool == drain_returned(kept)
           left == [b \in Buffers |-> IF b \in returned \ kept THEN 0 ELSE capacity[b]]
           F(c) == bin_for_cap(Classes, capacity[c])
<1>1. returned \subseteq Buffers /\ capacity \in [Buffers -> Nat] /\ bins \in [Bins -> SUBSET Buffers]
  BY DEF Inv, Types
<1>2. \A c \in kept : F(c) # 0
  BY DEF checkin
<1>3. \A c \in kept : F(c) \in Bins
  <2> SUFFICES ASSUME NEW c \in kept PROVE F(c) \in Bins
    OBVIOUS
  <2>1. capacity[c] \in Nat /\ Table(Classes)
    BY <1>1 DEF Constants
  <2>2. F(c) \in 0 .. Len(Classes)
    BY <2>1, FiledCoversClass, SMTT(20)
  <2>3. Len(Classes) \in Nat
    BY <2>1 DEF Table
  <2> QED BY <2>2, <2>3, <1>2 DEF Bins
<1> HIDE DEF F
<1>4. pool = [i \in Bins |-> bins[i] \cup {c \in kept : F(c) = i}]
  BY DEF drain_returned, F
<1> HIDE DEF pool
<1>5. pool \in [Bins -> SUBSET Buffers] /\ left \in [Buffers -> Nat]
  BY <1>1, <1>4
<1>6. \A c \in Buffers, i \in Bins : c \in pool[i] <=> c \in bins[i] \/ (c \in kept /\ F(c) = i)
  BY <1>4
<1>7. \A c \in Buffers : (\E i \in Bins : c \in pool[i]) <=> InBin(c) \/ c \in kept
  BY <1>3, <1>6 DEF InBin
<1>8. \A c \in Buffers, i, j \in Bins : c \in pool[i] /\ c \in pool[j] => i = j
  BY <1>6 DEF Inv, Apart, InBin
<1>9. \A c \in Buffers, i \in Bins : c \in pool[i] => ~Owned(c)
  BY <1>7 DEF Inv, Apart
<1>10. \A c \in Buffers : left[c] # 0 <=> Owned(c) \/ \E i \in Bins : c \in pool[i]
  BY <1>7 DEF Inv, Apart
<1> QED BY <1>5, <1>8, <1>9, <1>10 DEF pool

\* A buffer nobody holds is lent: it leaves the pool for its new handle.
LEMMA LendStep ==
    ASSUME Constants, Inv, NEW h \in Handles, handles[h] = Dropped,
           NEW b \in Buffers, ~Owned(b),
           NEW len \in 1 .. MaxLen, NEW payload \in Payloads, Lend(h, b, len, payload),
           returned' = {}, bins' \in [Bins -> SUBSET Buffers], capacity' \in [Buffers -> Nat],
           \A c \in Buffers, i, j \in Bins : c \in bins'[i] /\ c \in bins'[j] => i = j,
           \A c \in Buffers, i \in Bins : c \in bins'[i] => c # b /\ ~Owned(c),
           \A c \in Buffers : capacity'[c] # 0 <=> c = b \/ Owned(c) \/ \E i \in Bins : c \in bins'[i]
    PROVE  Inv'
<1> DEFINE bytes == [p \in Positions |-> IF p <= len THEN payload ELSE 0]
           new == [buf |-> b, arc |-> FALSE, off |-> 0, len |-> len, want |-> bytes]
<1>1. data' = [data EXCEPT ![b] = bytes] /\ handles' = [handles EXCEPT ![h] = new]
  BY DEF Lend
<1>2. bytes \in [Positions -> Bytes] /\ len \in Nat /\ len <= MaxLen
  BY DEF Bytes, Constants
<1> HIDE DEF bytes
<1>3. /\ new \in [buf : Buffers \cup {None}, arc : BOOLEAN, off : Nat, len : Nat, want : [Positions -> Bytes]]
      /\ new.buf = b /\ new.off = 0 /\ new.len = len /\ new.want = bytes
  BY <1>2
<1> HIDE DEF new
<1>4. \A x \in Handles : handles'[x] = IF x = h THEN new ELSE handles[x]
  BY <1>1 DEF Inv, Types
<1>5. Types'
  BY <1>1, <1>2, <1>3 DEF Inv, Types
<1>6. \A c \in Buffers : Owned(c)' <=> Owned(c) \/ c = b
  <2>1. handles[h].buf \notin Buffers
    BY DEF Dropped, Constants
  <2> QED BY <2>1, <1>3, <1>4 DEF Owned
<1>7. Apart'
  BY <1>6 DEF Apart, InBin
<1>8. ASSUME NEW x \in Handles, handles'[x].buf # None
      PROVE  /\ handles'[x].off + handles'[x].len <= MaxLen
             /\ \A p \in Positions : p > handles'[x].off /\ p <= handles'[x].off + handles'[x].len =>
                   data'[handles'[x].buf][p] = handles'[x].want[p]
  <2>1. CASE x = h
    <3>1. data'[b] = bytes
      BY <1>1 DEF Inv, Types
    <3>2. handles'[x].buf = b /\ handles'[x].off = 0 /\ handles'[x].len = len /\ handles'[x].want = bytes
      BY <2>1, <1>3, <1>4
    <3> QED BY <3>1, <3>2, <1>2
  <2>2. CASE x # h
    <3>1. handles'[x] = handles[x] /\ handles[x].buf # b
      BY <2>2, <1>4 DEF Owned
    <3>2. data'[handles[x].buf] = data[handles[x].buf]
      BY <3>1, <1>1, <1>8 DEF Inv, Types
    <3> QED BY <3>1, <3>2, <1>8 DEF Inv, Intact
  <2> QED BY <2>1, <2>2
<1>9. Intact'
  BY <1>8 DEF Intact
<1> QED BY <1>5, <1>7, <1>9 DEF Inv

\* A call into the addon takes a pooled buffer or allocates one; either was free.
LEMMA CopyStep ==
    ASSUME Constants, Inv, NEW h \in Handles, NEW len \in 1 .. MaxLen, NEW payload \in Payloads,
           copy_napi_buffer(h, len, payload)
    PROVE  Inv'
<1> DEFINE bin == bin_for(Classes, len)
<1>1. PICK kept \in SUBSET returned :
         LET pool == drain_returned(kept)
             usable == {i \in Bins : bin # 0 /\ i >= bin /\ pool[i] # {}}
             left == [b \in Buffers |-> IF b \in returned \ kept THEN 0 ELSE capacity[b]]
         IN  /\ checkin(kept)
             /\ \/ /\ usable # {}
                   /\ \E b \in pool[Least(usable)] :
                         /\ bins' = [pool EXCEPT ![Least(usable)] = @ \ {b}]
                         /\ capacity' = left
                         /\ Lend(h, b, len, payload)
                \/ /\ usable = {}
                   /\ \E b \in Buffers :
                         /\ left[b] = 0
                         /\ bins' = pool
                         /\ capacity' = [left EXCEPT ![b] = IF bin = 0 THEN len ELSE Classes[bin]]
                         /\ Lend(h, b, len, payload)
  BY Zenon DEF copy_napi_buffer
<1>2. handles[h] = Dropped /\ returned' = {}
  BY DEF copy_napi_buffer
<1> DEFINE pool == drain_returned(kept)
           usable == {i \in Bins : bin # 0 /\ i >= bin /\ pool[i] # {}}
           left == [b \in Buffers |-> IF b \in returned \ kept THEN 0 ELSE capacity[b]]
           k == Least(usable)
<1>3. checkin(kept)
  BY <1>1
<1>4. /\ pool \in [Bins -> SUBSET Buffers] /\ left \in [Buffers -> Nat]
      /\ \A c \in Buffers, i, j \in Bins : c \in pool[i] /\ c \in pool[j] => i = j
      /\ \A c \in Buffers, i \in Bins : c \in pool[i] => ~Owned(c)
      /\ \A c \in Buffers : left[c] # 0 <=> Owned(c) \/ \E i \in Bins : c \in pool[i]
  BY <1>3, DrainFacts
<1> HIDE DEF pool, left
<1>5. ASSUME usable # {}, NEW b \in pool[k], bins' = [pool EXCEPT ![k] = @ \ {b}],
             capacity' = left, Lend(h, b, len, payload)
      PROVE  Inv'
  <2>1. usable \subseteq Nat /\ usable \subseteq Bins
    BY DEF Bins
  <2> HIDE DEF usable
  <2>2. k \in Bins
    BY <2>1, <1>5, LeastIsLeast, Zenon
  <2> HIDE DEF k
  <2>3. b \in Buffers /\ ~Owned(b)
    BY <2>2, <1>4
  <2>4. bins' \in [Bins -> SUBSET Buffers]
    BY <2>2, <1>4, <1>5
  <2>5. \A c \in Buffers, i \in Bins : c \in bins'[i] <=> c \in pool[i] /\ c # b
    BY <2>2, <2>3, <1>4, <1>5
  <2>6. \A c \in Buffers : capacity'[c] # 0 <=> c = b \/ Owned(c) \/ \E i \in Bins : c \in bins'[i]
    BY <2>2, <2>3, <2>5, <1>4, <1>5
  <2>7. capacity' \in [Buffers -> Nat]
    BY <1>4, <1>5
  <2>8. /\ \A c \in Buffers, i, j \in Bins : c \in bins'[i] /\ c \in bins'[j] => i = j
        /\ \A c \in Buffers, i \in Bins : c \in bins'[i] => c # b /\ ~Owned(c)
    BY <2>5, <1>4
  <2> QED BY <1>2, <1>5, <2>3, <2>4, <2>6, <2>7, <2>8, LendStep
<1>6. ASSUME NEW b \in Buffers, left[b] = 0, bins' = pool,
             capacity' = [left EXCEPT ![b] = IF bin = 0 THEN len ELSE Classes[bin]],
             Lend(h, b, len, payload)
      PROVE  Inv'
  <2> DEFINE size == IF bin = 0 THEN len ELSE Classes[bin]
  <2>1. size \in Nat \ {0}
    <3>1. len \in Nat /\ len # 0 /\ Table(Classes)
      BY DEF Constants
    <3>2. bin \in 0 .. Len(Classes)
      BY <3>1, RequestFitsClass
    <3> HIDE DEF bin
    <3>3. Len(Classes) \in Nat /\ \A i \in 1 .. Len(Classes) : Classes[i] \in Nat \ {0}
      BY <3>1 DEF Table
    <3>4. bin # 0 => bin \in 1 .. Len(Classes)
      BY <3>2, <3>3
    <3> QED BY <3>1, <3>3, <3>4
  <2>2. capacity' = [left EXCEPT ![b] = size]
    BY <1>6
  <2> HIDE DEF size
  <2>3. ~Owned(b) /\ \A i \in Bins : b \notin pool[i]
    BY <1>4, <1>6
  <2>4. capacity' \in [Buffers -> Nat] /\ bins' \in [Bins -> SUBSET Buffers]
    BY <2>1, <2>2, <1>4, <1>6
  <2>5. \A c \in Buffers : capacity'[c] # 0 <=> c = b \/ Owned(c) \/ \E i \in Bins : c \in bins'[i]
    BY <2>1, <2>2, <1>4, <1>6
  <2>6. /\ \A c \in Buffers, i, j \in Bins : c \in bins'[i] /\ c \in bins'[j] => i = j
        /\ \A c \in Buffers, i \in Bins : c \in bins'[i] => c # b /\ ~Owned(c)
    BY <2>3, <1>4, <1>6
  <2> QED BY <1>2, <1>6, <2>3, <2>4, <2>5, <2>6, LendStep
<1> QED BY <1>1, <1>5, <1>6, Zenon DEF pool, left

\* The invariant is inductive, for every instance of the constants.
LEMMA InvStep == ASSUME Constants, Inv, [Next]_vars PROVE Inv'
<1>1. CASE UNCHANGED vars
  BY <1>1 DEF vars, Inv, Types, Apart, Owned, InBin, Intact
<1>2. ASSUME NEW h \in Handles, NEW len \in 1 .. MaxLen, NEW payload \in Payloads,
             copy_napi_buffer(h, len, payload)
      PROVE  Inv'
  BY <1>2, CopyStep
<1>3. ASSUME NEW h \in Handles,
             \/ from_chunk(h)
             \/ \E g \in Handles : clone(h, g)
             \/ \E g \in Handles, cut \in 0 .. MaxLen : split_at(h, g, cut)
      PROVE  Inv'
  BY <1>3, HandleSteps
<1>4. ASSUME NEW h \in Handles, NEW n \in 1 .. MaxLen, try_add_prefix(h, n) PROVE Inv'
  BY <1>4, PrefixStep
<1>5. ASSUME NEW h \in Handles, Drop(h) PROVE Inv'
  BY <1>5, DropStep
<1> QED BY <1>1, <1>2, <1>3, <1>4, <1>5, Zenon DEF Next

\* Whatever the number of payloads in flight, the sizes and the limits: memory
\* that a Chunk or ArcBuf still reads is in no bin and not in the return
\* channel, so ChunkPool::checkout_copy never lends it to another payload.
THEOREM OneOwnerAlways == ASSUME Constants PROVE Spec => []OneOwner
<1>1. Init => Inv
  BY InvInit
<1>2. Inv /\ [Next]_vars => Inv'
  BY InvStep
<1>3. Inv => OneOwner
  <2> SUFFICES ASSUME Inv PROVE OneOwner
    OBVIOUS
  <2>1. \A b \in Buffers : Owned(b) <=> b \in InUse
    BY DEF Owned, InUse, Owners
  <2>2. bins \in [Bins -> SUBSET Buffers] /\ returned \subseteq Buffers /\ InUse \subseteq Buffers
    BY DEF Inv, Types, InUse
  <2>3. \A b \in Buffers : InBin(b) <=> b \in UNION {Pooled(i) : i \in Bins}
    BY DEF InBin, Pooled
  <2>4. \A i \in Bins : \A b \in bins[i] : b \in Buffers /\ InBin(b)
    BY <2>2 DEF InBin
  <2>5. \A i, j \in Bins : i # j => Pooled(i) \cap Pooled(j) = {}
    BY <2>4 DEF Inv, Apart, Pooled
  <2>6. \A i \in Bins : Pooled(i) \cap (returned \cup InUse) = {}
    BY <2>1, <2>4 DEF Inv, Apart, Pooled
  <2>7. returned \cap InUse = {}
    BY <2>1, <2>2 DEF Inv, Apart
  <2>8. \A b \in Buffers : capacity[b] # 0 <=> b \in returned \cup InUse \cup UNION {Pooled(i) : i \in Bins}
    BY <2>1, <2>3 DEF Inv, Apart
  <2> QED BY <2>5, <2>6, <2>7, <2>8 DEF OneOwner
<1> QED BY <1>1, <1>2, <1>3, PTL DEF Spec

\* Every window shows the bytes its owner put there: no try_add_prefix and no
\* reuse of the allocation changes what a live Chunk or ArcBuf reads.
THEOREM ContentIntactAlways == ASSUME Constants PROVE Spec => []ContentIntact
<1>1. Init => Inv
  BY InvInit
<1>2. Inv /\ [Next]_vars => Inv'
  BY InvStep
<1>3. Inv => ContentIntact
  <2> SUFFICES ASSUME Inv, NEW h \in Handles, handles[h].buf # None, NEW p \in Window(h)
               PROVE  data[handles[h].buf][p] = handles[h].want[p]
    BY DEF ContentIntact
  <2>1. handles[h].off \in Nat /\ handles[h].len \in Nat /\ MaxLen \in Nat
    BY DEF Inv, Types, Constants
  <2>2. handles[h].off + handles[h].len <= MaxLen
    BY DEF Inv, Intact
  <2>3. p \in Positions /\ p > handles[h].off /\ p <= handles[h].off + handles[h].len
    BY <2>1, <2>2 DEF Window, Positions
  <2> QED BY <2>3 DEF Inv, Intact
<1> QED BY <1>1, <1>2, <1>3, PTL DEF Spec
=============================================================================
