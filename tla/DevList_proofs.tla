---------------------------- MODULE DevList_proofs ----------------------------
(***************************************************************************)
(* Lemmas about the device list, for any cards and addresses: what each    *)
(* operation of module DevList keeps of a well-formed list.                *)
(*                                                                         *)
(* Every operation but dev_manager_set_active leaves the stamps of the     *)
(* nodes it keeps alone and gives the nodes it adds later ones, in list    *)
(* order (Follows).  That is closed under the two basic changes of the     *)
(* list, so it holds of dev_manager_add with its partial failures.  The    *)
(* searches are taken apart at the end: by stamp, by index, and around the *)
(* ring of the entries.                                                    *)
(***************************************************************************)
EXTENDS DevList, FiniteSetTheorems, NaturalsInduction, SequenceTheorems, WellFoundedInduction, TLAPS

(* The stamps of a list that has been given the ones below k. *)
StampsBelow(s, k) == \A i \in DOMAIN s : s[i].stamp < k
StampsDiffer(s) == \A i, j \in DOMAIN s : s[i].stamp = s[j].stamp => i = j
Once(s) == \A i, j \in DOMAIN s : s[i].logo = s[j].logo \/ s[i].node = s[j].node => i = j
Mounted(s) == \A i \in DOMAIN s : s[i].valid => s[i].fmnt

WellFormed(st) ==
  /\ st \in [list : Seq(Dev), counter : Nat]
  /\ Once(st.list) /\ Mounted(st.list)
  /\ StampsBelow(st.list, st.counter) /\ StampsDiffer(st.list)

(* t is well formed, and each of its entries is one of the list s with its *)
(* stamp or a new one, stamped k or later in list order.                   *)
Follows(s, k, t) ==
  /\ WellFormed(t) /\ k <= t.counter
  /\ \A j \in DOMAIN t.list :
       \/ \E i \in DOMAIN s : s[i].node = t.list[j].node /\ s[i].stamp = t.list[j].stamp
       \/ t.list[j].node \notin Nodes(s) /\ t.list[j].stamp >= k
  /\ \A i, j \in DOMAIN t.list :
       i < j /\ t.list[i].stamp >= k /\ t.list[j].stamp >= k
         => t.list[i].stamp < t.list[j].stamp

-----------------------------------------------------------------------------
(* Sequences                                                               *)

(* RemoveAt keeps the entries before the place and moves the others up. *)
LEMMA RemoveAtEntries ==
  ASSUME NEW S, NEW s \in Seq(S), NEW p \in 1..Len(s)
  PROVE  LET r == RemoveAt(s, p)
         IN  /\ r \in Seq(S) /\ Len(r) = Len(s) - 1
             /\ \A j \in 1..Len(r) : r[j] = IF j < p THEN s[j] ELSE s[j + 1]
<1> DEFINE a == SubSeq(s, 1, p - 1)
           b == SubSeq(s, p + 1, Len(s))
<1>1. a \in Seq(S) /\ Len(a) = p - 1 /\ \A j \in 1..(p - 1) : a[j] = s[j]
  OBVIOUS
<1>2. /\ b \in Seq(S) /\ Len(b) = Len(s) - p
      /\ \A j \in 1..(Len(s) - p) : b[j] = s[j + p]
  OBVIOUS
<1>3. RemoveAt(s, p) = a \o b
  BY DEF RemoveAt
<1> HIDE DEF a, b
<1>4. a \o b \in Seq(S) /\ Len(a \o b) = Len(s) - 1
  <2>1. a \o b \in Seq(S) /\ Len(a \o b) = Len(a) + Len(b)
    BY <1>1, <1>2, ConcatProperties
  <2>2. Len(s) \in Nat
    OBVIOUS
  <2> QED
    BY <1>1, <1>2, <2>1, <2>2
<1>5. \A j \in 1..(Len(s) - 1) : (a \o b)[j] = IF j < p THEN a[j] ELSE b[j - (p - 1)]
  BY <1>1, <1>2
<1>6. \A j \in 1..(Len(s) - 1) : (a \o b)[j] = IF j < p THEN s[j] ELSE s[j + 1]
  BY <1>1, <1>2, <1>5
<1> QED
  BY <1>3, <1>4, <1>6

(* What the type of a list says of its places and entries. *)
LEMMA EntryTypes ==
  ASSUME NEW s \in Seq(Dev)
  PROVE  /\ DOMAIN s = 1..Len(s) /\ Len(s) \in Nat
         /\ \A i \in DOMAIN s : /\ s[i] \in Dev /\ s[i].node \in Node /\ s[i].stamp \in Nat
<1>1. DOMAIN s = 1..Len(s) /\ Len(s) \in Nat /\ \A i \in DOMAIN s : s[i] \in Dev
  OBVIOUS
<1>2. \A d \in Dev : d.node \in Node /\ d.stamp \in Nat
  BY DEF Dev
<1> QED
  BY <1>1, <1>2

(* The entries of a list and of the list with one more. *)
LEMMA AppendEntries ==
  ASSUME NEW S, NEW s \in Seq(S), NEW e \in S
  PROVE  /\ Append(s, e) \in Seq(S) /\ DOMAIN Append(s, e) = 1..(Len(s) + 1)
         /\ DOMAIN s = 1..Len(s)
         /\ \A j \in 1..Len(s) : Append(s, e)[j] = s[j]
         /\ Append(s, e)[Len(s) + 1] = e
  OBVIOUS

(* A set of natural numbers below a bound has a largest element. *)
LEMMA Largest ==
  ASSUME NEW k \in Nat, NEW S \in SUBSET (0..k), S # {}
  PROVE  \E m \in S : \A j \in S : j <= m
<1> DEFINE Less == OpToRel(<, Nat)
           T == {k - j : j \in S}
<1>1. IsWellFoundedOn(Less, Nat)
  BY NatLessThanWellFounded
<1>2. T \subseteq Nat /\ T # {}
  <2>1. \A j \in S : k - j \in Nat
    OBVIOUS
  <2> QED
    BY <2>1
<1>3. \A x, y \in Nat : <<y, x>> \notin Less => x <= y
  BY DEF OpToRel
<1> HIDE DEF Less
<1>4. PICK x \in T : \A y \in T : <<y, x>> \notin Less
  BY <1>1, <1>2, WFMin
<1>5. \A y \in T : x <= y
  BY <1>2, <1>3, <1>4
<1>6. PICK m \in S : x = k - m
  OBVIOUS
<1>7. \A j \in S : k - m <= k - j
  BY <1>5, <1>6
<1> QED
  BY <1>7

-----------------------------------------------------------------------------
(* The changes of the list                                                 *)

LEMMA FollowsItself ==
  ASSUME NEW st, WellFormed(st)
  PROVE  Follows(st.list, st.counter, st)
<1>1. st.counter \in Nat /\ \A j \in DOMAIN st.list : st.list[j].stamp < st.counter
  BY DEF WellFormed, StampsBelow
<1>2. st.list \in Seq(Dev)
  BY DEF WellFormed
<1>3. \A j \in DOMAIN st.list : st.list[j].stamp \in Nat
  BY <1>2, EntryTypes
<1> QED
  BY <1>1, <1>3 DEF Follows

(* A change that only mounts, unmounts or marks. *)
LEMMA MarkFollows ==
  ASSUME NEW st, WellFormed(st), NEW t, t \in Seq(Dev), Len(t) = Len(st.list), Mounted(t),
         \A i \in 1..Len(t) : /\ t[i].node = st.list[i].node /\ t[i].logo = st.list[i].logo
                              /\ t[i].stamp = st.list[i].stamp
  PROVE  /\ Follows(st.list, st.counter, [list |-> t, counter |-> st.counter])
         /\ Nodes(t) = Nodes(st.list)
<1> DEFINE u == [list |-> t, counter |-> st.counter]
<1>1. /\ st.list \in Seq(Dev) /\ st.counter \in Nat
      /\ DOMAIN t = 1..Len(t) /\ DOMAIN st.list = DOMAIN t
  BY DEF WellFormed
<1>2. Once(t) /\ StampsBelow(t, st.counter) /\ StampsDiffer(t)
  BY <1>1 DEF WellFormed, Once, StampsBelow, StampsDiffer
<1>3. WellFormed(u)
  BY <1>1, <1>2 DEF WellFormed
<1>4. \A i \in DOMAIN t : t[i].stamp \in Nat /\ t[i].stamp < st.counter
  BY <1>2, EntryTypes DEF StampsBelow
<1>5. Nodes(t) = Nodes(st.list)
  BY <1>1 DEF Nodes
<1> HIDE DEF u
<1>6. u.list = t /\ u.counter = st.counter
  BY DEF u
<1>7. \A j \in DOMAIN t : \E i \in DOMAIN st.list : /\ st.list[i].node = t[j].node
                                                   /\ st.list[i].stamp = t[j].stamp
  BY <1>1
<1>8. \A i \in DOMAIN t : ~(t[i].stamp >= st.counter)
  BY <1>1, <1>4
<1>9. Follows(st.list, st.counter, u)
  BY <1>1, <1>3, <1>6, <1>7, <1>8 DEF Follows
<1> QED
  BY <1>5, <1>9 DEF u

(* __dev_manager_add, whatever becomes of the allocation and the mount. *)
LEMMA AddOneFollows ==
  ASSUME NEW s, NEW k \in Nat, NEW t, Follows(s, k, t), NEW l, NEW out,
         NEW n \in Node, n \notin Nodes(s), n \notin Nodes(t.list)
  PROVE  /\ Follows(s, k, AddOne(t, n, l, out))
         /\ Nodes(AddOne(t, n, l, out).list) \subseteq Nodes(t.list) \cup {n}
<1>1. CASE AddResult(t, l, out) \notin {"mounted", "no_fs"}
  BY <1>1 DEF AddOne
<1>2. CASE AddResult(t, l, out) \in {"mounted", "no_fs"}
  <2> DEFINE e == [node |-> n, logo |-> l, fmnt |-> out = "mounted",
                   valid |-> out = "mounted", stamp |-> t.counter]
             u == Append(t.list, e)
             r == [list |-> u, counter |-> t.counter + 1]
  <2>1. AddOne(t, n, l, out) = r
    BY <1>2 DEF AddOne
  <2>2. l \in Registry /\ Places(t.list, l) = {}
    BY <1>2 DEF AddResult, ListCheckByLogo
  <2>3. t.list \in Seq(Dev) /\ t.counter \in Nat /\ k <= t.counter /\ WellFormed(t)
    BY DEF Follows, WellFormed
  <2>4. e \in Dev /\ e.node = n /\ e.logo = l /\ e.stamp = t.counter /\ (e.valid => e.fmnt)
    BY <2>2, <2>3, DevAssumption DEF Dev, Registry, Logo
  <2> HIDE DEF e
  <2>5. /\ u \in Seq(Dev) /\ DOMAIN u = 1..(Len(t.list) + 1) /\ DOMAIN t.list = 1..Len(t.list)
        /\ \A j \in DOMAIN t.list : u[j] = t.list[j]
        /\ u[Len(t.list) + 1] = e /\ Len(t.list) \in Nat
    BY <2>3, <2>4, AppendEntries
  <2> HIDE DEF u
  <2>6. \A j \in DOMAIN u : j \in DOMAIN t.list \/ j = Len(t.list) + 1
    BY <2>5
  <2>7. \A j \in DOMAIN t.list : /\ t.list[j].node # n /\ t.list[j].logo # l
                                 /\ t.list[j].stamp \in Nat /\ t.list[j].stamp < t.counter
    BY <2>2, <2>3, EntryTypes DEF Nodes, Places, WellFormed, StampsBelow
  <2>8. Once(u)
    BY <2>3, <2>4, <2>5, <2>6, <2>7 DEF WellFormed, Once
  <2>9. Mounted(u)
    BY <2>3, <2>4, <2>5, <2>6 DEF WellFormed, Mounted
  <2>10. StampsBelow(u, t.counter + 1)
    BY <2>3, <2>4, <2>5, <2>6, <2>7 DEF StampsBelow
  <2>11. StampsDiffer(u)
    BY <2>3, <2>4, <2>5, <2>6, <2>7 DEF WellFormed, StampsDiffer
  <2>12. WellFormed(r)
    BY <2>3, <2>5, <2>8, <2>9, <2>10, <2>11 DEF WellFormed
  <2>13. \A j \in DOMAIN u :
           \/ \E i \in DOMAIN s : s[i].node = u[j].node /\ s[i].stamp = u[j].stamp
           \/ u[j].node \notin Nodes(s) /\ u[j].stamp >= k
    BY <2>3, <2>4, <2>5, <2>6 DEF Follows
  <2>14. \A i, j \in DOMAIN u : i < j /\ u[i].stamp >= k /\ u[j].stamp >= k
                                  => u[i].stamp < u[j].stamp
    <3> SUFFICES ASSUME NEW i \in DOMAIN u, NEW j \in DOMAIN u, i < j,
                        u[i].stamp >= k, u[j].stamp >= k
                 PROVE  u[i].stamp < u[j].stamp
      OBVIOUS
    <3>1. i \in DOMAIN t.list
      BY <2>5
    <3>2. CASE j \in DOMAIN t.list
      BY <2>5, <3>1, <3>2 DEF Follows
    <3>3. CASE j = Len(t.list) + 1
      BY <2>4, <2>5, <2>7, <3>1, <3>3
    <3> QED
      BY <2>6, <3>2, <3>3
  <2>15. Follows(s, k, r)
    BY <2>3, <2>12, <2>13, <2>14 DEF Follows
  <2>16. Nodes(u) \subseteq Nodes(t.list) \cup {n}
    BY <2>4, <2>5, <2>6 DEF Nodes
  <2> QED
    BY <2>1, <2>15, <2>16
<1> QED
  BY <1>1, <1>2

(* t is the list s without some of its entries, all of whose logos are in L. *)
Thinned(s, t, L) ==
  /\ \A j \in DOMAIN t : \E i \in DOMAIN s : t[j] = s[i]
  /\ \A i \in DOMAIN s : s[i].logo \notin L => \E j \in DOMAIN t : t[j] = s[i]

(* __dev_manager_del *)
LEMMA DelOneFollows ==
  ASSUME NEW s, NEW k \in Nat, NEW t, Follows(s, k, t), NEW l
  PROVE  /\ Follows(s, k, DelOne(t, l))
         /\ Nodes(DelOne(t, l).list) \subseteq Nodes(t.list)
         /\ Thinned(t.list, DelOne(t, l).list, {l})
         /\ ~ListCheckByLogo(DelOne(t, l).list, l)
<1>1. CASE ~ListCheckByLogo(t.list, l)
  BY <1>1 DEF DelOne, Thinned
<1>2. CASE ListCheckByLogo(t.list, l)
  <2> DEFINE p == CHOOSE i \in Places(t.list, l) : \A j \in Places(t.list, l) : i <= j
             u == RemoveAt(t.list, p)
             r == [t EXCEPT !.list = u]
  <2>1. DelOne(t, l) = r
    BY <1>2 DEF DelOne, ListCheckByLogo
  <2>2. WellFormed(t) /\ t.list \in Seq(Dev) /\ t.counter \in Nat /\ k <= t.counter
    BY DEF Follows, WellFormed
  <2>3. p \in 1..Len(t.list) /\ t.list[p].logo = l
    <3>1. PICK i \in DOMAIN t.list : t.list[i].logo = l
      BY <1>2 DEF ListCheckByLogo, Places
    <3>2. Places(t.list, l) = {i}
      BY <2>2, <3>1 DEF Places, WellFormed, Once
    <3>3. i \in Places(t.list, l) /\ \A j \in Places(t.list, l) : i <= j
      BY <2>2, <3>2
    <3>4. p \in Places(t.list, l)
      BY <3>3
    <3> QED
      BY <2>2, <3>4, EntryTypes DEF Places
  <2> HIDE DEF p
  <2>4. /\ u \in Seq(Dev) /\ Len(u) = Len(t.list) - 1
        /\ \A j \in 1..Len(u) : u[j] = IF j < p THEN t.list[j] ELSE t.list[j + 1]
    BY <2>2, <2>3, RemoveAtEntries
  <2> HIDE DEF u
  <2> DEFINE at(j) == IF j < p THEN j ELSE j + 1
  <2>5. /\ DOMAIN u = 1..Len(u) /\ Len(u) \in Nat
        /\ DOMAIN t.list = 1..Len(t.list) /\ Len(t.list) \in Nat
    BY <2>2, <2>4
  <2>6. p \in Int
    BY <2>3
  <2>7. /\ \A j \in DOMAIN u : at(j) \in DOMAIN t.list \ {p} /\ u[j] = t.list[at(j)]
        /\ \A i, j \in DOMAIN u : (i < j => at(i) < at(j)) /\ (at(i) = at(j) => i = j)
    BY <2>3, <2>4, <2>5, <2>6
  <2> HIDE DEF at
  <2>8. Once(u) /\ Mounted(u) /\ StampsBelow(u, t.counter) /\ StampsDiffer(u)
    BY <2>2, <2>7 DEF WellFormed, Once, Mounted, StampsBelow, StampsDiffer
  <2>9. r \in [list : Seq(Dev), counter : Nat] /\ r.list = u /\ r.counter = t.counter
    BY <2>2, <2>4 DEF WellFormed
  <2> HIDE DEF r
  <2>10. WellFormed(r)
    BY <2>8, <2>9 DEF WellFormed
  <2>11. \A j \in DOMAIN u :
           \/ \E i \in DOMAIN s : s[i].node = u[j].node /\ s[i].stamp = u[j].stamp
           \/ u[j].node \notin Nodes(s) /\ u[j].stamp >= k
    BY <2>7 DEF Follows
  <2>12. \A i, j \in DOMAIN u : i < j /\ u[i].stamp >= k /\ u[j].stamp >= k
                                  => u[i].stamp < u[j].stamp
    BY <2>7 DEF Follows
  <2>13. Follows(s, k, r)
    BY <2>2, <2>9, <2>10, <2>11, <2>12 DEF Follows
  <2>14. Nodes(u) \subseteq Nodes(t.list)
    BY <2>7 DEF Nodes
  <2>15. Thinned(t.list, u, {l})
    <3>1. ASSUME NEW i \in DOMAIN t.list, t.list[i].logo # l
          PROVE  \E j \in DOMAIN u : u[j] = t.list[i]
      <4> DEFINE j == IF i < p THEN i ELSE i - 1
      <4>1. i # p /\ i \in 1..Len(t.list)
        BY <2>3, <2>5, <3>1
      <4>2. j \in DOMAIN u /\ at(j) = i
        BY <2>3, <2>4, <2>5, <2>6, <4>1 DEF at
      <4> QED
        BY <2>7, <4>2
    <3> QED
      BY <2>7, <3>1 DEF Thinned
  <2>16. ~ListCheckByLogo(u, l)
    <3>1. p \in DOMAIN t.list /\ \A i \in DOMAIN t.list : t.list[i].logo = l => i = p
      BY <2>2, <2>3, <2>5 DEF WellFormed, Once
    <3>2. \A j \in DOMAIN u : u[j].logo # l
      BY <2>7, <3>1
    <3> QED
      BY <3>2 DEF ListCheckByLogo, Places
  <2> QED
    BY <2>1, <2>9, <2>13, <2>14, <2>15, <2>16
<1> QED
  BY <1>1, <1>2

(* dev_manager_del *)
LEMMA DelDeviceFollows ==
  ASSUME NEW s, NEW k \in Nat, NEW t, Follows(s, k, t), NEW c
  PROVE  /\ Follows(s, k, DelDevice(t, c))
         /\ Nodes(DelDevice(t, c).list) \subseteq Nodes(t.list)
         /\ Thinned(t.list, DelDevice(t, c).list, {CardLogo(c), RecLogo(c)})
         /\ ~ListCheckByLogo(DelDevice(t, c).list, CardLogo(c))
<1>1. /\ Follows(s, k, DelOne(t, CardLogo(c)))
      /\ Nodes(DelOne(t, CardLogo(c)).list) \subseteq Nodes(t.list)
      /\ Thinned(t.list, DelOne(t, CardLogo(c)).list, {CardLogo(c)})
      /\ ~ListCheckByLogo(DelOne(t, CardLogo(c)).list, CardLogo(c))
  BY DelOneFollows
<1> DEFINE u == DelOne(t, CardLogo(c))
           v == DelOne(u, RecLogo(c))
<1> HIDE DEF u
<1>2. Follows(s, k, u) => /\ Follows(s, k, v)
                          /\ Nodes(v.list) \subseteq Nodes(u.list)
                          /\ Thinned(u.list, v.list, {RecLogo(c)})
  BY DelOneFollows
<1> HIDE DEF v
<1>3. Thinned(t.list, u.list, {CardLogo(c)})
  BY <1>1 DEF u
<1>4. /\ Thinned(t.list, u.list, {CardLogo(c), RecLogo(c)})
      /\ Thinned(t.list, v.list, {CardLogo(c), RecLogo(c)})
  BY <1>1, <1>2, <1>3 DEF Thinned, u
<1>5. ~ListCheckByLogo(u.list, CardLogo(c)) /\ ~ListCheckByLogo(v.list, CardLogo(c))
  BY <1>1, <1>2 DEF Thinned, ListCheckByLogo, Places, u
<1> QED
  BY <1>1, <1>2, <1>4, <1>5 DEF DelDevice, u, v

(* dev_manager_add, with a failure of either part. *)
LEMMA AddDeviceFollows ==
  ASSUME NEW s, NEW k \in Nat, NEW t, Follows(s, k, t), NEW c, NEW outCard, NEW outRec,
         NEW n \in Node, n \notin Nodes(s), n \notin Nodes(t.list),
         NEW m \in Node, m \notin Nodes(s), m \notin Nodes(t.list), n # m
  PROVE  Follows(s, k, AddDevice(t, c, n, m, outCard, outRec))
<1> DEFINE u == AddOne(t, m, RecLogo(c), outRec)
           noMount == IF outCard = "mounted" THEN "no_fs" ELSE outCard
<1>1. Follows(s, k, u) /\ n \notin Nodes(u.list)
  BY AddOneFollows
<1>2. \A out : Follows(s, k, AddOne(t, n, CardLogo(c), out))
  BY AddOneFollows
<1> HIDE DEF u
<1>3. \A out : Follows(s, k, AddOne(u, n, CardLogo(c), out))
  BY <1>1, AddOneFollows
<1>4. Follows(s, k, DelDevice(AddOne(u, n, CardLogo(c), outCard), c))
  BY <1>3, DelDeviceFollows
<1>5. AddDevice(t, c, n, m, outCard, outRec) \in
        {AddOne(t, n, CardLogo(c), outCard), AddOne(u, n, CardLogo(c), outCard),
         DelDevice(AddOne(u, n, CardLogo(c), outCard), c), AddOne(u, n, CardLogo(c), noMount)}
  BY Zenon DEF AddDevice, u
<1> QED
  BY <1>2, <1>3, <1>4, <1>5

(* t is the list s with mounts and marks changed. *)
Marks(s, t) ==
  /\ t \in Seq(Dev) /\ Len(t) = Len(s) /\ Mounted(t)
  /\ \A i \in 1..Len(t) : t[i].node = s[i].node /\ t[i].logo = s[i].logo /\ t[i].stamp = s[i].stamp

LEMMA MarksCompose ==
  ASSUME NEW s, NEW t, NEW u, Marks(s, t), Marks(t, u)
  PROVE  Marks(s, u)
  BY DEF Marks

(* A list whose entries keep all but the two bits. *)
LEMMA MarkEntries ==
  ASSUME NEW s \in Seq(Dev), NEW t \in [DOMAIN s -> Dev],
         \A i \in DOMAIN s : /\ t[i].node = s[i].node /\ t[i].logo = s[i].logo
                             /\ t[i].stamp = s[i].stamp /\ (t[i].valid => t[i].fmnt)
  PROVE  Marks(s, t)
<1>1. DOMAIN s = 1..Len(s) /\ Len(s) \in Nat
  BY EntryTypes
<1>2. t \in [1..Len(s) -> Dev]
  BY <1>1
<1>3. t \in Seq(Dev) /\ Len(t) = Len(s)
  BY <1>1, <1>2
<1> QED
  BY <1>1, <1>3 DEF Marks, Mounted

LEMMA MountOneMarks ==
  ASSUME NEW s \in Seq(Dev), Mounted(s), NEW l, NEW ok \in BOOLEAN
  PROVE  Marks(s, MountOne(s, l, ok))
<1> DEFINE t == MountOne(s, l, ok)
<1>1. \A i \in DOMAIN s : s[i] \in Dev
  BY EntryTypes
<1>2. \A i \in DOMAIN s : LET e == [s[i] EXCEPT !.fmnt = ok, !.valid = ok]
                          IN  /\ e \in Dev /\ e.node = s[i].node /\ e.logo = s[i].logo
                              /\ e.stamp = s[i].stamp /\ e.fmnt = ok /\ e.valid = ok
  <2> TAKE i \in DOMAIN s
  <2>1. s[i] \in Dev
    BY <1>1
  <2> QED
    BY <2>1 DEF Dev
<1>3. t \in [DOMAIN s -> Dev]
  BY <1>1, <1>2 DEF MountOne
<1>4. \A i \in DOMAIN s : /\ t[i].node = s[i].node /\ t[i].logo = s[i].logo
                          /\ t[i].stamp = s[i].stamp /\ (t[i].valid => t[i].fmnt)
  BY <1>2 DEF MountOne, Mounted
<1> QED
  BY <1>3, <1>4, MarkEntries

LEMMA UnmountOneMarks ==
  ASSUME NEW s \in Seq(Dev), Mounted(s), NEW l
  PROVE  Marks(s, UnmountOne(s, l))
<1> DEFINE t == UnmountOne(s, l)
<1>1. \A i \in DOMAIN s : s[i] \in Dev
  BY EntryTypes
<1>2. \A i \in DOMAIN s : LET e == [s[i] EXCEPT !.fmnt = FALSE, !.valid = FALSE]
                          IN  /\ e \in Dev /\ e.node = s[i].node /\ e.logo = s[i].logo
                              /\ e.stamp = s[i].stamp /\ e.fmnt = FALSE /\ e.valid = FALSE
  <2> TAKE i \in DOMAIN s
  <2>1. s[i] \in Dev
    BY <1>1
  <2> QED
    BY <2>1 DEF Dev
<1>3. t \in [DOMAIN s -> Dev]
  BY <1>1, <1>2 DEF UnmountOne
<1>4. \A i \in DOMAIN s : /\ t[i].node = s[i].node /\ t[i].logo = s[i].logo
                          /\ t[i].stamp = s[i].stamp /\ (t[i].valid => t[i].fmnt)
  BY <1>2 DEF UnmountOne, Mounted
<1> QED
  BY <1>3, <1>4, MarkEntries

LEMMA SetValidMarks ==
  ASSUME NEW s \in Seq(Dev), Mounted(s), NEW n, NEW flag \in BOOLEAN
  PROVE  Marks(s, SetValid(s, n, flag))
<1> DEFINE t == SetValid(s, n, flag)
<1>1. \A i \in DOMAIN s : s[i] \in Dev
  BY EntryTypes
<1>2. \A i \in DOMAIN s : LET e == [s[i] EXCEPT !.valid = flag]
                          IN  /\ e \in Dev /\ e.node = s[i].node /\ e.logo = s[i].logo
                              /\ e.stamp = s[i].stamp /\ e.fmnt = s[i].fmnt /\ e.valid = flag
  <2> TAKE i \in DOMAIN s
  <2>1. s[i] \in Dev
    BY <1>1
  <2> QED
    BY <2>1 DEF Dev
<1>3. t \in [DOMAIN s -> Dev]
  BY <1>1, <1>2 DEF SetValid
<1>4. \A i \in DOMAIN s : /\ t[i].node = s[i].node /\ t[i].logo = s[i].logo
                          /\ t[i].stamp = s[i].stamp /\ (t[i].valid => t[i].fmnt)
  BY <1>2 DEF SetValid, Mounted
<1> QED
  BY <1>3, <1>4, MarkEntries

(* dev_manager_mount and dev_manager_unmount, with their record folders. *)
LEMMA MountDeviceMarks ==
  ASSUME NEW s \in Seq(Dev), Mounted(s), NEW c, NEW okCard \in BOOLEAN, NEW okRec \in BOOLEAN
  PROVE  Marks(s, MountDevice(s, c, okCard, okRec))
<1> DEFINE s1 == MountOne(s, CardLogo(c), okCard)
           s2 == MountOne(s1, RecLogo(c), okRec)
           s3 == UnmountOne(s2, CardLogo(c))
<1>1. Marks(s, s1)
  BY MountOneMarks
<1> HIDE DEF s1
<1>2. s1 \in Seq(Dev) /\ Mounted(s1)
  BY <1>1 DEF Marks
<1>3. Marks(s1, s2)
  BY <1>2, MountOneMarks
<1> HIDE DEF s2
<1>4. s2 \in Seq(Dev) /\ Mounted(s2)
  BY <1>3 DEF Marks
<1>5. Marks(s2, s3)
  BY <1>4, UnmountOneMarks
<1> HIDE DEF s3
<1>6. Marks(s, s2) /\ Marks(s, s3)
  BY <1>1, <1>3, <1>5, MarksCompose
<1>7. MountDevice(s, c, okCard, okRec) \in {s1, s2, s3}
  BY Zenon DEF MountDevice, s1, s2, s3
<1> QED
  BY <1>1, <1>6, <1>7

LEMMA UnmountDeviceMarks ==
  ASSUME NEW s \in Seq(Dev), Mounted(s), NEW c
  PROVE  Marks(s, UnmountDevice(s, c))
<1> DEFINE u == UnmountOne(s, RecLogo(c))
<1>1. Marks(s, u) /\ Marks(s, UnmountOne(s, CardLogo(c)))
  BY UnmountOneMarks
<1> HIDE DEF u
<1>2. u \in Seq(Dev) /\ Mounted(u)
  BY <1>1 DEF Marks
<1>3. Marks(u, UnmountOne(u, CardLogo(c)))
  BY <1>2, UnmountOneMarks
<1>4. Marks(s, UnmountOne(u, CardLogo(c)))
  BY <1>1, <1>3, MarksCompose
<1> QED
  BY <1>1, <1>4 DEF UnmountDevice, u

(* dev_manager_set_active gives one node the latest stamp and changes      *)
(* nothing else.                                                           *)
LEMMA SetActiveStamps ==
  ASSUME NEW st, WellFormed(st), NEW n, Check(st.list, n)
  PROVE  LET t == SetActive(st, n)
         IN  /\ WellFormed(t) /\ t.counter = st.counter + 1
             /\ DOMAIN t.list = DOMAIN st.list
             /\ \E p \in DOMAIN st.list :
                  /\ st.list[p].node = n /\ st.list[p].fmnt
                  /\ \A i \in DOMAIN st.list :
                       /\ t.list[i].node = st.list[i].node /\ t.list[i].logo = st.list[i].logo
                       /\ t.list[i].fmnt = st.list[i].fmnt /\ t.list[i].valid = st.list[i].valid
                       /\ t.list[i].stamp = IF i = p THEN st.counter ELSE st.list[i].stamp
<1> DEFINE s == st.list
           k == st.counter
           u == [i \in DOMAIN s |-> IF s[i].node = n /\ s[i].fmnt
                                    THEN [s[i] EXCEPT !.stamp = k] ELSE s[i]]
           r == [list |-> u, counter |-> k + 1]
<1>1. SetActive(st, n) = r
  BY DEF SetActive
<1>2. /\ s \in Seq(Dev) /\ k \in Nat /\ Once(s) /\ Mounted(s)
      /\ StampsBelow(s, k) /\ StampsDiffer(s)
  BY DEF WellFormed
<1>3. PICK p \in DOMAIN s : s[p].node = n /\ s[p].fmnt
  BY DEF Check, Usable
<1> HIDE DEF s, k
<1>4. /\ DOMAIN s = 1..Len(s) /\ Len(s) \in Nat
      /\ \A i \in DOMAIN s : s[i] \in Dev /\ s[i].stamp \in Nat
  BY <1>2, EntryTypes
<1>5. DOMAIN u = DOMAIN s
  OBVIOUS
<1>6. ASSUME NEW i \in DOMAIN s
      PROVE  /\ u[i] \in Dev /\ u[i].node = s[i].node /\ u[i].logo = s[i].logo
             /\ u[i].fmnt = s[i].fmnt /\ u[i].valid = s[i].valid
             /\ u[i].stamp = IF i = p THEN k ELSE s[i].stamp
  <2>1. u[i] = IF i = p THEN [s[i] EXCEPT !.stamp = k] ELSE s[i]
    BY <1>2, <1>3 DEF Once
  <2>2. s[i] \in Dev
    BY <1>4
  <2> HIDE DEF u
  <2>3. CASE i = p
    <3>1. u[i] = [s[i] EXCEPT !.stamp = k]
      BY <2>1, <2>3
    <3> QED
      BY <1>2, <2>2, <2>3, <3>1 DEF Dev
  <2>4. CASE i # p
    BY <2>1, <2>2, <2>4
  <2> QED
    BY <2>3, <2>4
<1>7. u \in Seq(Dev)
  <2>1. u \in [1..Len(s) -> Dev]
    BY <1>4, <1>6
  <2> QED
    BY <1>4, <2>1
<1> HIDE DEF u
<1>8. Once(u) /\ Mounted(u)
  <2>1. Once(u)
    BY <1>2, <1>5, <1>6 DEF Once
  <2>2. ASSUME NEW i \in DOMAIN u, u[i].valid PROVE u[i].fmnt
    <3>1. s[i].valid /\ u[i].fmnt = s[i].fmnt
      BY <1>5, <1>6, <2>2
    <3>2. s[i].fmnt
      BY Zenon, <1>2, <1>5, <3>1 DEF Mounted
    <3> QED
      BY <3>1, <3>2
  <2> QED
    BY <2>1, <2>2 DEF Mounted
<1>9. StampsBelow(u, k + 1)
  BY <1>2, <1>4, <1>5, <1>6 DEF StampsBelow
<1>10. StampsDiffer(u)
  BY <1>2, <1>4, <1>5, <1>6 DEF StampsBelow, StampsDiffer
<1>11. WellFormed(r)
  BY <1>2, <1>7, <1>8, <1>9, <1>10 DEF WellFormed
<1>12. r.list = u /\ r.counter = k + 1
  OBVIOUS
<1> HIDE DEF r
<1> QED
  BY <1>1, <1>3, <1>5, <1>6, <1>11, <1>12 DEF s, k

-----------------------------------------------------------------------------
(* The searches                                                            *)

(* A set of natural numbers has a least element. *)
LEMMA Smallest ==
  ASSUME NEW S \in SUBSET Nat, S # {}
  PROVE  \E m \in S : \A j \in S : m <= j
<1> DEFINE Less == OpToRel(<, Nat)
<1>1. IsWellFoundedOn(Less, Nat)
  BY NatLessThanWellFounded
<1>2. \A x, y \in Nat : <<y, x>> \notin Less => x <= y
  BY DEF OpToRel
<1> HIDE DEF Less
<1>3. PICK x \in S : \A y \in S : <<y, x>> \notin Less
  BY <1>1, WFMin
<1> QED
  BY <1>2, <1>3

(* Among the numbers up to n, a set of Cardinality(I) >= k >= 1 of them    *)
(* has one that is the k-th.                                               *)
LEMMA KthPlace ==
  ASSUME NEW n \in Nat, NEW I \in SUBSET (1..n), NEW k \in 1..Cardinality(I)
  PROVE  \E i \in I : Cardinality({j \in I : j <= i}) = k
<1> DEFINE upTo(x) == {j \in I : j <= x}
           C(x) == Cardinality(upTo(x))
           S == {x \in 0..n : C(x) >= k}
<1>1. IsFiniteSet(1..n)
  BY FS_Interval
<1>2. IsFiniteSet(I) /\ Cardinality(I) \in Nat
  BY <1>1, FS_Subset, FS_CardinalityType
<1>3. ASSUME NEW x PROVE IsFiniteSet(upTo(x)) /\ C(x) \in Nat
  <2>1. upTo(x) \in SUBSET I
    OBVIOUS
  <2> HIDE DEF upTo
  <2> QED
    BY <1>2, <2>1, FS_Subset, FS_CardinalityType
<1>4. \A j \in I : j \in Int /\ 1 <= j /\ j <= n
  OBVIOUS
<1>5. upTo(n) = I /\ upTo(0) = {}
  <2>1. upTo(n) = I
    BY <1>4
  <2>2. upTo(0) = {}
    <3>1. \A j \in I : ~(j <= 0)
      BY <1>4
    <3> QED
      BY Zenon, <3>1
  <2> QED
    BY <2>1, <2>2
<1>6. n \in S
  <2>1. C(n) = Cardinality(I)
    BY <1>5
  <2> HIDE DEF C
  <2> QED
    BY <1>2, <2>1
<1>7. S \in SUBSET Nat /\ S # {}
  BY <1>6
<1>8. PICK m \in S : \A x \in S : m <= x
  BY <1>7, Smallest
<1>9. C(0) = 0
  BY <1>5, FS_EmptySet
<1>10. m \in 0..n /\ C(m) >= k /\ k \in Nat /\ k >= 1
  BY <1>2, <1>8
<1>11. m # 0
  <2> HIDE DEF C
  <2> QED
    BY <1>9, <1>10
<1>12. m - 1 \in 0..n /\ m \in Int
  BY <1>10, <1>11
<1>13. C(m - 1) < k /\ C(m - 1) \in Nat /\ C(m) \in Nat
  <2>1. m - 1 \notin S
    <3> HIDE DEF S
    <3> QED
      BY <1>8, <1>12
  <2>2. C(m - 1) \in Nat /\ C(m) \in Nat
    BY <1>3
  <2> HIDE DEF C
  <2> QED
    BY <1>10, <1>12, <2>1, <2>2
<1>14. IF m \in I THEN upTo(m) = upTo(m - 1) \cup {m} ELSE upTo(m) = upTo(m - 1)
  <2>1. \A j \in I : j <= m <=> j <= m - 1 \/ j = m
    BY <1>12, <1>4
  <2>2. m <= m
    BY <1>12
  <2> QED
    BY <2>1, <2>2
<1>15. m \notin upTo(m - 1)
  BY <1>12
<1>16. IsFiniteSet(upTo(m - 1))
  BY <1>3
<1>17. Cardinality(upTo(m - 1) \cup {m}) = C(m - 1) + 1
  <2> HIDE DEF upTo
  <2> QED
    BY <1>15, <1>16, FS_AddElement
<1>18. m \in I /\ C(m) = C(m - 1) + 1
  <2>1. m \in I => C(m) = C(m - 1) + 1
    <3> HIDE DEF upTo
    <3> QED
      BY <1>14, <1>17
  <2>2. m \notin I => C(m) = C(m - 1)
    BY <1>14
  <2> HIDE DEF C
  <2> QED
    BY <1>10, <1>13, <2>1, <2>2
<1>19. C(m) = k
  <2> HIDE DEF C
  <2> QED
    BY <1>10, <1>13, <1>18
<1> QED
  BY <1>18, <1>19

LEMMA NodeAtLeastFound ==
  ASSUME NEW s \in Seq(Dev), NEW I \in SUBSET (DOMAIN s), I # {}
  PROVE  \E i \in I : NodeAtLeast(s, I) = s[i].node
<1>1. I \subseteq Nat
  BY EntryTypes
<1>2. PICK m \in I : \A j \in I : m <= j
  BY <1>1, Smallest
<1> DEFINE i == CHOOSE i \in I : \A j \in I : i <= j
<1>3. i \in I
  BY <1>2
<1> QED
  BY <1>3 DEF NodeAtLeast

(* What a search finds is usable. *)
FoundUsable(s, n, v) == n # NoNode => \E i \in Usable(s, v) : s[i].node = n

LEMMA FindSpecUsable ==
  ASSUME NEW s \in Seq(Dev), NEW l, NEW v
  PROVE  FoundUsable(s, FindSpec(s, l, v), v)
<1> DEFINE I == Usable(s, v) \cap Places(s, l)
<1>1. I \in SUBSET (DOMAIN s)
  BY DEF Usable
<1>2. I = {} => FindSpec(s, l, v) = NoNode
  BY DEF FindSpec, NodeAtLeast
<1>3. I # {} => \E i \in I : FindSpec(s, l, v) = s[i].node
  BY <1>1, NodeAtLeastFound DEF FindSpec
<1> QED
  BY <1>2, <1>3 DEF FoundUsable

LEMMA FindActiveUsable ==
  ASSUME NEW s \in Seq(Dev), NEW v
  PROVE  FoundUsable(s, FindActive(s, v), v)
<1> DEFINE U == Usable(s, v)
           I == {i \in U : \A j \in U : s[j].stamp <= s[i].stamp}
<1>1. I \in SUBSET (DOMAIN s)
  BY DEF Usable
<1>2. FindActive(s, v) = NodeAtLeast(s, I)
  BY DEF FindActive
<1> HIDE DEF I
<1>3. I = {} => FindActive(s, v) = NoNode
  BY <1>2 DEF NodeAtLeast
<1>4. I # {} => \E i \in I : FindActive(s, v) = s[i].node
  BY <1>1, <1>2, NodeAtLeastFound
<1> QED
  BY <1>3, <1>4 DEF FoundUsable, I

LEMMA FindNextUsable ==
  ASSUME NEW s \in Seq(Dev), NEW n, NEW v
  PROVE  FoundUsable(s, FindNext(s, n, v), v)
<1>1. CASE n = NoNode
  BY <1>1 DEF FindNext, FoundUsable
<1>2. CASE n # NoNode /\ ~Check(s, n)
  BY <1>2, FindActiveUsable DEF FindNext
<1>3. CASE n # NoNode /\ Check(s, n)
  <2> DEFINE i == CHOOSE j \in DOMAIN s : s[j].node = n
             K == {k \in 1..(Len(s) - 1) : Around(s, i, -1, k) \in Usable(s, v)}
             k == CHOOSE k \in K : \A j \in K : k <= j
  <2>1. FindNext(s, n, v) = IF K = {} THEN NoNode ELSE s[Around(s, i, -1, k)].node
    BY <1>3 DEF FindNext, Neighbour
  <2> HIDE DEF i
  <2>2. K \subseteq Nat
    OBVIOUS
  <2>3. K # {} => k \in K
    BY <2>2, Smallest
  <2>4. K # {} => Around(s, i, -1, k) \in Usable(s, v)
    BY <2>3
  <2> QED
    BY <2>1, <2>4 DEF FoundUsable
<1> QED
  BY <1>1, <1>2, <1>3

(* A usable device is found, as the last used one and, from a node that is *)
(* none of them, as the next one.                                          *)
LEMMA FindActiveSome ==
  ASSUME NEW st, WellFormed(st), NEW v, Usable(st.list, v) # {}
  PROVE  FindActive(st.list, v) # NoNode
<1> DEFINE s == st.list
           U == Usable(s, v)
           S == {s[i].stamp : i \in U}
           I == {i \in U : \A j \in U : s[j].stamp <= s[i].stamp}
<1>1. s \in Seq(Dev) /\ st.counter \in Nat /\ StampsBelow(s, st.counter)
  BY DEF WellFormed
<1>2. \A i \in U : i \in DOMAIN s /\ s[i].stamp \in Nat /\ s[i].stamp < st.counter
  BY <1>1, EntryTypes DEF Usable, StampsBelow
<1>3. S \in SUBSET (0..st.counter) /\ S # {}
  BY <1>1, <1>2
<1>4. PICK m \in S : \A j \in S : j <= m
  BY <1>1, <1>3, Largest
<1>5. I # {} /\ I \in SUBSET (DOMAIN s)
  BY <1>2, <1>4
<1>6. FindActive(s, v) = NodeAtLeast(s, I)
  BY DEF FindActive
<1> HIDE DEF I, U
<1>7. PICK i \in I : FindActive(s, v) = s[i].node
  BY <1>1, <1>5, <1>6, NodeAtLeastFound
<1> QED
  BY <1>1, <1>5, <1>7, EntryTypes, DevAssumption

(* The remainder of a number that lies one round below the ring's first. *)
LEMMA WrapOnce ==
  ASSUME NEW x \in Int, NEW n \in Int, n > 0, x < 0, x >= -n
  PROVE  x % n = x + n
OBVIOUS

(* Every place but the walk's own is met, going against the list order. *)
LEMMA AroundAll ==
  ASSUME NEW s \in Seq(Dev), NEW i \in DOMAIN s, NEW j \in DOMAIN s, i # j
  PROVE  \E k \in 1..(Len(s) - 1) : Around(s, i, -1, k) = j
<1> DEFINE n == Len(s)
<1>1. i \in 1..n /\ j \in 1..n /\ n \in Nat
  BY EntryTypes
<1> HIDE DEF n
<1>2. CASE j < i
  <2>1. (i - 1 + (-1) * (i - j)) = j - 1 /\ i - j \in 1..(n - 1)
    BY <1>1, <1>2
  <2>2. (j - 1) % n = j - 1
    BY <1>1
  <2>3. Around(s, i, -1, i - j) = j
    BY <1>1, <2>1, <2>2 DEF Around, n
  <2> QED
    BY <2>1, <2>3 DEF n
<1>3. CASE i < j
  <2>1. (i - 1 + (-1) * (i - j + n)) = j - 1 - n /\ i - j + n \in 1..(n - 1)
    BY <1>1, <1>3
  <2>2. (j - 1 - n) % n = j - 1
    <3>1. (j - 1 - n) % n = (j - 1 - n) + n
      BY <1>1, WrapOnce
    <3> QED
      BY <1>1, <3>1
  <2>3. Around(s, i, -1, i - j + n) = j
    BY <1>1, <2>1, <2>2 DEF Around, n
  <2> QED
    BY <2>1, <2>3 DEF n
<1> QED
  BY <1>1, <1>2, <1>3

(* The search for the next device finds one when there is another than the *)
(* device it starts from (dev_manager_find_next).                          *)
LEMMA FindNextSome ==
  ASSUME NEW st, WellFormed(st), NEW n, n # NoNode, NEW v, ~OnlineCheck(st.list, n, v),
         Usable(st.list, v) # {}
  PROVE  FindNext(st.list, n, v) # NoNode
<1> DEFINE s == st.list
<1>1. s \in Seq(Dev)
  BY DEF WellFormed
<1>2. CASE ~Check(s, n)
  BY <1>2, FindActiveSome DEF FindNext
<1>3. CASE Check(s, n)
  <2> DEFINE i == CHOOSE j \in DOMAIN s : s[j].node = n
             K == {k \in 1..(Len(s) - 1) : Around(s, i, -1, k) \in Usable(s, v)}
             k == CHOOSE k \in K : \A j \in K : k <= j
  <2>1. FindNext(s, n, v) = IF K = {} THEN NoNode ELSE s[Around(s, i, -1, k)].node
    BY <1>3 DEF FindNext, Neighbour
  <2>2. i \in DOMAIN s /\ s[i].node = n
    BY <1>3 DEF Check, Usable
  <2> HIDE DEF i
  <2>3. PICK j \in Usable(s, v) : j # i /\ j \in DOMAIN s
    BY <2>2 DEF OnlineCheck, Usable
  <2>4. K # {}
    BY <1>1, <2>2, <2>3, AroundAll
  <2>5. k \in K
    <3>1. K \subseteq Nat
      OBVIOUS
    <3> QED
      BY <2>4, <3>1, Smallest
  <2>6. Around(s, i, -1, k) \in Usable(s, v)
    BY <2>5
  <2> HIDE DEF k, K
  <2>7. s[Around(s, i, -1, k)].node \in Node
    BY <1>1, <2>6, EntryTypes DEF Usable
  <2> QED
    BY <2>1, <2>4, <2>7, DevAssumption
<1> QED
  BY <1>2, <1>3

-----------------------------------------------------------------------------
(* The number of places of I before i is what dev_manager_find_by_index    *)
(* counts: it grows from one place of I to the next, and every number      *)
(* below Cardinality(I) is that of one place.                              *)
Before(I, i) == {j \in I : j < i}

LEMMA Ranks ==
  ASSUME NEW n \in Nat, NEW I \in SUBSET (1..n)
  PROVE  /\ IsFiniteSet(I) /\ Cardinality(I) \in Nat
         /\ \A i \in I : /\ Cardinality(Before(I, i)) \in 0..(Cardinality(I) - 1)
                         /\ (\A j \in I : i <= j) => Cardinality(Before(I, i)) = 0
                         /\ (\A j \in I : j <= i) => Cardinality(Before(I, i)) = Cardinality(I) - 1
         /\ \A i, j \in I : Cardinality(Before(I, i)) = Cardinality(Before(I, j)) => i = j
         /\ \A k \in 0..(Cardinality(I) - 1) : \E i \in I : Cardinality(Before(I, i)) = k
<1> DEFINE B(i) == Before(I, i)
           U(i) == {j \in I : j <= i}
<1>1. IsFiniteSet(I) /\ Cardinality(I) \in Nat
  <2>1. IsFiniteSet(1..n)
    BY FS_Interval
  <2> QED
    BY <2>1, FS_Subset, FS_CardinalityType
<1>2. \A j \in I : j \in Int
  OBVIOUS
<1>3. ASSUME NEW i \in I
      PROVE  /\ IsFiniteSet(B(i)) /\ Cardinality(B(i)) \in Nat
             /\ Cardinality(U(i)) = Cardinality(B(i)) + 1
             /\ Cardinality(U(i)) <= Cardinality(I)
  <2>1. B(i) \in SUBSET I /\ U(i) \in SUBSET I /\ i \notin B(i)
    BY <1>2 DEF Before
  <2>2. U(i) = B(i) \cup {i}
    <3>1. \A j \in I : j <= i <=> j < i \/ j = i
      BY <1>2
    <3> QED
      BY <3>1 DEF Before
  <2> HIDE DEF B, U
  <2>3. IsFiniteSet(B(i)) /\ Cardinality(B(i)) \in Nat
    BY <1>1, <2>1, FS_Subset, FS_CardinalityType
  <2>4. Cardinality(U(i)) = Cardinality(B(i)) + 1
    BY <2>1, <2>2, <2>3, FS_AddElement
  <2>5. Cardinality(U(i)) <= Cardinality(I)
    BY <1>1, <2>1, FS_Subset
  <2> QED
    BY <2>3, <2>4, <2>5
<1>4. ASSUME NEW i \in I
      PROVE  /\ Cardinality(B(i)) \in 0..(Cardinality(I) - 1)
             /\ (\A j \in I : i <= j) => Cardinality(B(i)) = 0
             /\ (\A j \in I : j <= i) => Cardinality(B(i)) = Cardinality(I) - 1
  <2>1. (\A j \in I : i <= j) => B(i) = {}
    <3>1. (\A j \in I : i <= j) => \A j \in I : ~(j < i)
      BY <1>2
    <3> QED
      BY <3>1 DEF Before
  <2>2. (\A j \in I : j <= i) => U(i) = I
    OBVIOUS
  <2> HIDE DEF B, U
  <2> QED
    BY <1>1, <1>3, <2>1, <2>2, FS_EmptySet
<1>5. ASSUME NEW i \in I, NEW j \in I, i < j PROVE Cardinality(B(i)) < Cardinality(B(j))
  <2>1. U(i) \in SUBSET B(j)
    <3>1. \A x \in I : x <= i => x < j
      BY <1>2, <1>5
    <3> QED
      BY <3>1 DEF Before
  <2> HIDE DEF B, U
  <2>2. Cardinality(U(i)) <= Cardinality(B(j))
    BY <1>3, <2>1, FS_Subset
  <2> QED
    BY <1>3, <2>2
<1>6. ASSUME NEW i \in I, NEW j \in I, Cardinality(B(i)) = Cardinality(B(j)) PROVE i = j
  <2>1. i < j \/ i = j \/ j < i
    BY <1>2
  <2>2. Cardinality(B(i)) \in Nat /\ Cardinality(B(j)) \in Nat
    BY <1>3
  <2> HIDE DEF B
  <2> QED
    BY <1>5, <1>6, <2>1, <2>2
<1>7. ASSUME NEW k \in 0..(Cardinality(I) - 1) PROVE \E i \in I : Cardinality(B(i)) = k
  <2>1. k + 1 \in 1..Cardinality(I)
    BY <1>1
  <2>2. PICK i \in I : Cardinality(U(i)) = k + 1
    BY <2>1, KthPlace
  <2> HIDE DEF B, U
  <2>3. Cardinality(B(i)) = k
    BY <1>3, <2>2
  <2> QED
    BY <2>3
<1> HIDE DEF B
<1>8. /\ \A i \in I : /\ Cardinality(B(i)) \in 0..(Cardinality(I) - 1)
                      /\ (\A j \in I : i <= j) => Cardinality(B(i)) = 0
                      /\ (\A j \in I : j <= i) => Cardinality(B(i)) = Cardinality(I) - 1
      /\ \A i, j \in I : Cardinality(B(i)) = Cardinality(B(j)) => i = j
      /\ \A k \in 0..(Cardinality(I) - 1) : \E i \in I : Cardinality(B(i)) = k
  BY <1>4, <1>6, <1>7
<1> QED
  BY <1>1, <1>8 DEF B

(* A search for the least of one place. *)
LEMMA AtOne ==
  ASSUME NEW s \in Seq(Dev), NEW i \in DOMAIN s
  PROVE  NodeAtLeast(s, {i}) = s[i].node
<1>1. i <= i
  BY EntryTypes
<1>2. (CHOOSE x \in {i} : \A y \in {i} : x <= y) = i
  BY <1>1
<1> QED
  BY <1>2 DEF NodeAtLeast

(* dev_manager_find_by_index, from the first to the last. *)
LEMMA ByIndex ==
  ASSUME NEW s \in Seq(Dev), NEW v
  PROVE  LET U == Usable(s, v)
             t == GetTotal(s, v)
         IN  /\ t \in Nat
             /\ \A k \in 0..(t - 1) : \E i \in U : FindByIndex(s, k, v) = s[i].node
             /\ \A i \in U : \E k \in 0..(t - 1) : FindByIndex(s, k, v) = s[i].node
             /\ FindByIndex(s, t, v) = NoNode
             /\ t > 0 => /\ FindByIndex(s, 0, v) = FindFirst(s, v)
                         /\ FindByIndex(s, t - 1, v) = FindLast(s, v)
<1> DEFINE U == Usable(s, v)
           t == GetTotal(s, v)
           R(i) == Cardinality(Before(U, i))
           At(k) == {i \in U : R(i) = k}
<1>1. U \in SUBSET (1..Len(s)) /\ Len(s) \in Nat /\ U \in SUBSET (DOMAIN s) /\ U \in SUBSET Nat
  BY EntryTypes DEF Usable
<1>2. t = Cardinality(U)
  BY DEF GetTotal
<1>3. \A k : FindByIndex(s, k, v) = NodeAtLeast(s, At(k))
  BY DEF FindByIndex, Before
<1> HIDE DEF t
<1>4. /\ t \in Nat /\ IsFiniteSet(U)
      /\ \A i \in U : /\ R(i) \in 0..(t - 1)
                      /\ (\A j \in U : i <= j) => R(i) = 0
                      /\ (\A j \in U : j <= i) => R(i) = t - 1
      /\ \A i, j \in U : R(i) = R(j) => i = j
      /\ \A k \in 0..(t - 1) : \E i \in U : R(i) = k
  <2> HIDE DEF U
  <2> QED
    BY <1>1, <1>2, Ranks
<1> HIDE DEF R, U
<1>5. ASSUME NEW i \in U PROVE FindByIndex(s, R(i), v) = s[i].node
  <2>1. At(R(i)) = {i}
    BY <1>4
  <2> HIDE DEF At
  <2> QED
    BY <1>1, <1>3, <2>1, AtOne
<1>6. FindByIndex(s, t, v) = NoNode
  <2>1. At(t) = {}
    <3>1. \A i \in U : R(i) # t
      BY <1>4
    <3> QED
      BY <3>1
  <2> HIDE DEF At
  <2> QED
    BY <1>3, <2>1 DEF NodeAtLeast
<1>7. t > 0 => U # {}
  <2>1. Cardinality({}) = 0 /\ ~(0 > 0)
    BY FS_EmptySet
  <2> QED
    BY Zenon, <1>2, <2>1
<1>8. ASSUME t > 0 PROVE FindByIndex(s, 0, v) = FindFirst(s, v)
  <2> DEFINE m == CHOOSE i \in U : \A j \in U : i <= j
  <2>1. m \in U /\ \A j \in U : m <= j
    BY <1>1, <1>7, <1>8, Smallest
  <2>2. FindFirst(s, v) = s[m].node
    BY <1>7, <1>8 DEF FindFirst, NodeAtLeast, U
  <2> HIDE DEF m
  <2> QED
    BY <1>4, <1>5, <2>1, <2>2
<1>9. ASSUME t > 0 PROVE FindByIndex(s, t - 1, v) = FindLast(s, v)
  <2> DEFINE m == CHOOSE i \in U : \A j \in U : i >= j
  <2>1. \E i \in U : \A j \in U : j <= i
    <3>1. U \in SUBSET (0..Len(s))
      BY <1>1
    <3> QED
      BY <1>1, <1>7, <1>9, <3>1, Largest
  <2>2. m \in U /\ \A j \in U : m >= j
    <3>1. \E i \in U : \A j \in U : i >= j
      BY <1>1, <2>1
    <3> QED
      BY <3>1
  <2>3. FindLast(s, v) = s[m].node
    BY <1>7, <1>9 DEF FindLast, U
  <2> HIDE DEF m
  <2>4. \A j \in U : j <= m
    BY <1>1, <2>2
  <2> QED
    BY <1>4, <1>5, <2>2, <2>3, <2>4
<1>10. /\ \A k \in 0..(t - 1) : \E i \in U : FindByIndex(s, k, v) = s[i].node
       /\ \A i \in U : \E k \in 0..(t - 1) : FindByIndex(s, k, v) = s[i].node
  BY <1>4, <1>5
<1> QED
  BY <1>4, <1>6, <1>8, <1>9, <1>10 DEF t, U

-----------------------------------------------------------------------------
(* The ring                                                                *)

(* Around as a step back or forward, with one wrap at the list head. *)
LEMMA AroundWraps ==
  ASSUME NEW s \in Seq(Dev), NEW i \in DOMAIN s, NEW k \in 1..(Len(s) - 1)
  PROVE  /\ Around(s, i, -1, k) = IF k < i THEN i - k ELSE i - k + Len(s)
         /\ Around(s, i, 1, k) = IF i + k <= Len(s) THEN i + k ELSE i + k - Len(s)
<1> DEFINE n == Len(s)
<1>1. i \in 1..n /\ n \in Nat /\ k \in 1..(n - 1)
  BY EntryTypes
<1> DEFINE M(x) == x % n
<1>2. Around(s, i, -1, k) = M(i - 1 - k) + 1 /\ Around(s, i, 1, k) = M(i - 1 + k) + 1
  <2> HIDE DEF n
  <2>1. i - 1 + (-1) * k = i - 1 - k /\ i - 1 + 1 * k = i - 1 + k
    BY <1>1
  <2> QED
    BY <2>1 DEF Around, n
<1> HIDE DEF n
<1>3. ASSUME NEW x \in Int, -n <= x, x < n + n
      PROVE  M(x) = IF x < 0 THEN x + n ELSE IF x < n THEN x ELSE x - n
  BY <1>1, <1>3, WrapOnce
<1> HIDE DEF M
<1>4. M(i - 1 - k) = IF i - 1 - k < 0 THEN i - 1 - k + n ELSE i - 1 - k
  <2>1. i - 1 - k \in Int /\ -n <= i - 1 - k /\ i - 1 - k < n
    BY <1>1
  <2> QED
    BY <1>1, <1>3, <2>1
<1>5. M(i - 1 + k) = IF i - 1 + k < n THEN i - 1 + k ELSE i - 1 + k - n
  <2>1. i - 1 + k \in Int /\ 0 <= i - 1 + k /\ i - 1 + k < n + n
    BY <1>1
  <2> QED
    BY <1>1, <1>3, <2>1
<1>6. Around(s, i, -1, k) = IF k < i THEN i - k ELSE i - k + n
  BY <1>1, <1>2, <1>4
<1>7. Around(s, i, 1, k) = IF i + k <= n THEN i + k ELSE i + k - n
  BY <1>1, <1>2, <1>5
<1> QED
  BY <1>6, <1>7 DEF n

(* What the search for a neighbour returns: the usable node fewest places  *)
(* on, when there is another than the one it starts from.                  *)
LEMMA NeighbourFirst ==
  ASSUME NEW s \in Seq(Dev), Once(s), NEW v, NEW i \in DOMAIN s, NEW d \in {-1, 1},
         NEW u \in Usable(s, v), u # i
  PROVE  \E k \in 1..(Len(s) - 1) :
           /\ Around(s, i, d, k) \in Usable(s, v)
           /\ \A j \in 1..(Len(s) - 1) : Around(s, i, d, j) \in Usable(s, v) => k <= j
           /\ Neighbour(s, s[i].node, v, d) = s[Around(s, i, d, k)].node
<1> DEFINE K == {k \in 1..(Len(s) - 1) : Around(s, i, d, k) \in Usable(s, v)}
           k == CHOOSE k \in K : \A j \in K : k <= j
<1>1. /\ DOMAIN s = 1..Len(s) /\ Len(s) \in Nat /\ u \in DOMAIN s
  BY EntryTypes DEF Usable
<1>2. K # {}
  <2>1. CASE d = -1
    <3>1. PICK j \in 1..(Len(s) - 1) : Around(s, i, -1, j) = u
      BY <1>1, AroundAll
    <3>2. j \in K
      BY <2>1, <3>1
    <3> QED
      BY <3>2
  <2>2. CASE d = 1
    <3>1. PICK j \in 1..(Len(s) - 1) : Around(s, u, -1, j) = i
      BY <1>1, AroundAll
    <3>2. Around(s, i, 1, j) = u
      <4> DEFINE n == Len(s)
      <4>1. /\ i = IF j < u THEN u - j ELSE u - j + n
            /\ Around(s, i, 1, j) = IF i + j <= n THEN i + j ELSE i + j - n
        BY <1>1, <3>1, AroundWraps
      <4>2. u \in 1..n /\ i \in 1..n /\ n \in Nat /\ j \in 1..(n - 1)
        BY <1>1
      <4> HIDE DEF n
      <4> QED
        BY <4>1, <4>2
    <3> QED
      BY <2>2, <3>2
  <2> QED
    BY <2>1, <2>2
<1>3. k \in K /\ \A j \in K : k <= j
  <2>1. K \in SUBSET Nat
    OBVIOUS
  <2> HIDE DEF K
  <2> QED
    BY <1>2, <2>1, Smallest
<1>4. (CHOOSE j \in DOMAIN s : s[j].node = s[i].node) = i
  BY DEF Once
<1>5. Neighbour(s, s[i].node, v, d) = s[Around(s, i, d, k)].node
  BY Zenon, <1>2, <1>4 DEF Neighbour
<1> HIDE DEF k
<1> QED
  BY <1>3, <1>5

-----------------------------------------------------------------------------
(* The next device                                                         *)

(* The search for the next one among several valid devices: the first one  *)
(* met, back from the device.                                              *)
LEMMA NextFirst ==
  ASSUME NEW s \in Seq(Dev), Once(s), NEW i \in Usable(s, TRUE), NEW u \in Usable(s, TRUE), u # i
  PROVE  LET U == Usable(s, TRUE)
         IN  /\ \E k \in 1..(Len(s) - 1) :
                  /\ Around(s, i, -1, k) \in U
                  /\ \A j \in 1..(Len(s) - 1) : Around(s, i, -1, j) \in U => k <= j
                  /\ FindNext(s, s[i].node, TRUE) = s[Around(s, i, -1, k)].node
             /\ \E k \in 1..(Len(s) - 1) :
                  /\ Around(s, i, 1, k) \in U
                  /\ \A j \in 1..(Len(s) - 1) : Around(s, i, 1, j) \in U => k <= j
                  /\ FindPrev(s, s[i].node, TRUE) = s[Around(s, i, 1, k)].node
<1>1. i \in DOMAIN s /\ i \in Usable(s, FALSE)
  BY DEF Usable
<1>2. s[i].node # NoNode /\ Check(s, s[i].node)
  BY <1>1, EntryTypes, DevAssumption DEF Check
<1>3. /\ FindNext(s, s[i].node, TRUE) = Neighbour(s, s[i].node, TRUE, -1)
      /\ FindPrev(s, s[i].node, TRUE) = Neighbour(s, s[i].node, TRUE, 1)
  BY <1>2 DEF FindNext, FindPrev
<1>4. /\ \E k \in 1..(Len(s) - 1) :
            /\ Around(s, i, -1, k) \in Usable(s, TRUE)
            /\ \A j \in 1..(Len(s) - 1) : Around(s, i, -1, j) \in Usable(s, TRUE) => k <= j
            /\ Neighbour(s, s[i].node, TRUE, -1) = s[Around(s, i, -1, k)].node
  BY <1>1, NeighbourFirst
<1>5. /\ \E k \in 1..(Len(s) - 1) :
            /\ Around(s, i, 1, k) \in Usable(s, TRUE)
            /\ \A j \in 1..(Len(s) - 1) : Around(s, i, 1, j) \in Usable(s, TRUE) => k <= j
            /\ Neighbour(s, s[i].node, TRUE, 1) = s[Around(s, i, 1, k)].node
  BY <1>1, NeighbourFirst
<1> QED
  BY <1>3, <1>4, <1>5

(* Going back from j what the next device went on is to be at the first. *)
LEMMA NextThenPrev ==
  ASSUME NEW s \in Seq(Dev), Once(s), NEW i \in Usable(s, TRUE), NEW u \in Usable(s, TRUE), u # i
  PROVE  FindPrev(s, FindNext(s, s[i].node, TRUE), TRUE) = s[i].node
<1> DEFINE U == Usable(s, TRUE)
           n == Len(s)
<1>1. U \in SUBSET (1..n) /\ n \in Nat /\ U \in SUBSET (DOMAIN s) /\ DOMAIN s = 1..n
  BY EntryTypes DEF Usable
<1>2. PICK k \in 1..(n - 1) :
        /\ Around(s, i, -1, k) \in U
        /\ \A j \in 1..(n - 1) : Around(s, i, -1, j) \in U => k <= j
        /\ FindNext(s, s[i].node, TRUE) = s[Around(s, i, -1, k)].node
  BY NextFirst
<1> DEFINE p == Around(s, i, -1, k)
<1>3. p = (IF k < i THEN i - k ELSE i - k + n) /\ p \in U /\ p # i
  <2>1. p = IF k < i THEN i - k ELSE i - k + n
    BY <1>1, AroundWraps
  <2>2. p \in U
    BY <1>2
  <2> HIDE DEF p, n, U
  <2>3. i \in 1..n
    BY <1>1 DEF U
  <2> QED
    BY <1>1, <2>1, <2>2, <2>3
<1> HIDE DEF p
<1>4. PICK j \in 1..(n - 1) :
        /\ Around(s, p, 1, j) \in U
        /\ \A l \in 1..(n - 1) : Around(s, p, 1, l) \in U => j <= l
        /\ FindPrev(s, s[p].node, TRUE) = s[Around(s, p, 1, j)].node
  BY <1>3, NextFirst
<1>5. /\ Around(s, p, 1, j) = IF p + j <= n THEN p + j ELSE p + j - n
      /\ Around(s, p, 1, k) = IF p + k <= n THEN p + k ELSE p + k - n
  BY <1>1, <1>3, AroundWraps
<1>6. /\ \A l \in 1..(n - 1) : Around(s, i, -1, l) = IF l < i THEN i - l ELSE i - l + n
  BY <1>1, AroundWraps
<1>7. i \in 1..n /\ p \in 1..n /\ i \in U
  BY <1>1, <1>3
<1> HIDE DEF n, U
<1>8. Around(s, p, 1, k) = i
  BY <1>1, <1>3, <1>5, <1>7
<1>9. j <= k
  BY <1>4, <1>7, <1>8
<1>10. ASSUME j < k PROVE FALSE
  <2>1. k - j \in 1..(n - 1)
    BY <1>1, <1>10
  <2>2. Around(s, i, -1, k - j) = Around(s, p, 1, j)
    BY <1>1, <1>3, <1>5, <1>6, <1>7, <1>10, <2>1
  <2>3. k <= k - j
    BY <1>2, <1>4, <2>1, <2>2
  <2> QED
    BY <1>1, <2>3
<1>11. j = k
  BY <1>1, <1>9, <1>10
<1> QED
  BY <1>2, <1>4, <1>8, <1>11 DEF p

(* A set of valid devices closed under the search for the next one holds   *)
(* every other valid device, at whatever distance.                         *)
LEMMA NextReaches ==
  ASSUME NEW s \in Seq(Dev), Once(s), NEW S, NEW i \in Usable(s, TRUE), s[i].node \in S,
         \A m \in S : FindNext(s, m, TRUE) \in S,
         NEW u \in Usable(s, TRUE)
  PROVE  s[u].node \in S
<1> SUFFICES ASSUME s[u].node \notin S PROVE FALSE
  OBVIOUS
<1> DEFINE U == Usable(s, TRUE)
           n == Len(s)
           D == {k \in 1..(n - 1) : \E x \in U : s[x].node \in S /\ Around(s, x, -1, k) = u}
<1>1. U \in SUBSET (1..n) /\ n \in Nat /\ U \in SUBSET (DOMAIN s) /\ DOMAIN s = 1..n /\ u \in 1..n
  BY EntryTypes DEF Usable
<1>2. D # {} /\ D \in SUBSET Nat
  <2>1. i \in DOMAIN s /\ u \in DOMAIN s /\ i # u
    BY <1>1
  <2>2. PICK k \in 1..(n - 1) : Around(s, i, -1, k) = u
    BY <2>1, AroundAll
  <2>3. k \in D
    BY <2>2
  <2>4. D \in SUBSET Nat
    <3>1. 1..(n - 1) \in SUBSET Nat
      BY <1>1
    <3> QED
      BY <3>1
  <2> HIDE DEF D
  <2> QED
    BY <2>3, <2>4
<1>3. PICK k \in D : \A j \in D : k <= j
  BY <1>2, Smallest
<1>4. PICK x \in U : s[x].node \in S /\ Around(s, x, -1, k) = u
  BY <1>3
<1>5. k \in 1..(n - 1) /\ x # u /\ x \in 1..n
  BY <1>1, <1>3, <1>4
<1>6. PICK j \in 1..(n - 1) :
        /\ Around(s, x, -1, j) \in U
        /\ \A l \in 1..(n - 1) : Around(s, x, -1, l) \in U => j <= l
        /\ FindNext(s, s[x].node, TRUE) = s[Around(s, x, -1, j)].node
  BY <1>5, NextFirst
<1> DEFINE y == Around(s, x, -1, j)
<1>7. y \in U /\ s[y].node \in S /\ j <= k
  BY <1>4, <1>5, <1>6
<1>8. y = (IF j < x THEN x - j ELSE x - j + n) /\ u = IF k < x THEN x - k ELSE x - k + n
  BY <1>1, <1>4, <1>5, AroundWraps
<1>9. j # k
  BY <1>4, <1>7
<1> HIDE DEF y
<1>10. k - j \in 1..(n - 1) => Around(s, y, -1, k - j) = IF k - j < y THEN y - (k - j) ELSE y - (k - j) + n
  BY <1>1, <1>7, AroundWraps
<1>11. y \in 1..n
  BY <1>1, <1>7
<1>12. k - j \in 1..(n - 1) /\ Around(s, y, -1, k - j) = u
  <2> HIDE DEF n, U, D
  <2>1. k - j \in 1..(n - 1)
    BY <1>1, <1>5, <1>7, <1>9
  <2> QED
    BY <1>1, <1>5, <1>8, <1>10, <1>11, <2>1
<1>13. k - j \in D
  BY <1>7, <1>12
<1>14. k <= k - j
  BY <1>3, <1>13
<1> QED
  BY <1>1, <1>5, <1>14

=============================================================================
