-------------------------- MODULE DevManager_proofs --------------------------
(***************************************************************************)
(* Theorems about the device manager, for any cards, addresses and bound   *)
(* on the stamps: the list is well formed, holds each device once, and     *)
(* dev_manager_find_active returns the device used last.  That depends on  *)
(* no more of the operations than Follows says.  In a list like this the   *)
(* changes to the next device and the indices reach every device.          *)
(***************************************************************************)
EXTENDS DevManager, DevList_proofs

(* The pairs of nodes, in the order of their stamps, are in the history. *)
UsedInOrder(s, b) ==
  \A i, j \in DOMAIN s : s[i].stamp < s[j].stamp => <<s[i].node, s[j].node>> \in b

DevInv ==
  /\ WellFormed([list |-> list, counter |-> counter])
  /\ UsedInOrder(list, before)
  /\ before \subseteq Nodes(list) \X Nodes(list)

-----------------------------------------------------------------------------
(* The inductive invariant                                                 *)

Now == [list |-> list, counter |-> counter]

(* A step that follows the list, and uses the nodes it adds, keeps DevInv. *)
LEMMA FollowsKeepsOrder ==
  ASSUME DevInv, Follows(list, counter, Now'), Use(Added)
  PROVE  DevInv'
<1>1. WellFormed(Now) /\ UsedInOrder(list, before) /\ WellFormed(Now')
  BY DEF DevInv, Follows, Now
<1>2. /\ list \in Seq(Dev) /\ counter \in Nat /\ list' \in Seq(Dev)
      /\ StampsBelow(list, counter)
  BY <1>1 DEF WellFormed, Now
<1>3. /\ \A i \in DOMAIN list : list[i].stamp \in Nat /\ list[i].stamp < counter
      /\ \A i \in DOMAIN list' : list'[i].stamp \in Nat
      /\ DOMAIN list' = 1..Len(list') /\ Len(list') \in Nat
  BY <1>2, EntryTypes DEF StampsBelow
<1>4. /\ \A j \in DOMAIN list' :
           \/ \E i \in DOMAIN list : /\ list[i].node = list'[j].node
                                     /\ list[i].stamp = list'[j].stamp
           \/ list'[j].node \notin Nodes(list) /\ list'[j].stamp >= counter
      /\ \A i, j \in DOMAIN list' :
           i < j /\ list'[i].stamp >= counter /\ list'[j].stamp >= counter
             => list'[i].stamp < list'[j].stamp
  BY DEF Follows, Now
<1>5. UsedInOrder(list', before')
  <2> SUFFICES ASSUME NEW i \in DOMAIN list', NEW j \in DOMAIN list',
                      list'[i].stamp < list'[j].stamp
               PROVE  <<list'[i].node, list'[j].node>> \in before'
    BY DEF UsedInOrder
  <2> DEFINE p == list'[i].node
             q == list'[j].node
             new(x) == list'[x].node \notin Nodes(list) /\ list'[x].stamp >= counter
  <2>1. p \in Nodes(list') /\ q \in Nodes(list')
    BY DEF Nodes
  <2>2. CASE ~new(i) /\ ~new(j)
    <3>1. PICK i0 \in DOMAIN list : list[i0].node = p /\ list[i0].stamp = list'[i].stamp
      BY <1>4, <2>2
    <3>2. PICK j0 \in DOMAIN list : list[j0].node = q /\ list[j0].stamp = list'[j].stamp
      BY <1>4, <2>2
    <3>3. <<p, q>> \in before
      BY <1>1, <3>1, <3>2 DEF UsedInOrder
    <3>4. p \in Kept \ Added /\ q \in Kept
      BY <2>1, <3>1, <3>2 DEF Kept, Added, Nodes
    <3> QED
      BY <3>3, <3>4 DEF Use
  <2>3. CASE ~new(i) /\ new(j)
    <3>1. PICK i0 \in DOMAIN list : list[i0].node = p
      BY <1>4, <2>3
    <3>2. p \in Kept \ Added /\ q \in Added
      BY <2>1, <2>3, <3>1 DEF Kept, Added, Nodes
    <3> QED
      BY <3>2 DEF Use
  <2>4. CASE new(i) /\ ~new(j)
    <3>1. PICK j0 \in DOMAIN list : list[j0].stamp = list'[j].stamp
      BY <1>4, <2>4
    <3> QED
      BY <1>2, <1>3, <2>4, <3>1
  <2>5. CASE new(i) /\ new(j)
    <3>1. i < j
      <4>1. i # j
        BY <1>3
      <4>2. ~(j < i)
        BY <1>3, <1>4, <2>5
      <4> QED
        BY <1>3, <4>1, <4>2
    <3>2. p \in Added /\ q \in Added
      BY <2>1, <2>5 DEF Added
    <3> QED
      BY <3>1, <3>2 DEF Use
  <2> QED
    BY <2>2, <2>3, <2>4, <2>5
<1>6. before' \subseteq Nodes(list') \X Nodes(list')
  <2>1. \A p \in before : p = <<p[1], p[2]>>
    BY DEF DevInv
  <2>2. Kept \subseteq Nodes(list') /\ Added \subseteq Nodes(list')
    BY DEF Kept, Added
  <2>3. {p \in before : p[1] \in Kept \ Added /\ p[2] \in Kept} \subseteq Kept \X Kept
    BY <2>1
  <2> QED
    BY <2>2, <2>3 DEF Use
<1> QED
  BY <1>1, <1>5, <1>6 DEF DevInv, Now

LEMMA MarksKeepOrder ==
  ASSUME DevInv, Marks(list, list'), counter' = counter, Use({})
  PROVE  DevInv'
<1>1. WellFormed(Now) /\ Now.list = list /\ Now.counter = counter
  BY DEF DevInv, Now
<1>2. Follows(list, counter, [list |-> list', counter |-> counter]) /\ Nodes(list') = Nodes(list)
  BY <1>1, MarkFollows DEF Marks
<1>3. Added = {}
  BY <1>2 DEF Added
<1> QED
  BY <1>2, <1>3, FollowsKeepsOrder DEF Now

(* dev_manager_set_active gives one node the latest stamp. *)
LEMMA ActivateKeepsOrder ==
  ASSUME DevInv, NEW n \in Node, Activate(n)
  PROVE  DevInv'
<1>1. CASE ~Check(list, n)
  <2>1. list' = list /\ counter' = counter /\ Use({})
    BY <1>1 DEF Activate, SetActive, Become
  <2>2. list \in Seq(Dev) /\ Mounted(list)
    BY DEF DevInv, WellFormed
  <2>3. Marks(list, list')
    BY <2>1, <2>2 DEF Marks
  <2> QED
    BY <2>1, <2>3, MarksKeepOrder
<1>2. CASE Check(list, n)
  <2>1. /\ list' = [i \in DOMAIN list |-> IF list[i].node = n /\ list[i].fmnt
                                          THEN [list[i] EXCEPT !.stamp = counter] ELSE list[i]]
        /\ counter' = counter + 1 /\ Use({n})
    BY <1>2 DEF Activate, SetActive, Become
  <2>2. /\ list \in Seq(Dev) /\ counter \in Nat /\ Once(list) /\ Mounted(list)
        /\ StampsBelow(list, counter) /\ StampsDiffer(list) /\ UsedInOrder(list, before)
        /\ before \subseteq Nodes(list) \X Nodes(list)
    BY DEF DevInv, WellFormed
  <2>3. /\ DOMAIN list = 1..Len(list) /\ Len(list) \in Nat
        /\ \A i \in DOMAIN list : list[i] \in Dev /\ list[i].stamp \in Nat
    BY <2>2, EntryTypes
  <2>4. SetActive(Now, n) = Now' /\ WellFormed(Now) /\ Check(Now.list, n)
    BY <1>2 DEF Activate, Become, SetActive, Now, DevInv
  <2> DEFINE Moved(p) == \A i \in DOMAIN list :
                           /\ list'[i].node = list[i].node
                           /\ list'[i].stamp = IF i = p THEN counter ELSE list[i].stamp
  <2>5. WellFormed(Now') /\ DOMAIN list' = DOMAIN list
        /\ \E p \in DOMAIN list : list[p].node = n /\ list[p].fmnt /\ Moved(p)
    BY <2>4, SetActiveStamps DEF Now
  <2>6. PICK p \in DOMAIN list : list[p].node = n /\ Moved(p)
    BY <2>5
  <2>7. /\ DOMAIN list' = DOMAIN list
        /\ \A i \in DOMAIN list :
             /\ list'[i].node = list[i].node
             /\ list'[i].stamp = IF i = p THEN counter ELSE list[i].stamp
    BY <2>5, <2>6
  <2>8. Nodes(list') = Nodes(list) /\ Kept = Nodes(list) /\ n \in Nodes(list)
    BY <2>7, <2>6 DEF Nodes, Kept
  <2>9. UsedInOrder(list', before')
    <3> SUFFICES ASSUME NEW i \in DOMAIN list, NEW j \in DOMAIN list,
                        list'[i].stamp < list'[j].stamp
                 PROVE  <<list[i].node, list[j].node>> \in before'
      BY <2>7 DEF UsedInOrder
    <3>1. i # p
      <4>1. list'[p].stamp = counter
        BY <2>7
      <4>2. list'[j].stamp <= counter
        BY <2>2, <2>3, <2>7 DEF StampsBelow
      <4>3. list'[j].stamp \in Nat
        BY <2>2, <2>3, <2>7
      <4> QED
        BY <2>2, <4>1, <4>2, <4>3
    <3>2. list[i].node \in Kept \ {n} /\ list[j].node \in Kept
      BY <2>2, <2>6, <2>8, <3>1 DEF Once, Nodes
    <3>3. CASE j = p
      BY <2>1, <2>6, <3>2, <3>3 DEF Use
    <3>4. CASE j # p
      <4>1. <<list[i].node, list[j].node>> \in before
        BY <2>2, <2>7, <3>1, <3>4 DEF UsedInOrder
      <4> QED
        BY <2>1, <3>2, <4>1 DEF Use
    <3> QED
      BY <3>3, <3>4
  <2>10. before' \subseteq Nodes(list') \X Nodes(list')
    <3>1. \A q \in before : q \in Nodes(list) \X Nodes(list)
      BY <2>2
    <3>2. (Kept \ {n}) \X {n} \subseteq Nodes(list) \X Nodes(list)
      BY <2>8
    <3>3. {n} \X {n} \subseteq Nodes(list) \X Nodes(list)
      BY <2>8
    <3> QED
      BY <2>1, <2>8, <3>1, <3>2, <3>3 DEF Use
  <2> QED
    BY <2>5, <2>9, <2>10 DEF DevInv, Now
<1> QED
  BY <1>1, <1>2

LEMMA DevInvInitially == DevInit => DevInv
<1> SUFFICES ASSUME DevInit PROVE DevInv
  OBVIOUS
<1>1. list = <<>> /\ counter = 0 /\ before = {} /\ DOMAIN list = {} /\ list \in Seq(Dev)
  BY DEF DevInit
<1>2. WellFormed([list |-> list, counter |-> counter])
  BY <1>1 DEF WellFormed, Once, Mounted, StampsBelow, StampsDiffer
<1> QED
  BY <1>1, <1>2 DEF DevInv, UsedInOrder

LEMMA DevInvStep == DevInv /\ [DevNext]_devVars => DevInv'
<1> SUFFICES ASSUME DevInv, [DevNext]_devVars PROVE DevInv'
  OBVIOUS
<1>1. WellFormed(Now) /\ Now.list = list /\ Now.counter = counter /\ counter \in Nat
  BY DEF DevInv, WellFormed, Now
<1>2. list \in Seq(Dev) /\ Mounted(list)
  BY <1>1 DEF WellFormed
<1>3. Follows(list, counter, Now)
  BY <1>1, FollowsItself
<1>4. ASSUME NEW c \in Card, In(c) PROVE DevInv'
  <2>1. PICK n \in Node \ Nodes(list), m \in Node \ Nodes(list),
             outCard \in Outcome, outRec \in Outcome, host_ok \in BOOLEAN :
          /\ n # m
          /\ IF host_ok THEN Become(AddDevice(Now, c, n, m, outCard, outRec))
                        ELSE UNCHANGED <<list, counter>>
          /\ Use(Added)
    BY <1>4 DEF In, Now
  <2>2. CASE host_ok
    <3> DEFINE t == AddDevice(Now, c, n, m, outCard, outRec)
    <3>1. Follows(list, counter, t)
      BY <1>1, <1>3, <2>1, AddDeviceFollows
    <3>2. t \in [list : Seq(Dev), counter : Nat]
      BY <3>1 DEF Follows, WellFormed
    <3>3. Now' = t
      BY <2>1, <2>2, <3>2 DEF Become, Now
    <3> QED
      BY <2>1, <3>1, <3>3, FollowsKeepsOrder
  <2>3. CASE ~host_ok
    BY <1>3, <2>1, <2>3, FollowsKeepsOrder DEF Now
  <2> QED
    BY <2>2, <2>3
<1>5. ASSUME NEW c \in Card, Out(c) PROVE DevInv'
  <2> DEFINE t == DelDevice(Now, c)
  <2>1. Follows(list, counter, t) /\ Nodes(t.list) \subseteq Nodes(list)
    BY <1>1, <1>3, DelDeviceFollows
  <2>2. t \in [list : Seq(Dev), counter : Nat]
    BY <2>1 DEF Follows, WellFormed
  <2>3. Become(t) /\ Use({})
    BY <1>5 DEF Out, Now
  <2> HIDE DEF t
  <2>4. Now' = t /\ list' = t.list
    BY <2>2, <2>3 DEF Become, Now
  <2>5. Added = {}
    BY <2>1, <2>4 DEF Added
  <2> QED
    BY <2>1, <2>3, <2>4, <2>5, FollowsKeepsOrder
<1>6. ASSUME NEW c \in Card, Mount(c) PROVE DevInv'
  <2>1. PICK okCard \in BOOLEAN, okRec \in BOOLEAN : list' = MountDevice(list, c, okCard, okRec)
    BY <1>6 DEF Mount
  <2>2. Marks(list, list')
    BY <1>2, <2>1, MountDeviceMarks
  <2> QED
    BY <1>6, <2>2, MarksKeepOrder DEF Mount
<1>7. ASSUME NEW c \in Card, Unmount(c) PROVE DevInv'
  <2>1. Marks(list, list')
    BY <1>2, <1>7, UnmountDeviceMarks DEF Unmount
  <2> QED
    BY <1>7, <2>1, MarksKeepOrder DEF Unmount
<1>8. ASSUME NEW n \in Node, MarkValid(n) PROVE DevInv'
  <2>1. PICK flag \in BOOLEAN : list' = SetValid(list, n, flag)
    BY <1>8 DEF MarkValid
  <2>2. Marks(list, list')
    BY <1>2, <2>1, SetValidMarks
  <2> QED
    BY <1>8, <2>2, MarksKeepOrder DEF MarkValid
<1>9. ASSUME NEW n \in Node, Activate(n) PROVE DevInv'
  BY <1>9, ActivateKeepsOrder
<1>10. ASSUME ListCheckMount PROVE DevInv'
  <2>1. PICK ok \in [DOMAIN list -> BOOLEAN] :
          list' = [i \in DOMAIN list |-> IF list[i].fmnt THEN list[i]
                    ELSE [list[i] EXCEPT !.fmnt = ok[i], !.valid = ok[i]]]
    BY <1>10 DEF ListCheckMount
  <2>2. DOMAIN list' = DOMAIN list /\ \A i \in DOMAIN list : list[i] \in Dev
    BY <1>2, <2>1, EntryTypes
  <2>3. \A i \in DOMAIN list :
          /\ list'[i] \in Dev /\ list'[i].node = list[i].node /\ list'[i].logo = list[i].logo
          /\ list'[i].stamp = list[i].stamp /\ (list'[i].valid => list'[i].fmnt)
    <3> TAKE i \in DOMAIN list
    <3>1. CASE list[i].fmnt
      BY <1>2, <2>1, <2>2, <3>1 DEF Mounted
    <3>2. CASE ~list[i].fmnt
      <4>1. list[i] \in Dev /\ ok[i] \in BOOLEAN
        BY <2>1, <2>2
      <4>2. list'[i] = [list[i] EXCEPT !.fmnt = ok[i], !.valid = ok[i]]
        BY <2>1, <3>2
      <4> QED
        BY <4>1, <4>2 DEF Dev
    <3> QED
      BY <3>1, <3>2
  <2>4. list' \in [DOMAIN list -> Dev]
    BY <2>1, <2>2, <2>3
  <2>5. Marks(list, list')
    BY <1>2, <2>3, <2>4, MarkEntries
  <2> QED
    BY <1>10, <2>5, MarksKeepOrder DEF ListCheckMount
<1>11. CASE UNCHANGED devVars
  BY <1>11 DEF DevInv, devVars, WellFormed, UsedInOrder
<1> QED
  BY <1>4, <1>5, <1>6, <1>7, <1>8, <1>9, <1>10, <1>11 DEF DevNext

(* The invariant holds, for all values of the constants. *)
THEOREM DevInvHolds == DevSpec => []DevInv
  BY DevInvInitially, DevInvStep, PTL DEF DevSpec

-----------------------------------------------------------------------------
(* The properties of the manager                                           *)

(* The list is a list of well-typed nodes. *)
THEOREM DevTypeCorrect == DevSpec => []DevTypeOK
<1>1. DevInv => DevTypeOK
  BY DEF DevInv, WellFormed, DevTypeOK
<1> QED
  BY <1>1, DevInvHolds, PTL

(* No operation, whatever fails in it, puts a logo or an address into the  *)
(* list a second time (dev_manager.c:110, :198).                           *)
THEOREM DevicesOnce == DevSpec => []EachOnce
<1>1. DevInv => EachOnce
  BY DEF DevInv, WellFormed, Once, EachOnce
<1> QED
  BY <1>1, DevInvHolds, PTL

(* A valid node has a file system after any order of mounts, failed mounts *)
(* and marks (dev_manager.c:860, :944).                                    *)
THEOREM ValidAreMounted == DevSpec => []ValidIsMounted
<1>1. DevInv => ValidIsMounted
  BY DEF DevInv, WellFormed, Mounted, ValidIsMounted
<1> QED
  BY <1>1, DevInvHolds, PTL

(* dev_manager_find_active returns the node used last: it maximises the    *)
(* stamps, which are distinct and ordered as the uses (dev_manager.c:408). *)
THEOREM FindsLastUsed == DevSpec => []ActiveIsLastUsed
<1>1. DevInv => ActiveIsLastUsed
  <2> SUFFICES ASSUME DevInv, NEW v \in BOOLEAN, NEW i \in Usable(list, v),
                      list[i].node # FindActive(list, v)
               PROVE  <<list[i].node, FindActive(list, v)>> \in before
    BY DEF ActiveIsLastUsed
  <2> DEFINE U == Usable(list, v)
             S == {list[j].stamp : j \in U}
             I == {j \in U : \A k \in U : list[k].stamp <= list[j].stamp}
  <2>1. /\ list \in Seq(Dev) /\ counter \in Nat
        /\ StampsBelow(list, counter) /\ StampsDiffer(list) /\ UsedInOrder(list, before)
    BY DEF DevInv, WellFormed
  <2>2. /\ U \subseteq DOMAIN list
        /\ DOMAIN list = 1..Len(list) /\ Len(list) \in Nat
        /\ \A j \in DOMAIN list : list[j].stamp \in Nat /\ list[j].stamp < counter
    BY <2>1, EntryTypes DEF Usable, StampsBelow
  <2>3. S \subseteq 0..counter /\ S # {}
    BY <2>1, <2>2
  <2>4. PICK m \in S : \A x \in S : x <= m
    BY <2>1, <2>3, Largest
  <2>5. PICK p \in U : m = list[p].stamp
    BY <2>4
  <2>6. p \in I
    BY <2>4, <2>5
  <2>7. I = {p}
    <3>1. \A j \in I : list[j].stamp = list[p].stamp
      BY <2>2, <2>6
    <3> QED
      BY <2>1, <2>2, <2>6, <3>1 DEF StampsDiffer
  <2>8. FindActive(list, v) = NodeAtLeast(list, I)
    BY DEF FindActive
  <2> HIDE DEF I
  <2>9. FindActive(list, v) = list[p].node
    <3>1. (CHOOSE j \in I : \A k \in I : j <= k) = p
      BY <2>2, <2>5, <2>7
    <3> QED
      BY <2>7, <2>8, <3>1 DEF NodeAtLeast
  <2>10. list[i].stamp < list[p].stamp
    <3>1. i # p
      BY <2>9
    <3>2. list[i].stamp <= list[p].stamp /\ list[i].stamp # list[p].stamp
      BY <2>1, <2>2, <2>6, <3>1 DEF I, StampsDiffer
    <3> QED
      BY <2>2, <3>2
  <2> QED
    BY <2>1, <2>2, <2>9, <2>10 DEF UsedInOrder
<1> QED
  BY <1>1, DevInvHolds, PTL

(* Changing to the next device again and again comes by every valid one,   *)
(* and dev_manager_find_prev goes back (dev_manager.c:322, :365): by the   *)
(* least distance at which a device the walk never met lies behind one it  *)
(* did.                                                                    *)
THEOREM NextGoesRound == DevSpec => []NextVisitsAll
<1>1. DevInv => NextVisitsAll
  <2> DEFINE U == Usable(list, TRUE)
             V == {list[i].node : i \in U}
  <2> SUFFICES ASSUME DevInv, Cardinality(V) > 1
               PROVE  /\ \A S \in (SUBSET V) \ {{}} : (\A n \in S : FindNext(list, n, TRUE) \in S) => S = V
                      /\ \A n \in V : FindPrev(list, FindNext(list, n, TRUE), TRUE) = n
    BY DEF NextVisitsAll
  <2>1. list \in Seq(Dev) /\ Once(list)
    BY DEF DevInv, WellFormed
  <2>2. ASSUME NEW S \in (SUBSET V) \ {{}}, \A n \in S : FindNext(list, n, TRUE) \in S PROVE S = V
    <3>1. PICK i \in U : list[i].node \in S
      <4>1. PICK n \in S : n \in V
        BY <2>2
      <4> QED
        BY <4>1
    <3>2. \A u \in U : list[u].node \in S
      BY <2>1, <2>2, <3>1, NextReaches
    <3> QED
      BY <2>2, <3>2
  <2>3. ASSUME NEW i \in U PROVE FindPrev(list, FindNext(list, list[i].node, TRUE), TRUE) = list[i].node
    <3>1. \E u \in U : u # i
      <4>1. Cardinality({list[i].node}) = 1 /\ ~(1 > 1)
        <5> DEFINE x == list[i].node
        <5> HIDE DEF x
        <5>1. Cardinality({x}) = 1
          BY FS_Singleton
        <5> QED
          BY <5>1 DEF x
      <4>2. V # {list[i].node}
        BY <4>1
      <4> QED
        BY <2>3, <4>2
    <3> QED
      BY <2>1, <2>3, <3>1, NextThenPrev
  <2> QED
    BY <2>2, <2>3
<1> QED
  BY <1>1, DevInvHolds, PTL

(* The indices below dev_manager_get_total name each usable device once,   *)
(* from the first to the last, and the total itself names none             *)
(* (dev_manager.c:234, :260, :291, :489).                                  *)
THEOREM IndicesEnumerate == DevSpec => []IndexEnumerates
<1>1. DevInv => IndexEnumerates
  <2> SUFFICES ASSUME DevInv, NEW v \in BOOLEAN
               PROVE  LET t == GetTotal(list, v)
                      IN  /\ {FindByIndex(list, k, v) : k \in 0..(t - 1)}
                                = {list[i].node : i \in Usable(list, v)}
                          /\ FindByIndex(list, t, v) = NoNode
                          /\ t > 0 => /\ FindByIndex(list, 0, v) = FindFirst(list, v)
                                      /\ FindByIndex(list, t - 1, v) = FindLast(list, v)
    BY DEF IndexEnumerates
  <2>1. list \in Seq(Dev)
    BY DEF DevInv, WellFormed
  <2> QED
    BY <2>1, ByIndex
<1> QED
  BY <1>1, DevInvHolds, PTL

=============================================================================
