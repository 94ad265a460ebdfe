------------------------------ MODULE DevList ------------------------------
(***************************************************************************)
(* The device list of dev_manager.c, as operators                          *)
(*                                                                         *)
(* A list of nodes, one for each storage device that is plugged in, in the *)
(* order of their insertion.  A node has a file system when its mount      *)
(* succeeded (fmnt), is valid when it is thought to hold playable files,   *)
(* and carries the stamp of its last use.  A node is named by its address, *)
(* which the allocator uses again once the node is freed.  On boards with  *)
(* a record folder each card brings a second node, its logo with "_rec"    *)
(* appended.  The file system of the browser (bs_fmnt) follows fmnt.       *)
(***************************************************************************)
EXTENDS Integers, Sequences, FiniteSets, SequencesExt

CONSTANTS
  Card,        \* the storage devices: sd0, sd1, udisk0
  WithRec,     \* those with a "_rec" entry in dev_reg
  RecFolder,   \* TCFG_RECORD_FOLDER_DEV_ENABLE
  Node,        \* addresses of list nodes
  NoNode       \* the null pointer

ASSUME DevAssumption ==
  /\ WithRec \subseteq Card /\ RecFolder \in BOOLEAN
  /\ NoNode \notin Node

CardLogo(c) == <<c, "card">>
RecLogo(c) == <<c, "rec">>
Logo == Card \X {"card", "rec"}
Registry == (Card \X {"card"}) \cup (WithRec \X {"rec"})

Dev == [node : Node, logo : Logo, fmnt : BOOLEAN, valid : BOOLEAN, stamp : Nat]

-----------------------------------------------------------------------------
(* Looking nodes up                                                        *)

Nodes(s) == {s[i].node : i \in DOMAIN s}
Places(s, l) == {i \in DOMAIN s : s[i].logo = l}

(* The places a search goes through: mounted devices, or valid ones. *)
Usable(s, v) == {i \in DOMAIN s : s[i].fmnt /\ (v => s[i].valid)}

(* The node at the least of some places, as the loops return it. *)
NodeAtLeast(s, I) ==
  IF I = {} THEN NoNode ELSE s[CHOOSE i \in I : \A j \in I : i <= j].node

ListCheckByLogo(s, l) == Places(s, l) # {}
Check(s, n) == \E i \in Usable(s, FALSE) : s[i].node = n
OnlineCheck(s, n, v) == \E i \in Usable(s, v) : s[i].node = n
GetTotal(s, v) == Cardinality(Usable(s, v))
FindFirst(s, v) == NodeAtLeast(s, Usable(s, v))
FindLast(s, v) ==
  IF Usable(s, v) = {} THEN NoNode
  ELSE s[CHOOSE i \in Usable(s, v) : \A j \in Usable(s, v) : i >= j].node
FindSpec(s, l, v) == NodeAtLeast(s, Usable(s, v) \cap Places(s, l))

(* Mutant: the counter also counts the devices passed over. *)
FindByIndexAll(s, k, v) == NodeAtLeast(s, {i \in Usable(s, v) : i - 1 = k})

FindByIndex(s, k, v) ==
  NodeAtLeast(s, {i \in Usable(s, v) : Cardinality({j \in Usable(s, v) : j < i}) = k})

FindActive(s, v) ==
  LET U == Usable(s, v)
  IN  NodeAtLeast(s, {i \in U : \A j \in U : s[j].stamp <= s[i].stamp})

(* The place k places on from place i through the ring of the entries: in *)
(* list order for d = 1, against it for d = -1.                            *)
Around(s, i, d, k) == ((i - 1 + d * k) % Len(s)) + 1

(* Mutant: the walk stops at the list head. *)
NeighbourNoWrap(s, n, v, d) ==
  NodeAtLeast(s, {i \in Usable(s, v) : i > CHOOSE j \in DOMAIN s : s[j].node = n})

(* The first usable node met from node n in direction d, n itself excluded. *)
Neighbour(s, n, v, d) ==
  LET i == CHOOSE j \in DOMAIN s : s[j].node = n
      K == {k \in 1..(Len(s) - 1) : Around(s, i, d, k) \in Usable(s, v)}
  IN  IF K = {} THEN NoNode
      ELSE s[Around(s, i, d, CHOOSE k \in K : \A j \in K : k <= j)].node

FindNext(s, n, v) ==
  CASE n = NoNode -> NoNode
    [] n # NoNode /\ ~Check(s, n) -> FindActive(s, v)
    [] OTHER -> Neighbour(s, n, v, -1)

FindPrev(s, n, v) ==
  CASE n = NoNode -> NoNode
    [] n # NoNode /\ ~Check(s, n) -> FindActive(s, v)
    [] OTHER -> Neighbour(s, n, v, 1)

(* dev_manager_get_logo: a set of one logo, or of none. *)
GetLogo(s, n) == {s[i].logo : i \in {j \in Usable(s, FALSE) : s[j].node = n}}

-----------------------------------------------------------------------------
(* Changing the list: operators on st = [list, counter]                    *)

(* What happens to an allocation and a mount. *)
Outcome == {"mounted", "no_fs", "no_mem"}

AddResult(st, l, out) ==
  CASE l \notin Registry -> "not_found"
    [] l \in Registry /\ ListCheckByLogo(st.list, l) -> "in_list"
    [] OTHER -> out

(* Mutant: a device that is in the list is added once more. *)
AddOneTwice(st, n, l, out) ==
  IF l \in Registry /\ out # "no_mem"
  THEN [list |-> Append(st.list, [node |-> n, logo |-> l, fmnt |-> out = "mounted",
                                  valid |-> out = "mounted", stamp |-> st.counter]),
        counter |-> st.counter + 1]
  ELSE st

(* Mutant: a failed allocation is not noticed. *)
AddOneNoNull(st, n, l, out) ==
  IF AddResult(st, l, out) \in Outcome
  THEN [list |-> Append(st.list, [node |-> IF out = "no_mem" THEN NoNode ELSE n, logo |-> l,
                                  fmnt |-> out = "mounted", valid |-> out = "mounted",
                                  stamp |-> st.counter]),
        counter |-> st.counter + 1]
  ELSE st

(* __dev_manager_add *)
AddOne(st, n, l, out) ==
  IF AddResult(st, l, out) \in {"mounted", "no_fs"}
  THEN [list |-> Append(st.list, [node |-> n, logo |-> l, fmnt |-> out = "mounted",
                                  valid |-> out = "mounted", stamp |-> st.counter]),
        counter |-> st.counter + 1]
  ELSE st

(* __dev_manager_del *)
DelOne(st, l) ==
  IF ListCheckByLogo(st.list, l)
  THEN [st EXCEPT !.list = RemoveAt(@, CHOOSE i \in Places(@, l) :
                                          \A j \in Places(st.list, l) : i <= j)]
  ELSE st

(* dev_manager_del *)
DelDevice(st, c) ==
  IF RecFolder THEN DelOne(DelOne(st, CardLogo(c)), RecLogo(c))
               ELSE DelOne(st, CardLogo(c))

(* dev_manager_add: the record folder first; the card is mounted only when *)
(* that went well or there is no such entry.                               *)
AddDevice(st, c, n, m, outCard, outRec) ==
  LET r == AddResult(st, RecLogo(c), outRec)
      withRec == AddOne(st, m, RecLogo(c), outRec)
      noMount == IF outCard = "mounted" THEN "no_fs" ELSE outCard
  IN  CASE ~RecFolder \/ r = "not_found" -> AddOne(st, n, CardLogo(c), outCard)
        [] RecFolder /\ r = "mounted" ->
             IF AddResult(withRec, CardLogo(c), outCard) = "mounted"
             THEN AddOne(withRec, n, CardLogo(c), outCard)
             ELSE DelDevice(AddOne(withRec, n, CardLogo(c), outCard), c)
        [] OTHER -> AddOne(withRec, n, CardLogo(c), noMount)

(* Whether dev_manager_add returns 0. *)
AddSucceeds(st, c, outCard, outRec) ==
  /\ RecFolder => AddResult(st, RecLogo(c), outRec) \in {"mounted", "not_found"}
  /\ AddResult(st, CardLogo(c), outCard) = "mounted"

(* __dev_manager_mount *)
MountOne(s, l, ok) ==
  [i \in DOMAIN s |-> IF s[i].logo = l /\ ~s[i].fmnt
                      THEN [s[i] EXCEPT !.fmnt = ok, !.valid = ok] ELSE s[i]]
MountResult(s, l) == \E i \in Places(s, l) : s[i].valid

(* Mutant: the valid bit outlives the file system. *)
UnmountOneKeepsValid(s, l) ==
  [i \in DOMAIN s |-> IF s[i].logo = l THEN [s[i] EXCEPT !.fmnt = FALSE] ELSE s[i]]

(* __dev_manager_unmount *)
UnmountOne(s, l) ==
  [i \in DOMAIN s |-> IF s[i].logo = l /\ s[i].fmnt
                      THEN [s[i] EXCEPT !.fmnt = FALSE, !.valid = FALSE] ELSE s[i]]

(* dev_manager_mount *)
MountDevice(s, c, okCard, okRec) ==
  LET s1 == MountOne(s, CardLogo(c), okCard)
      s2 == MountOne(s1, RecLogo(c), okRec)
  IN  IF ~RecFolder \/ ~MountResult(s1, CardLogo(c)) THEN s1
      ELSE IF MountResult(s2, RecLogo(c)) THEN s2
      ELSE UnmountOne(s2, CardLogo(c))

(* dev_manager_unmount *)
UnmountDevice(s, c) ==
  UnmountOne(IF RecFolder THEN UnmountOne(s, RecLogo(c)) ELSE s, CardLogo(c))

(* dev_manager_set_valid *)
SetValid(s, n, flag) ==
  [i \in DOMAIN s |-> IF s[i].node = n /\ s[i].fmnt
                      THEN [s[i] EXCEPT !.valid = flag] ELSE s[i]]

(* Mutant: the current stamp is used without moving on. *)
SetActiveSameStamp(st, n) ==
  [st EXCEPT !.list = [i \in DOMAIN @ |-> IF @[i].node = n /\ @[i].fmnt
                                          THEN [@[i] EXCEPT !.stamp = st.counter] ELSE @[i]]]

(* dev_manager_set_active *)
SetActive(st, n) ==
  IF Check(st.list, n)
  THEN [list |-> [i \in DOMAIN st.list |->
                    IF st.list[i].node = n /\ st.list[i].fmnt
                    THEN [st.list[i] EXCEPT !.stamp = st.counter] ELSE st.list[i]],
        counter |-> st.counter + 1]
  ELSE st

=============================================================================
