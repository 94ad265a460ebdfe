----------------------------- MODULE DevManager -----------------------------
(***************************************************************************)
(* The device manager: the operations of dev_manager.c and the device      *)
(* events of dev_status.c as steps on the list of module DevList.  Every   *)
(* operation runs in app_core, so each is one step; the mutex only matters *)
(* to the readers on other tasks, which see the list between two steps.    *)
(* The callers are left open: any of them may come in any order, with a    *)
(* node that has been freed, or with one whose address is in use again.    *)
(***************************************************************************)
EXTENDS DevList

CONSTANT MaxStamp   \* bound: the value of counter at which no more stamps are taken

ASSUME StampAssumption == MaxStamp \in Nat

VARIABLES
  list,     \* dev_mg.list, in list order
  counter,  \* dev_mg.counter
  before    \* history: <<m, n>> when node m was last used before node n

devVars == <<list, counter, before>>

DevTypeOK ==
  /\ list \in Seq(Dev) /\ counter \in Nat
  /\ before \subseteq Nodes(list) \X Nodes(list)

DevInit == list = <<>> /\ counter = 0 /\ before = {}

-----------------------------------------------------------------------------
(* Each step says how it changes the list and which nodes it uses.         *)

Kept == Nodes(list) \cap Nodes(list')
Added == Nodes(list') \ Nodes(list)

(* The history when the nodes of U become the ones used last, in the order *)
(* in which they are in the list.                                          *)
Use(U) ==
  before' = {p \in before : p[1] \in Kept \ U /\ p[2] \in Kept}
            \cup ((Kept \ U) \X U)
            \cup {p \in U \X U : \E i, j \in DOMAIN list' :
                     i < j /\ list'[i].node = p[1] /\ list'[j].node = p[2]}

Become(st) == list' = st.list /\ counter' = st.counter

(* dev_status_event_filter, a device comes online: host_ok is whether      *)
(* usb_host_mount went well.                                               *)
In(c) ==
  \E n \in Node \ Nodes(list), m \in Node \ Nodes(list),
     outCard \in Outcome, outRec \in Outcome, host_ok \in BOOLEAN :
    /\ n # m /\ counter < MaxStamp
    /\ IF host_ok
       THEN Become(AddDevice([list |-> list, counter |-> counter], c, n, m, outCard, outRec))
       ELSE UNCHANGED <<list, counter>>
    /\ Use(Added)

(* dev_status_event_filter, a device goes offline. *)
Out(c) ==
  /\ Become(DelDevice([list |-> list, counter |-> counter], c))
  /\ Use({})

Mount(c) ==
  /\ \E okCard, okRec \in BOOLEAN : list' = MountDevice(list, c, okCard, okRec)
  /\ Use({}) /\ UNCHANGED counter

Unmount(c) ==
  /\ list' = UnmountDevice(list, c)
  /\ Use({}) /\ UNCHANGED counter

(* dev_manager_list_check_mount, when PC mode ends. *)
ListCheckMount ==
  /\ \E ok \in [DOMAIN list -> BOOLEAN] :
       list' = [i \in DOMAIN list |-> IF list[i].fmnt THEN list[i]
                 ELSE [list[i] EXCEPT !.fmnt = ok[i], !.valid = ok[i]]]
  /\ Use({}) /\ UNCHANGED counter

MarkValid(n) ==
  /\ \E flag \in BOOLEAN : list' = SetValid(list, n, flag)
  /\ Use({}) /\ UNCHANGED counter

Activate(n) ==
  /\ counter < MaxStamp
  /\ Become(SetActive([list |-> list, counter |-> counter], n))
  /\ Use(IF Check(list, n) THEN {n} ELSE {})

DevNext ==
  \/ \E c \in Card : In(c) \/ Out(c) \/ Mount(c) \/ Unmount(c)
  \/ \E n \in Node : MarkValid(n) \/ Activate(n)
  \/ ListCheckMount

DevSpec == DevInit /\ [][DevNext]_devVars

-----------------------------------------------------------------------------
(* Properties                                                              *)

(* A logo and an address are in the list at most once, although the same   *)
(* device event may be delivered twice and freed addresses come back:      *)
(* dev_manager_del removes one node only, and dev_manager_check trusts the *)
(* address (dev_manager.c:65, :110, :198).                                 *)
EachOnce ==
  \A i, j \in DOMAIN list :
    list[i].logo = list[j].logo \/ list[i].node = list[j].node => i = j

(* What is valid has a file system, whatever the order of mounts, failed   *)
(* mounts, unmounts and marks: the searches test fmnt first but callers    *)
(* rely on valid alone (dev_manager.c:860, MountResult at :944).           *)
ValidIsMounted == \A i \in DOMAIN list : list[i].valid => list[i].fmnt

(* dev_manager_find_active returns the device used last among those it may *)
(* return: no other usable device was added or activated after it          *)
(* (dev_manager.c:88, :408, :659).                                         *)
ActiveIsLastUsed ==
  \A v \in BOOLEAN :
    LET a == FindActive(list, v)
    IN  \A i \in Usable(list, v) : list[i].node # a => <<list[i].node, a>> \in before

(* Changing to the next device again and again comes by every valid one,   *)
(* and find_prev undoes find_next: no set of valid devices is closed under *)
(* dev_manager_find_next but the whole (dev_manager.c:322, :365).          *)
NextVisitsAll ==
  LET V == {list[i].node : i \in Usable(list, TRUE)}
  IN  Cardinality(V) > 1 =>
        /\ \A S \in (SUBSET V) \ {{}} : (\A n \in S : FindNext(list, n, TRUE) \in S) => S = V
        /\ \A n \in V : FindPrev(list, FindNext(list, n, TRUE), TRUE) = n

(* The indices below dev_manager_get_total name each usable device once,   *)
(* from the first to the last, and the total itself names none             *)
(* (dev_manager.c:234, :260, :291, :489).                                  *)
IndexEnumerates ==
  \A v \in BOOLEAN :
    LET t == GetTotal(list, v)
    IN  /\ {FindByIndex(list, k, v) : k \in 0..(t - 1)} = {list[i].node : i \in Usable(list, v)}
        /\ FindByIndex(list, t, v) = NoNode
        /\ t > 0 => /\ FindByIndex(list, 0, v) = FindFirst(list, v)
                    /\ FindByIndex(list, t - 1, v) = FindLast(list, v)
=============================================================================
