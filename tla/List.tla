-------------------------------- MODULE List --------------------------------
(***************************************************************************)
(* The detectable sorted list of src/ds/list.rs (Harris): a delete marks   *)
(* its node by a detectable CAS on the node's own link and then tries to   *)
(* unlink it; every search unlinks the marked nodes that it passes.  The   *)
(* searches are not recorded, only what they find.                         *)
(***************************************************************************)
EXTENDS Mementos

VARIABLES
    link,   \* link[n]: the next node, and the tag that marks n as deleted
    set     \* history: the nodes whose keys are in the list

listVars == <<link, set>>

ListHead == <<0, 1>>
To(n, tag) == [to |-> n, tag |-> tag]

ListInit == link = [n \in Ops \cup {ListHead} |-> To(Null, 0)] /\ set = {}

\* The key that the current operation is about.
MyKey(t) == KeyOf[prog[t][th[t].i]]
NodeKey(n) == KeyOf[prog[n[1]][n[2]]]
Inserting(t) == prog[t][th[t].i] \in Inserts
Found(t) == th[t].cur # Null /\ NodeKey(th[t].cur) = MyKey(t)

\* insert: the node is allocated once.
Insert(t) == th[t].pc \in Inserts /\ MakeNode(t, "try_insert") /\ UNCHANGED listVars

\* What try_insert and try_delete have found is recorded.
TryUpdate(t) ==
    /\ th[t].pc \in Deletes \cup {"try_insert"}
    /\ th' = [th EXCEPT ![t] =
          IF Replays(t, "snap")
          THEN [@ EXCEPT !.lmax = Mem(t, "snap").ts, !.prev = Mem(t, "snap").v[1],
                         !.cur = Mem(t, "snap").v[2], !.pc = "found"]
          ELSE [@ EXCEPT !.rec = FALSE, !.pc = "find"]]
    /\ UNCHANGED <<listVars, mmtVars, retired, crashes, res>>

-----------------------------------------------------------------------------
\* find_inner, help.

Find(t) ==
    /\ At(t, "find")
    /\ LET n == link[ListHead].to IN
       th' = [th EXCEPT ![t].prev = ListHead, ![t].prev_next = n, ![t].cur = n, ![t].pc = "walk"]
    /\ UNCHANGED <<listVars, mmtVars, retired, crashes, res>>

\* A marked node is passed and stays between prev and cur.
Walk(t) ==
    LET cur == th[t].cur
        next == link[cur] IN
    /\ At(t, "walk")
    /\ \/ cur = Null /\ Goto(t, "help")
       \/ /\ cur # Null /\ next.tag = 1
          /\ th' = [th EXCEPT ![t].cur = next.to]
       \/ /\ cur # Null /\ next.tag = 0 /\ NodeKey(cur) < MyKey(t)
          /\ th' = [th EXCEPT ![t].prev = cur, ![t].prev_next = next.to, ![t].cur = next.to]
       \/ cur # Null /\ next.tag = 0 /\ NodeKey(cur) >= MyKey(t) /\ Goto(t, "help")
    /\ UNCHANGED <<listVars, mmtVars, retired, crashes, res>>

\* Variant: the link is stored instead of swapped.
linked_always(n, to) == TRUE

\* A CAS on the link of n that expects an unmarked pointer to the node to.
linked(n, to) == link[n] = To(to, 0)

\* The marked nodes between prev and cur are unlinked, by a CAS that leaves no record.
Help(t) ==
    LET prev == th[t].prev IN
    /\ At(t, "help")
    /\ \/ th[t].prev_next = th[t].cur /\ Goto(t, "record") /\ UNCHANGED link
       \/ /\ th[t].prev_next # th[t].cur /\ linked(prev, th[t].prev_next)
          /\ link' = [link EXCEPT ![prev] = To(th[t].cur, 0)]
          /\ Goto(t, "retire")
       \/ /\ th[t].prev_next # th[t].cur /\ ~linked(prev, th[t].prev_next)
          /\ Goto(t, "find")
          /\ UNCHANGED link
    /\ UNCHANGED <<set, mmtVars, retired, crashes, res>>

\* Variant: only the first node of the chain is retired.
chain_first(t) == th[t].prev_next = link[th[t].prev].to

\* The nodes from prev_next up to cur.
chain(t) == th[t].prev_next # th[t].cur

RetireChain(t) ==
    /\ At(t, "retire")
    /\ \/ /\ chain(t)
          /\ Retire(t, th[t].prev_next)
          /\ th' = [th EXCEPT ![t].prev_next = link[@].to]
       \/ /\ ~chain(t)
          /\ Goto(t, "record")
          /\ UNCHANGED retired
    /\ UNCHANGED <<listVars, mmtVars, crashes, res>>

\* The new node, which is not shared yet, is linked to what was found.
RecordFound(t) ==
    /\ At(t, "record")
    /\ link' = IF Inserting(t) /\ ~Found(t) THEN [link EXCEPT ![Node(t)] = To(th[t].cur, 0)] ELSE link
    /\ Record(t, "snap", <<th[t].prev, th[t].cur>>)
    /\ Goto(t, "found")
    /\ UNCHANGED <<set, retired, crashes, res>>

-----------------------------------------------------------------------------
\* try_insert, try_delete.

Decide(t) ==
    /\ At(t, "found")
    /\ \/ Inserting(t) /\ Found(t) /\ Retire(t, Node(t)) /\ Return(t, Empty)
       \/ ~Inserting(t) /\ ~Found(t) /\ UNCHANGED retired /\ Return(t, Empty)
       \/ /\ Inserting(t) # Found(t)
          /\ Goto(t, IF Inserting(t) THEN "add" ELSE "after")
          /\ UNCHANGED <<mmtVars, retired, crashes, res>>
    /\ UNCHANGED listVars

InsertNode(t) ==
    LET prev == th[t].prev
        free == linked(prev, th[t].cur) IN
    /\ At(t, "add")
    /\ \/ ReplayCas(t, "cas", "inserted", "try_insert") /\ UNCHANGED listVars
       \/ /\ ExecuteCas(t, "cas", free, "inserted", "try_insert")
          /\ link' = IF free THEN [link EXCEPT ![prev] = To(Node(t), 0)] ELSE link
          /\ set' = IF free THEN set \cup {Node(t)} ELSE set
    /\ UNCHANGED <<retired, crashes, res>>

Inserted(t) == At(t, "inserted") /\ Return(t, Node(t)) /\ UNCHANGED <<listVars, retired>>

\* The link of the node to delete is recorded: what it is, or what the failed CAS has met.  If it
\* is marked then the node has been deleted by another thread.
RecordNext(t) ==
    LET seen == IF At(t, "again") THEN Mem(t, "fail") ELSE link[th[t].cur]
        next == IF Replays(t, "after") THEN Mem(t, "after").v ELSE seen IN
    /\ th[t].pc \in {"after", "again"}
    /\ th' = [th EXCEPT ![t].next = next.to, ![t].rec = Replays(t, "after"),
                        ![t].lmax = IF Replays(t, "after") THEN Mem(t, "after").ts ELSE @,
                        ![t].pc = IF next.tag = 1 THEN prog[t][th[t].i] ELSE "mark"]
    /\ IF Replays(t, "after") THEN UNCHANGED mmtVars ELSE Record(t, "after", seen)
    /\ UNCHANGED <<listVars, retired, crashes, res>>

\* logical: the CAS records what it has met if it fails.
MarkNode(t) ==
    LET cur == th[t].cur
        free == linked(cur, th[t].next) IN
    /\ At(t, "mark")
    /\ \/ ReplayCas(t, "cas", "unlink", "again") /\ UNCHANGED listVars
       \/ /\ ~Replays(t, "cas")
          /\ clock' = [clock EXCEPT ![t] = @ + 1]
          /\ mem' = [mem EXCEPT ![t][th[t].i].cas = [ts |-> clock'[t], v |-> free],
                                ![t][th[t].i].fail = IF free THEN @ ELSE link[cur]]
          /\ th' = [th EXCEPT ![t].rec = FALSE, ![t].pc = IF free THEN "unlink" ELSE "again"]
          /\ link' = IF free THEN [link EXCEPT ![cur].tag = 1] ELSE link
          /\ set' = IF free THEN set \ {cur} ELSE set
    /\ UNCHANGED <<retired, crashes, res>>

\* physical
UnlinkNode(t) ==
    LET prev == th[t].prev
        free == linked(prev, th[t].cur) IN
    /\ At(t, "unlink")
    /\ \/ ReplayCas(t, "forward", "unlinked", "deleted") /\ UNCHANGED link
       \/ /\ ExecuteCas(t, "forward", free, "unlinked", "deleted")
          /\ link' = IF free THEN [link EXCEPT ![prev] = To(th[t].next, 0)] ELSE link
    /\ UNCHANGED <<set, retired, crashes, res>>

\* Who unlinks a node retires it.
Deleted(t) ==
    /\ th[t].pc \in {"unlinked", "deleted"}
    /\ IF At(t, "unlinked") THEN Retire(t, th[t].cur) ELSE UNCHANGED retired
    /\ Return(t, th[t].cur)
    /\ UNCHANGED listVars

ListStep(t) ==
    \/ Insert(t) \/ TryUpdate(t) \/ Find(t) \/ Walk(t) \/ Help(t) \/ RetireChain(t) \/ RecordFound(t)
    \/ Decide(t) \/ InsertNode(t) \/ Inserted(t)
    \/ RecordNext(t) \/ MarkNode(t) \/ UnlinkNode(t) \/ Deleted(t)

-----------------------------------------------------------------------------

Path == Follow([n \in DOMAIN link |-> link[n].to], link[ListHead].to)

\* The keys in the list are those of the unmarked nodes on the way from the head, in order.
ListFollowsLinks ==
    LET unmarked == SelectSeq(Path, LAMBDA n : link[n].tag = 0) IN
    /\ set = Range(unmarked)
    /\ \A i \in 2 .. Len(unmarked) : NodeKey(unmarked[i - 1]) < NodeKey(unmarked[i])
=============================================================================
