----------------------------- MODULE Containers -----------------------------
(***************************************************************************)
(* What the detectable containers promise: queue, stack and set whose      *)
(* operations take effect once each, between their invocation and their    *)
(* return, and of which a power failure can take back only the last ones,  *)
(* if they have not returned.  "enq" and "deq" go to a FIFO queue, "push"  *)
(* and "pop" to a LIFO stack, inserts and deletes to a set of keys.        *)
(***************************************************************************)
EXTENDS Integers, FiniteSets, Sequences

CONSTANTS
    Threads,
    Progs     \* the programs; prog[t]: the operations of t, in order

VARIABLES
    prog,     \* the program that is run
    queue,    \* the values in the queue
    stack,    \* the values in the stack, top first
    set,      \* the operations whose keys are in the set
    seen,     \* seen[t]: whether the key of t's operation was in the set at times since it began
    effect,   \* effect[t][i]: what operation i of t did
    res       \* res[t][i]: what it returned

vars == <<prog, queue, stack, set, seen, effect, res>>

Pending == <<>>
Empty == <<0, 0>>   \* the result of a removal that found nothing
Ops == UNION {{t} \X DOMAIN prog[t] : t \in Threads}
Each(v) == [t \in Threads |-> [i \in DOMAIN prog[t] |-> v]]

Kind(o) == prog[o[1]][o[2]]

KeyOf == [ins1 |-> 1, ins2 |-> 2, del1 |-> 1, del2 |-> 2]
Inserts == {"ins1", "ins2"}
Deletes == {"del1", "del2"}
Present(op, S) == \E v \in S : KeyOf[Kind(v)] = KeyOf[op]

\* What the operation that t is in can see of its key in S.
Sees(t, S) ==
    LET i == Cardinality({j \in DOMAIN prog[t] : res[t][j] # Pending}) + 1 IN
    IF i \in DOMAIN prog[t] /\ prog[t][i] \in Inserts \cup Deletes THEN {Present(prog[t][i], S)} ELSE {}

Init ==
    /\ prog \in Progs
    /\ queue = <<>> /\ stack = <<>> /\ set = {}
    /\ effect = Each(Pending) /\ res = Each(Pending)
    /\ seen = [t \in Threads |-> Sees(t, set)]

\* A thread that returned starts to watch the key of its next operation.
Watch ==
    seen' = IF set' = set /\ res' = res THEN seen
            ELSE [t \in Threads |-> Sees(t, set)' \cup (IF res'[t] = res[t] THEN seen[t] ELSE {})]

\* Operation o is under way and has no effect yet.
Open(o) ==
    /\ \A j \in 1..o[2] : res[o[1]][j] = Pending <=> j = o[2]
    /\ effect[o[1]][o[2]] = Pending

Takes(o, v) == Open(o) /\ effect' = [effect EXCEPT ![o[1]][o[2]] = v] /\ UNCHANGED res

\* The value that an operation adds is the operation itself.
Enqueue(o) == Kind(o) = "enq" /\ Takes(o, o) /\ queue' = Append(queue, o) /\ UNCHANGED <<stack, set>>
Push(o) == Kind(o) = "push" /\ Takes(o, o) /\ stack' = <<o>> \o stack /\ UNCHANGED <<queue, set>>

Dequeue(o) ==
    /\ Kind(o) = "deq" /\ queue # <<>>
    /\ Takes(o, Head(queue)) /\ queue' = Tail(queue) /\ UNCHANGED <<stack, set>>

Pop(o) ==
    /\ Kind(o) = "pop" /\ stack # <<>>
    /\ Takes(o, Head(stack)) /\ stack' = Tail(stack) /\ UNCHANGED <<queue, set>>

FindEmpty(o) ==
    /\ (Kind(o) = "deq" /\ queue = <<>>) \/ (Kind(o) = "pop" /\ stack = <<>>)
    /\ Takes(o, Empty)
    /\ UNCHANGED <<queue, stack, set>>

Insert(o) ==
    /\ Kind(o) \in Inserts /\ ~Present(Kind(o), set)
    /\ Takes(o, o) /\ set' = set \cup {o} /\ UNCHANGED <<queue, stack>>

Delete(o) ==
    \E v \in set :
        /\ Kind(o) \in Deletes /\ KeyOf[Kind(v)] = KeyOf[Kind(o)]
        /\ Takes(o, v) /\ set' = set \ {v} /\ UNCHANGED <<queue, stack>>

\* The key was there, or was not there, at some time since the operation began.
Refuse(o) ==
    /\ \/ Kind(o) \in Inserts /\ TRUE \in seen[o[1]]
       \/ Kind(o) \in Deletes /\ FALSE \in seen[o[1]]
    /\ Takes(o, Empty)
    /\ UNCHANGED <<queue, stack, set>>

Return(o) ==
    /\ effect[o[1]][o[2]] # Pending /\ res[o[1]][o[2]] = Pending
    /\ res' = [res EXCEPT ![o[1]][o[2]] = effect[o[1]][o[2]]]
    /\ UNCHANGED <<queue, stack, set, effect>>

\* Queue operations that a power failure may still take back.
Unacknowledged ==
    {o \in Ops : /\ Kind(o) \in {"enq", "deq"}
                 /\ effect[o[1]][o[2]] \notin {Pending, Empty}
                 /\ res[o[1]][o[2]] = Pending}

\* The last enqueue and the last dequeue may be undone, if unacknowledged.
PowerFailure ==
    \E lost \in SUBSET Unacknowledged :
        LET enqs == {o \in lost : Kind(o) = "enq"}
            deqs == lost \ enqs
            back == {effect[o[1]][o[2]] : o \in deqs} IN
        /\ Cardinality(enqs) <= 1 /\ Cardinality(deqs) <= 1
        /\ \A o \in enqs : queue # <<>> /\ o = queue[Len(queue)]
        /\ queue' = (IF back = {} THEN <<>> ELSE <<CHOOSE v \in back : TRUE>>) \o SelectSeq(queue, LAMBDA v : v \notin enqs)
        /\ effect' = [t \in Threads |-> [i \in DOMAIN prog[t] |->
                         IF <<t, i>> \in lost THEN Pending ELSE effect[t][i]]]
        /\ UNCHANGED <<stack, set, res>>

Next ==
    /\ \/ \E o \in Ops :
              \/ Enqueue(o) \/ Dequeue(o) \/ Push(o) \/ Pop(o) \/ FindEmpty(o)
              \/ Insert(o) \/ Delete(o) \/ Refuse(o) \/ Return(o)
       \/ PowerFailure
    /\ Watch
    /\ UNCHANGED prog

Spec == Init /\ [][Next]_vars
=============================================================================
