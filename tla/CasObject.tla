----------------------------- MODULE CasObject -----------------------------
(***************************************************************************)
(* What detectable CAS promises to the threads that update shared          *)
(* locations with it, free of helping, descriptors, caches and clocks:     *)
(* each update takes effect once, in the order of its thread's program,    *)
(* before it returns, and a power failure takes back only the latest       *)
(* updates of a location that have not returned.  A non-detectable update  *)
(* (cas_non_detectable) may happen any number of times.                    *)
(***************************************************************************)
EXTENDS Integers, Sequences

CONSTANTS
    Threads,  \* thread ids, positive (0 is "nobody" in a pointer)
    Locs,     \* locations, positive
    Scenarios \* records; prog[t]: sequence of updates [loc, new, nd]

VARIABLES
    scenario,  \* the one that is run
    log,       \* log[l]: the updates that took effect on l, in order
    acked      \* acked[t]: how many updates of t have returned

Prog == scenario.prog
Ops(t) == 1..Len(Prog[t])
Effects(l) == {log[l][n] : n \in DOMAIN log[l]}
Update(t, i) == [by |-> t, i |-> i]

ObjectInit ==
    /\ scenario \in Scenarios
    /\ log = [l \in Locs |-> <<>>]
    /\ acked = [t \in Threads |-> 0]

Apply(t, i) ==
    /\ \/ i = acked[t] + 1 /\ Update(t, i) \notin Effects(Prog[t][i].loc)
       \/ i <= acked[t] + 1 /\ Prog[t][i].nd
    /\ log' = [log EXCEPT ![Prog[t][i].loc] = Append(@, Update(t, i))]
    /\ UNCHANGED <<scenario, acked>>

Ack(t, i) ==
    /\ i = acked[t] + 1
    /\ Prog[t][i].nd \/ Update(t, i) \in Effects(Prog[t][i].loc)
    /\ acked' = [acked EXCEPT ![t] = i]
    /\ UNCHANGED <<scenario, log>>

Forget ==
    /\ DOMAIN log' = Locs
    /\ \A l \in Locs : \E n \in 0..Len(log[l]) : log'[l] = SubSeq(log[l], 1, n)
    /\ \A t \in Threads : \A i \in 1..acked[t] :
        ~Prog[t][i].nd => Update(t, i) \in Effects(Prog[t][i].loc)'
    /\ UNCHANGED <<scenario, acked>>

ObjectNext ==
    \/ \E t \in Threads : \E i \in Ops(t) : Apply(t, i) \/ Ack(t, i)
    \/ Forget

(***************************************************************************)
(* Exactly-once updates: what DetectableCASAtomic::cas and cas_result must *)
(* give to a thread that is re-executed after a crash.                     *)
(***************************************************************************)
ObjectSpec == ObjectInit /\ [][ObjectNext]_<<scenario, log, acked>>
=============================================================================
