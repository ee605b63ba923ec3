------------------------------- MODULE Replay -------------------------------
(***************************************************************************)
(* What deterministic replay promises, free of crashes, caches and clocks. *)
(* A thread runs a program of mementos 1..N: a prologue 1..Loop-1 and a    *)
(* retry loop Loop..N that is left when its last result is in Exit (the    *)
(* shape of TreiberStack::push, QueueGeneral::enqueue, List::insert).      *)
(* Each logical step obtains one result, once, in program order.           *)
(***************************************************************************)
EXTENDS Integers

CONSTANTS
    N,     \* number of mementos of the program
    Loop,  \* first memento of the retry loop
    Vals,  \* results a memento can record
    Exit,  \* results of memento N that leave the loop
    NoVal  \* T::default(), the content of a cleared memento

ASSUME ProgramAssumption ==
    /\ N \in Nat \ {0}
    /\ Loop \in 1..N
    /\ Exit \subseteq Vals
    /\ NoVal \notin Vals

VARIABLES
    lpc,  \* logical program counter: the memento whose result is due
    lenv  \* results of the logical execution, the last one of each memento

Mementos == 1..N

\* The statement that follows memento k when it returned v; N+1 is the end.
After(k, v) ==
    IF k < N THEN k + 1 ELSE IF v \in Exit THEN N + 1 ELSE Loop

ReplayInit ==
    /\ lpc = 1
    /\ lenv = [k \in Mementos |-> NoVal]

Obtain(v) ==
    /\ lpc \in Mementos
    /\ lenv' = [lenv EXCEPT ![lpc] = v]
    /\ lpc' = After(lpc, v)

ReplayNext == \E v \in Vals : Obtain(v)

(***************************************************************************)
(* Every result of the logical execution is obtained by exactly one        *)
(* execution of its memento, in program order: what the replay of          *)
(* Checkpoint::checkpoint (peek on recovery) has to preserve.              *)
(***************************************************************************)
ReplaySpec == ReplayInit /\ [][ReplayNext]_<<lpc, lenv>>
=============================================================================
