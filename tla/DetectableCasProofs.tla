------------------------ MODULE DetectableCasProofs ------------------------
(***************************************************************************)
(* The theorem about DetectableCas.                                        *)
(*                                                                         *)
(* Helping never brings a value back: until power fails, a location holds  *)
(* the value of the last update, although helpers of any age replace marks *)
(* by descriptors and descriptors by values.  The argument is about whose  *)
(* descriptor a location names, and about what a helper has read of it.    *)
(***************************************************************************)
EXTENDS DetectableCas, TLAPS

-----------------------------------------------------------------------------
\* Power has not failed, and a thread that died updates one location only.  A thread with several
\* could go back to the first while a location names its descriptor.
Steady ==
    /\ scrash = 0
    /\ \A t \in Threads : tcrash[t] = 0 \/ \A i, j \in Ops(t) : Prog[t][i].loc = Prog[t][j].loc

\* What bounds the crashes.
Counters == scenario \in Scenarios /\ tcrash \in [Threads -> Nat] /\ scrash \in Nat

Entry == [by : Threads, i : Nat]
Logs == [Locs -> Seq(Entry)]
Fields == {"pc", "i", "rec", "lmax", "old", "cur", "k", "tcur", "tmp", "thelp"}
Shape ==
    /\ DOMAIN mem = Lines /\ DOMAIN th = Threads
    /\ log \in Logs
    /\ \A t \in Threads :
           /\ DOMAIN th[t] = Fields
           /\ DOMAIN mem[Desc(t)] = {"tmp_new", "seq"} /\ mem[Desc(t)].seq \in Nat

\* A word that a thread reads from a location: a descriptor has a leader.
Word(v) == v.desc \in {0, 1} /\ (v.desc = 1 => v.tid \in Threads /\ v.val \in Nat)

\* load_help before it finalizes, register_help, and finalize_help.
Looking == {"load", "time", "spin", "patience"}
Registering == {"register", "describe", "publish"}
Finalizing == {"finalize", "seq", "help", "raise", "swing"}

\* Where a thread is: in which call of load_help, and what it has put into the location.
Place(t) ==
    LET l == th[t] IN
    /\ l.i \in Nat \ {0} /\ (l.pc # "done" => l.i \in Ops(t))
    /\ l.pc \in Looking \cup Registering => l.k \in {"save", "cas", "result"}
    /\ l.pc \in Finalizing \cup {"settle"} => l.k \in {"save", "cas", "result", "second"}
    /\ l.pc \in {"first", "persist", "second"} => l.k = "cas"
    /\ l.pc \in {"succ", "own"} => l.k \in {"cas", "result"}
    /\ l.pc \in {"persist", "succ", "own", "second"} /\ l.k # "result" =>
           l.tmp.desc = 0 /\ l.tmp.val = Op(t).new

\* The pointer a thread has read.  If it is a descriptor that its leader has not replaced since, it
\* still says what it said, and that is what a helper has read of it.
Seen(t) ==
    LET l == th[t]
        d == l.cur.tid
    IN  /\ Word(l.cur)
        /\ l.pc \in Finalizing => l.cur.desc = 1
        /\ l.pc \in Registering => l.cur.desc = 0
        /\ l.cur.desc = 1 =>
               /\ l.cur.val <= mem[Desc(d)].seq
               /\ l.cur.val = mem[Desc(d)].seq =>
                      /\ th[d].pc \notin {"describe", "publish"}
                      /\ l.pc \in Finalizing \ {"finalize"} => l.tmp = mem[Desc(d)].tmp_new
        /\ l.pc = "publish" => mem[Desc(t)].tmp_new = l.cur

\* The location l names a descriptor of d.
Names(l, d) == mem[Loc(l)].desc = 1 /\ mem[Loc(l)].tid = d

\* The leader is helping itself.
Helps(d, l) ==
    LET h == th[d] IN
    /\ h.pc \in Looking \cup Finalizing /\ h.k \in {"save", "cas", "result"}
    /\ Op(d).loc = l
    /\ h.pc # "load" => h.cur = mem[Loc(l)]

\* A descriptor that a location names is the current one of its leader, who does not touch it: it
\* has to finish the help first, unless it died.
Leads(d) ==
    \A l \in Locs : Names(l, d) =>
        /\ mem[Loc(l)].val = mem[Desc(d)].seq
        /\ th[d].pc \notin Registering
        /\ th[d].pc = "patience" => th[d].cur.desc = 1
        /\ \E i \in Ops(d) : Prog[d][i].loc = l
        /\ Helps(d, l) \/ tcrash[d] > 0

CasInv ==
    /\ Shape
    /\ \A l \in Locs : Word(mem[Loc(l)])
    /\ \A t \in Threads : Place(t) /\ Seen(t) /\ Leads(t)
    /\ LocationFollowsLog

Inv == Counters /\ (Steady => CasInv)

-----------------------------------------------------------------------------
\* Lines.

\* The lines of locations, descriptors, help times and mementos are different ones.
LEMMA LineFacts ==
    /\ \A l \in Locs : Loc(l) \in Lines
    /\ \A t \in Threads : Desc(t) \in Lines
    /\ \A l, m : Loc(l) = Loc(m) => l = m
    /\ \A t, u : Desc(t) = Desc(u) => t = u
    /\ \A l, t : Loc(l) # Desc(t)
    /\ \A t, p, l : Help(t, p) # Loc(l) /\ Help(t, p) # Desc(l)
    /\ \A t, i, s, l : Buf(t, i, s) # Loc(l) /\ Buf(t, i, s) # Desc(l)
<1>1. \A l \in Locs : Loc(l) \in Lines
  BY DEF Lines
<1>2. \A t \in Threads : Desc(t) \in Lines
  BY DEF Lines
<1>3. \A l, m : Loc(l) = Loc(m) => l = m
  BY DEF Loc
<1>4. \A t, u : Desc(t) = Desc(u) => t = u
  BY DEF Desc
<1>5. \A l, t : Loc(l) # Desc(t)
  BY DEF Loc, Desc
<1>6. \A t, p, l : Help(t, p) # Loc(l) /\ Help(t, p) # Desc(l)
  BY DEF Loc, Desc, Help
<1>7. \A t, i, s, l : Buf(t, i, s) # Loc(l) /\ Buf(t, i, s) # Desc(l)
  BY DEF Loc, Desc, Buf
<1> QED
  BY <1>1, <1>2, <1>3, <1>4, <1>5, <1>6, <1>7, Zenon

\* A scenario has its lines.
LEMMA SameLines == ASSUME scenario' = scenario PROVE Lines' = Lines
BY DEF Lines, Ops, Prog

\* The programs of the scenario.
LEMMA Programs ==
    ASSUME Counters, NEW t \in Threads
    PROVE  Len(Prog[t]) \in Nat \ {0} /\ \A i \in Ops(t) : Prog[t][i].loc \in Locs
BY CasAssumption, Zenon DEF Counters, Prog, Ops

\* A thread that is not done is at an update of a location.
LEMMA AtLocation ==
    ASSUME Counters, CasInv, NEW t \in Threads, th[t].pc # "done"
    PROVE  th[t].i \in Ops(t) /\ Op(t).loc \in Locs /\ At(t) = Loc(Op(t).loc) /\ At(t) \in Lines
BY Programs, LineFacts, Zenon DEF CasInv, Place, Op, At

-----------------------------------------------------------------------------
\* Steps that register no help.

\* A step of t leaves the descriptors alone and puts no descriptor into a location.
Plain(t) ==
    /\ scenario' = scenario
    /\ \A u \in Threads : tcrash[u] > 0 => tcrash'[u] > 0
    /\ \A u \in Threads : u # t => th'[u] = th[u]
    /\ \A d \in Threads : mem'[Desc(d)] = mem[Desc(d)]
    /\ \A l \in Locs : mem'[Loc(l)] = mem[Loc(l)] \/ mem'[Loc(l)].desc = 0
    /\ Shape' /\ LocationFollowsLog'

\* It disturbs only what t itself knows.
LEMMA PlainKeeps ==
    ASSUME CasInv, NEW t \in Threads, Plain(t), Place(t)', Seen(t)', Leads(t)',
           th'[t].pc \in {"describe", "publish"} => th[t].pc \in {"describe", "publish"}
    PROVE  CasInv'
<1>1. Prog' = Prog /\ \A u : Ops(u)' = Ops(u)
  BY Zenon DEF Plain, Prog, Ops
<1>2. ASSUME NEW l \in Locs PROVE Word(mem[Loc(l)])'
  <2>1. mem'[Loc(l)] = mem[Loc(l)] \/ mem'[Loc(l)].desc = 0
    BY Zenon DEF Plain
  <2>2. Word(mem[Loc(l)])
    BY Zenon DEF CasInv
  <2>3. CASE mem'[Loc(l)].desc = 0
    BY <2>3 DEF Word
  <2> QED
    BY <2>1, <2>2, <2>3, Zenon DEF Word
<1>3. ASSUME NEW u \in Threads, u # t PROVE Place(u)' /\ Seen(u)' /\ Leads(u)'
  <2>1. th'[u] = th[u] /\ Op(u)' = Op(u)
    BY <1>1, <1>3, Zenon DEF Plain, Op
  <2>2. Place(u)'
    BY <1>1, <2>1, Zenon DEF CasInv, Place
  <2>3. Seen(u)'
    <3>1. Word(th[u].cur) /\ (th[u].cur.desc = 1 => th[u].cur.tid \in Threads)
      BY Zenon DEF CasInv, Seen, Word
    <3>2. \A d \in Threads : th'[d].pc \in {"describe", "publish"} => th[d].pc \in {"describe", "publish"}
      BY Zenon DEF Plain
    <3>3. mem'[Desc(u)] = mem[Desc(u)] /\ \A d \in Threads : mem'[Desc(d)] = mem[Desc(d)]
      BY Zenon DEF Plain
    <3>4. Seen(u)
      BY Zenon DEF CasInv
    <3> QED
      BY <2>1, <3>1, <3>2, <3>3, <3>4, Zenon DEF Seen, Word
  <2>4. Leads(u)'
    <3> SUFFICES ASSUME NEW l \in Locs, Names(l, u)'
                 PROVE  /\ mem'[Loc(l)].val = mem'[Desc(u)].seq
                        /\ th'[u].pc \notin Registering
                        /\ th'[u].pc = "patience" => th'[u].cur.desc = 1
                        /\ \E i \in Ops(u)' : Prog'[u][i].loc = l
                        /\ Helps(u, l)' \/ tcrash'[u] > 0
      BY Zenon DEF Leads
    <3>1. mem'[Loc(l)] = mem[Loc(l)] /\ mem'[Desc(u)] = mem[Desc(u)] /\ Names(l, u)
      <4>1. mem'[Loc(l)].desc # 0
        BY DEF Names
      <4> QED
        BY <4>1, Zenon DEF Names, Plain
    <3>2. Leads(u)
      BY Zenon DEF CasInv
    <3>3. Helps(u, l) => Helps(u, l)'
      BY <2>1, <3>1, Zenon DEF Helps
    <3>4. tcrash[u] > 0 => tcrash'[u] > 0
      BY Zenon DEF Plain
    <3> QED
      BY <1>1, <2>1, <3>1, <3>2, <3>3, <3>4, Zenon DEF Leads
  <2> QED
    BY <2>2, <2>3, <2>4, Zenon
<1> QED
  BY <1>2, <1>3, Zenon DEF CasInv, Plain

\* A location stands for the same value as long as its word and the descriptor it names stay.
LEMMA SameValue ==
    ASSUME NEW l, NEW c, c = mem[Loc(l)], c = mem'[Loc(l)],
           c.desc = 1 => mem'[Desc(c.tid)] = mem[Desc(c.tid)]
    PROVE  Resolve(mem, l)' = Resolve(mem, l)
BY Zenon DEF Resolve

\* A location stands for the same value as long as its word and all descriptors stay.
LEMMA SameWord ==
    ASSUME NEW l \in Locs, Word(mem[Loc(l)]), mem'[Loc(l)] = mem[Loc(l)],
           \A d \in Threads : mem'[Desc(d)] = mem[Desc(d)]
    PROVE  Resolve(mem, l)' = Resolve(mem, l)
BY Zenon DEF Word, Resolve

\* The locations stand for what they stood for.
LEMMA FollowsSame ==
    ASSUME CasInv, scenario' = scenario, log' = log,
           \A l \in Locs : mem'[Loc(l)] = mem[Loc(l)],
           \A d \in Threads : mem'[Desc(d)] = mem[Desc(d)]
    PROVE  LocationFollowsLog'
<1> SUFFICES ASSUME NEW l \in Locs
             PROVE  Resolve(mem, l)' = IF log'[l] = <<>> THEN Initial ELSE New(log[l][Len(log[l])])'
  BY Zenon DEF LocationFollowsLog
<1>1. Resolve(mem, l)' = Resolve(mem, l)
  BY SameWord, Zenon DEF CasInv
<1>2. New(log[l][Len(log[l])])' = New(log[l][Len(log[l])])
  BY Zenon DEF New, Prog
<1> QED
  BY <1>1, <1>2, Zenon DEF CasInv, LocationFollowsLog

\* No location and no descriptor is written.
Intact ==
    /\ DOMAIN mem' = Lines
    /\ \A d \in Threads : mem'[Desc(d)] = mem[Desc(d)]
    /\ \A l \in Locs : mem'[Loc(l)] = mem[Loc(l)]

\* A step of t that keeps them intact.
Quiet(t) ==
    /\ scenario' = scenario /\ log' = log /\ tcrash' = tcrash
    /\ DOMAIN th' = Threads /\ DOMAIN th'[t] = Fields
    /\ \A u \in Threads : u # t => th'[u] = th[u]
    /\ Intact

LEMMA QuietIsPlain ==
    ASSUME CasInv, NEW t \in Threads, Quiet(t)
    PROVE  Plain(t)
<1>1. Shape'
  <2>1. \A u \in Threads : DOMAIN th'[u] = Fields
    BY Zenon DEF CasInv, Shape, Quiet, Intact
  <2>2. \A u \in Threads : DOMAIN mem'[Desc(u)] = {"tmp_new", "seq"} /\ mem'[Desc(u)].seq \in Nat
    BY Zenon DEF CasInv, Shape, Quiet, Intact
  <2>3. DOMAIN mem' = Lines /\ DOMAIN th' = Threads /\ log' \in Logs
    BY Zenon DEF CasInv, Shape, Quiet, Intact
  <2> QED
    BY <2>1, <2>2, <2>3, SameLines, Zenon DEF Shape, Quiet, Intact
<1>2. LocationFollowsLog'
  BY FollowsSame, Zenon DEF Quiet, Intact
<1> QED
  BY <1>1, <1>2, Zenon DEF Plain, Quiet, Intact

-----------------------------------------------------------------------------
\* What t knows after a plain step.

\* The call of load_help is over, or has not begun.
Helping == Looking \cup Registering \cup Finalizing

\* A pointer that may be held: if it is a descriptor, its leader has not gone back to write it.
Fits(v) ==
    v.desc = 1 =>
        /\ v.val <= mem[Desc(v.tid)].seq
        /\ v.val = mem[Desc(v.tid)].seq => th[v.tid].pc \notin {"describe", "publish"}

\* What a location holds may be read from it.
LEMMA WordFits ==
    ASSUME CasInv, NEW l \in Locs
    PROVE  Word(mem[Loc(l)]) /\ Fits(mem[Loc(l)])
<1>1. Word(mem[Loc(l)])
  BY Zenon DEF CasInv
<1>2. ASSUME mem[Loc(l)].desc = 1 PROVE Fits(mem[Loc(l)])
  <2>1. PICK d \in Threads : mem[Loc(l)].tid = d
    BY <1>1, <1>2, Zenon DEF Word
  <2>2. mem[Loc(l)].val = mem[Desc(d)].seq /\ th[d].pc \notin Registering
    BY <1>2, <2>1, Zenon DEF CasInv, Leads, Names
  <2>3. mem[Desc(d)].seq \in Nat
    BY Zenon DEF CasInv, Shape
  <2>4. mem[Loc(l)].val <= mem[Desc(d)].seq
    BY <2>2, <2>3
  <2> QED
    BY <2>1, <2>2, <2>4, Zenon DEF Fits, Registering
<1> QED
  BY <1>1, <1>2, Zenon DEF Fits

\* t leaves load_help, or is not in it.
LEMMA LeavesKeeps ==
    ASSUME CasInv, NEW t \in Threads, Plain(t), Place(t)',
           th'[t].pc \notin Helping \ {"load"}, Word(th'[t].cur), Fits(th'[t].cur),
           \A l \in Locs : Names(l, t)' /\ Helps(t, l) => tcrash'[t] > 0
    PROVE  CasInv'
<1>1. th'[t].pc \notin Registering \cup Finalizing \cup {"patience"}
  BY Zenon DEF Helping, Looking, Registering, Finalizing
<1>2. Seen(t)'
  <2>1. PICK c : c = th'[t].cur
    OBVIOUS
  <2>2. Word(c) /\ Fits(c)'
    <3>1. c.desc = 1 => mem'[Desc(c.tid)] = mem[Desc(c.tid)]
      BY <2>1, Zenon DEF Plain, Word
    <3>2. c.desc = 1 /\ th'[c.tid].pc \in {"describe", "publish"} => th[c.tid].pc \in {"describe", "publish"}
      BY <1>1, <2>1, Zenon DEF Plain, Word, Registering
    <3> QED
      BY <2>1, <3>1, <3>2, Zenon DEF Fits
  <2> QED
    BY <1>1, <2>1, <2>2, Zenon DEF Seen, Word, Fits, Registering
<1>3. Leads(t)'
  <2> SUFFICES ASSUME NEW l \in Locs, Names(l, t)'
               PROVE  /\ mem'[Loc(l)].val = mem'[Desc(t)].seq
                      /\ \E i \in Ops(t)' : Prog'[t][i].loc = l
                      /\ tcrash'[t] > 0
    BY <1>1, Zenon DEF Leads
  <2>1. mem'[Loc(l)] = mem[Loc(l)] /\ mem'[Desc(t)] = mem[Desc(t)] /\ Names(l, t)
    <3>1. mem'[Loc(l)].desc # 0
      BY DEF Names
    <3> QED
      BY <3>1, Zenon DEF Names, Plain
  <2>2. Leads(t)
    BY Zenon DEF CasInv
  <2>3. Prog' = Prog /\ Ops(t)' = Ops(t)
    BY Zenon DEF Plain, Prog, Ops
  <2>4. tcrash[t] > 0 => tcrash'[t] > 0
    BY Zenon DEF Plain
  <2> QED
    BY <2>1, <2>2, <2>3, <2>4, Zenon DEF Leads
<1> QED
  BY <1>1, <1>2, <1>3, PlainKeeps, Zenon DEF Registering

\* A thread may hold what it holds.
LEMMA CurFits ==
    ASSUME CasInv, NEW t \in Threads
    PROVE  Word(th[t].cur) /\ Fits(th[t].cur)
BY Zenon DEF CasInv, Seen, Fits

\* Outside load_help.
LEMMA AwayKeeps ==
    ASSUME CasInv, NEW t \in Threads, Plain(t), Place(t)',
           th[t].pc \notin Helping \/ th[t].k = "second",
           th'[t].pc \notin Helping \ {"load"},
           th'[t].cur = th[t].cur \/ th'[t].cur.desc = 0
    PROVE  CasInv'
<1>1. \A l \in Locs : ~Helps(t, l)
  <2>1. "second" \notin {"save", "cas", "result"}
    OBVIOUS
  <2> QED
    BY <2>1, Zenon DEF Helps, Helping
<1>2. CASE th'[t].cur.desc = 0
  <2>1. Word(th'[t].cur) /\ Fits(th'[t].cur)
    BY <1>2 DEF Word, Fits
  <2> QED
    BY <1>1, <2>1, LeavesKeeps, Zenon
<1>3. CASE th'[t].cur = th[t].cur
  <2>1. Word(th'[t].cur) /\ Fits(th'[t].cur)
    BY <1>3, CurFits, Zenon
  <2> QED
    BY <1>1, <2>1, LeavesKeeps, Zenon
<1> QED
  BY <1>2, <1>3, Zenon

\* load_help has read a word: it returns it, or takes the time and looks again.
LEMMA LoadedKeeps ==
    ASSUME Counters, CasInv, NEW t \in Threads, Quiet(t), NEW v, Loaded(t, v), Word(v), Fits(v),
           th[t].pc \in {"load", "spin", "publish", "first", "settle"},
           th[t].k \in {"save", "cas", "result"},
           \A l \in Locs : Names(l, t) /\ Helps(t, l) => v = mem[Loc(l)]
    PROVE  CasInv'
<1>0. Plain(t)
  BY QuietIsPlain, Zenon
<1>1. PICK b : /\ b = IF v.tid = 0
                       THEN CASE th[t].k = "save" -> "save"
                              [] th[t].k = "cas" -> IF v = th[t].old THEN "first" ELSE "fail"
                              [] th[t].k = "result" -> "result"
                       ELSE "time"
               /\ th' = [th EXCEPT ![t].cur = v, ![t].pc = b, ![t].tmp = Clean(Initial),
                                   ![t].thelp = 0, ![t].tcur = 0]
  BY Zenon DEF Loaded
<1>2. th'[t].cur = v /\ th'[t].k = th[t].k /\ th'[t].i = th[t].i /\ th'[t].pc = b
  <2>1. th'[t] = [th[t] EXCEPT !.cur = v, !.pc = b, !.tmp = Clean(Initial), !.thelp = 0, !.tcur = 0]
    BY <1>1, Zenon DEF CasInv, Shape
  <2>2. "cur" \in DOMAIN th[t] /\ "k" \in DOMAIN th[t] /\ "i" \in DOMAIN th[t] /\ "pc" \in DOMAIN th[t]
    BY DEF CasInv, Shape, Fields
  <2> QED
    BY <2>1, <2>2, Zenon
<1>3. /\ v.tid # 0 => th'[t].pc = "time"
      /\ th'[t].pc \in {"time", "save", "first", "fail", "result"}
      /\ th'[t].pc = "first" => th[t].k = "cas"
  <2>1. CASE v.tid # 0
    BY <1>1, <1>2, <2>1
  <2>2. CASE v.tid = 0 /\ th[t].k = "save"
    BY <1>1, <1>2, <2>2
  <2>3. CASE v.tid = 0 /\ th[t].k = "cas"
    BY <1>1, <1>2, <2>3
  <2>4. CASE v.tid = 0 /\ th[t].k = "result"
    BY <1>1, <1>2, <2>4
  <2> QED
    BY <2>1, <2>2, <2>3, <2>4, Zenon
<1>4. th'[t].pc \notin Registering \cup Finalizing
                     \cup {"patience", "persist", "second", "settle", "done", "succ", "own"}
  BY <1>3 DEF Registering, Finalizing
<1>5. Place(t)'
  <2>1. Ops(t)' = Ops(t) /\ th[t].pc # "done" /\ Place(t)
    BY Zenon DEF Quiet, Intact, Ops, Prog, CasInv
  <2> QED
    BY <1>2, <1>3, <1>4, <2>1, Zenon DEF Place
<1>6. Seen(t)'
  <2>1. Fits(v)'
    <3>1. v.desc = 1 => mem'[Desc(v.tid)] = mem[Desc(v.tid)]
      BY Zenon DEF Quiet, Intact, Word
    <3>2. v.desc = 1 /\ th'[v.tid].pc \in {"describe", "publish"} => th[v.tid].pc \in {"describe", "publish"}
      BY <1>4, Zenon DEF Quiet, Intact, Word, Registering
    <3> QED
      BY <3>1, <3>2, Zenon DEF Fits
  <2> QED
    BY <1>2, <1>4, <2>1, Zenon DEF Seen, Word, Fits, Registering
<1>7. Leads(t)'
  <2> SUFFICES ASSUME NEW l \in Locs, Names(l, t)'
               PROVE  /\ mem'[Loc(l)].val = mem'[Desc(t)].seq
                      /\ \E i \in Ops(t)' : Prog'[t][i].loc = l
                      /\ Helps(t, l)' \/ tcrash'[t] > 0
    BY <1>4, Zenon DEF Leads
  <2>1. mem'[Loc(l)] = mem[Loc(l)] /\ mem'[Desc(t)] = mem[Desc(t)] /\ Names(l, t) /\ tcrash' = tcrash
    BY Zenon DEF Names, Quiet, Intact
  <2>2. Leads(t)
    BY Zenon DEF CasInv
  <2>3. Prog' = Prog /\ Ops(t)' = Ops(t) /\ Op(t)' = Op(t)
    BY <1>2, Zenon DEF Quiet, Intact, Prog, Ops, Op
  <2>4. ASSUME Helps(t, l) PROVE Helps(t, l)'
    <3>1. v = mem[Loc(l)] /\ v.tid = t
      BY <2>1, <2>4, Zenon DEF Names
    <3>2. th'[t].pc = "time"
      BY <1>3, <3>1, CasAssumption
    <3> QED
      BY <1>2, <2>1, <2>3, <2>4, <3>1, <3>2, Zenon DEF Helps, Looking
  <2> QED
    BY <2>1, <2>2, <2>3, <2>4, Zenon DEF Leads
<1> QED
  BY <1>0, <1>4, <1>5, <1>6, <1>7, PlainKeeps, Zenon DEF Registering

\* Within load_help, until the location is swung.
LEMMA StayKeeps ==
    ASSUME Counters, Steady, CasInv, NEW t \in Threads, Quiet(t),
           th[t].pc \in (Looking \cup Finalizing) \ {"load"}, th'[t].pc \in Looking \cup Finalizing,
           th'[t].cur = th[t].cur, th'[t].k = th[t].k, th'[t].i = th[t].i,
           th'[t].pc \in Looking => th[t].k \in {"save", "cas", "result"},
           th'[t].pc \in Finalizing => th[t].cur.desc = 1,
           th'[t].pc \in Finalizing \ {"finalize"} =>
               \/ th[t].pc \in Finalizing \ {"finalize"} /\ th'[t].tmp = th[t].tmp
               \/ th'[t].tmp = mem[Desc(th[t].cur.tid)].tmp_new,
           th'[t].pc = "patience" => th[t].cur = mem[At(t)]
    PROVE  CasInv'
<1>0. Plain(t)
  BY QuietIsPlain, Zenon
<1>1. th'[t].pc \notin Registering \cup {"first", "persist", "succ", "own", "second", "settle", "done"}
  BY DEF Looking, Finalizing, Registering
<1>2. Prog' = Prog /\ Ops(t)' = Ops(t) /\ Op(t)' = Op(t)
  BY Zenon DEF Quiet, Intact, Prog, Ops, Op
<1>3. th[t].pc # "done" /\ th[t].k \in {"save", "cas", "result", "second"}
  BY DEF CasInv, Place, Looking, Finalizing
<1>4. Place(t)'
  <2>1. Place(t)
    BY Zenon DEF CasInv
  <2> QED
    BY <1>1, <1>2, <1>3, <2>1, Zenon DEF Place
<1>5. Seen(t)'
  <2>1. Seen(t) /\ Word(th[t].cur)
    BY Zenon DEF CasInv, Seen
  <2>2. \A d \in Threads : th'[d].pc \in {"describe", "publish"} => th[d].pc \in {"describe", "publish"}
    BY <1>1, Zenon DEF Quiet, Intact, Registering
  <2>3. \A d \in Threads : mem'[Desc(d)] = mem[Desc(d)]
    BY Zenon DEF Quiet, Intact
  <2>4. th[t].cur.desc = 1 => th[t].cur.tid \in Threads
    BY <2>1, Zenon DEF Word
  <2>5. th'[t].pc # "publish"
    BY <1>1, Zenon DEF Registering
  <2> QED
    BY <1>1, <2>1, <2>2, <2>3, <2>4, <2>5, Zenon DEF Seen, Word
<1>6. Leads(t)'
  <2> SUFFICES ASSUME NEW l \in Locs, Names(l, t)'
               PROVE  /\ mem'[Loc(l)].val = mem'[Desc(t)].seq
                      /\ th'[t].pc = "patience" => th'[t].cur.desc = 1
                      /\ \E i \in Ops(t)' : Prog'[t][i].loc = l
                      /\ Helps(t, l)' \/ tcrash'[t] > 0
    BY <1>1, Zenon DEF Leads
  <2>1. mem'[Loc(l)] = mem[Loc(l)] /\ mem'[Desc(t)] = mem[Desc(t)] /\ Names(l, t) /\ tcrash' = tcrash
    BY Zenon DEF Names, Quiet, Intact
  <2>2. Leads(t)
    BY Zenon DEF CasInv
  <2>3. Helps(t, l) => Helps(t, l)'
    BY <1>2, <2>1, Zenon DEF Helps
  <2>4. ASSUME tcrash[t] > 0, th'[t].pc = "patience" PROVE th[t].cur.desc = 1
    <3>1. PICK i \in Ops(t) : Prog[t][i].loc = l
      BY <2>1, <2>2, Zenon DEF Leads
    <3>2. tcrash[t] # 0
      BY <2>4
    <3>3. Op(t).loc = l /\ At(t) = Loc(Op(t).loc)
      BY <1>3, <3>1, <3>2, AtLocation, Zenon DEF Steady, Op
    <3> QED
      BY <2>1, <2>4, <3>3, Zenon DEF Names
  <2>5. ASSUME Helps(t, l) PROVE th[t].cur.desc = 1
    BY <2>1, <2>5, Zenon DEF Helps, Names
  <2> QED
    BY <1>2, <2>1, <2>2, <2>3, <2>4, <2>5, Zenon DEF Leads
<1> QED
  BY <1>0, <1>1, <1>4, <1>5, <1>6, PlainKeeps, Zenon DEF Registering

-----------------------------------------------------------------------------
\* What the steps change.

\* The fields of a thread.
LEMMA ThreadFields ==
    ASSUME CasInv, NEW t \in Threads
    PROVE  /\ t \in DOMAIN th /\ DOMAIN th = Threads /\ DOMAIN th[t] = Fields
           /\ "pc" \in Fields /\ "i" \in Fields /\ "rec" \in Fields /\ "lmax" \in Fields
           /\ "old" \in Fields /\ "cur" \in Fields /\ "k" \in Fields /\ "tcur" \in Fields
           /\ "tmp" \in Fields /\ "thelp" \in Fields
BY Zenon DEF CasInv, Shape, Fields

LEMMA StartFields ==
    /\ DOMAIN Start = Fields /\ Start.pc = "checkpoint" /\ Start.i = 1 /\ Start.k = "save"
    /\ Start.cur.desc = 0
<1>1. DOMAIN Start = Fields
  BY Zenon DEF Start, Fields
<1>2. Start.pc = "checkpoint" /\ Start.i = 1 /\ Start.k = "save" /\ Start.cur = Clean(Initial)
  BY Zenon DEF Start
<1>3. Clean(Initial).desc = 0
  BY DEF Clean
<1> QED
  BY <1>1, <1>2, <1>3, Zenon

\* A step that gives t the state r.
LEMMA NewState ==
    ASSUME CasInv, NEW t \in Threads, NEW r, th' = [th EXCEPT ![t] = r]
    PROVE  DOMAIN th' = Threads /\ th'[t] = r /\ \A u \in Threads : u # t => th'[u] = th[u]
BY Zenon DEF CasInv, Shape

\* A step that only moves t.
LEMMA Moved ==
    ASSUME CasInv, NEW t \in Threads, NEW pc, Goto(t, pc)
    PROVE  /\ DOMAIN th' = Threads /\ DOMAIN th'[t] = Fields
           /\ \A u \in Threads : u # t => th'[u] = th[u]
           /\ th'[t].pc = pc /\ th'[t].i = th[t].i /\ th'[t].cur = th[t].cur /\ th'[t].k = th[t].k
           /\ th'[t].tmp = th[t].tmp
<1> DEFINE r == [th[t] EXCEPT !.pc = pc]
<1>1. th' = [th EXCEPT ![t] = r]
  BY Zenon DEF Goto
<1>2. /\ DOMAIN r = Fields /\ r.pc = pc /\ r.i = th[t].i /\ r.cur = th[t].cur /\ r.k = th[t].k
      /\ r.tmp = th[t].tmp
  BY ThreadFields, Zenon
<1> HIDE DEF r
<1> QED
  BY <1>1, <1>2, NewState, Zenon

\* load_help has read a word: what that changes.
LEMMA LoadedQuiet ==
    ASSUME CasInv, NEW t \in Threads, NEW v, Loaded(t, v)
    PROVE  /\ DOMAIN th' = Threads /\ DOMAIN th'[t] = Fields
           /\ \A u \in Threads : u # t => th'[u] = th[u]
<1>1. PICK b : th' = [th EXCEPT ![t].cur = v, ![t].pc = b, ![t].tmp = Clean(Initial),
                                ![t].thelp = 0, ![t].tcur = 0]
  BY Zenon DEF Loaded
<1> DEFINE r == [th[t] EXCEPT !.cur = v, !.pc = b, !.tmp = Clean(Initial), !.thelp = 0, !.tcur = 0]
<1>2. th' = [th EXCEPT ![t] = r]
  BY <1>1, Zenon
<1>3. DOMAIN r = Fields
  BY ThreadFields, Zenon
<1> HIDE DEF r
<1> QED
  BY <1>2, <1>3, NewState, Zenon

\* A memory line that is neither a location nor a descriptor.
LEMMA OtherLine ==
    ASSUME CasInv, NEW x, NEW w, mem' = [mem EXCEPT ![x] = w],
           \A l : x # Loc(l) /\ x # Desc(l)
    PROVE  Intact
BY LineFacts, Zenon DEF CasInv, Shape, Intact

\* The line of a location.
LEMMA LocationLine ==
    ASSUME CasInv, NEW l \in Locs, NEW w, mem' = [mem EXCEPT ![Loc(l)] = w]
    PROVE  /\ DOMAIN mem' = Lines
           /\ \A d \in Threads : mem'[Desc(d)] = mem[Desc(d)]
           /\ mem'[Loc(l)] = w /\ \A m \in Locs : m # l => mem'[Loc(m)] = mem[Loc(m)]
BY LineFacts, Zenon DEF CasInv, Shape

\* The memory as it was.
LEMMA SameMemory == ASSUME CasInv, mem' = mem PROVE Intact
BY Zenon DEF CasInv, Shape, Intact

\* An update returns.
LEMMA Finished ==
    ASSUME Counters, CasInv, NEW t \in Threads, th[t].pc # "done", NEW lmax, Finish(t, lmax), scenario' = scenario
    PROVE  /\ DOMAIN th' = Threads /\ DOMAIN th'[t] = Fields
           /\ \A u \in Threads : u # t => th'[u] = th[u]
           /\ th'[t].pc \in {"done", "checkpoint"} /\ th'[t].cur.desc = 0 /\ Place(t)'
<1>1. PICK pc : /\ pc = IF th[t].i = Len(Prog[t]) THEN "done" ELSE "checkpoint"
                /\ th' = [th EXCEPT ![t] = [Start EXCEPT !.i = th[t].i + 1, !.rec = th[t].rec,
                                                         !.lmax = lmax, !.pc = pc]]
  BY Zenon DEF Finish
<1> DEFINE r == [Start EXCEPT !.i = th[t].i + 1, !.rec = th[t].rec, !.lmax = lmax, !.pc = pc]
<1>2. DOMAIN r = Fields /\ r.pc = pc /\ r.i = th[t].i + 1 /\ r.cur.desc = 0
  BY ThreadFields, StartFields, Zenon
<1>3. DOMAIN th' = Threads /\ th'[t] = r /\ \A u \in Threads : u # t => th'[u] = th[u]
  BY <1>1, NewState, Zenon
<1> HIDE DEF r
<1>4. pc \in {"done", "checkpoint"} /\ (pc # "done" => th[t].i # Len(Prog[t]))
  BY <1>1
<1>5. th[t].i + 1 \in Nat \ {0} /\ (pc # "done" => th[t].i + 1 \in Ops(t))
  <2>1. th[t].i \in 1 .. Len(Prog[t]) /\ Len(Prog[t]) \in Nat
    BY Programs, AtLocation, Zenon DEF Ops
  <2> QED
    BY <1>4, <2>1 DEF Ops
<1>6. Ops(t)' = Ops(t)
  BY Zenon DEF Ops, Prog
<1>7. Place(t)'
  <2>1. pc \notin Looking \cup Registering \cup Finalizing
              \cup {"settle", "first", "persist", "second", "succ", "own"}
    BY <1>4 DEF Looking, Registering, Finalizing
  <2> QED
    BY <1>2, <1>3, <1>5, <1>6, <2>1, Zenon DEF Place
<1> QED
  BY <1>2, <1>3, <1>4, <1>7, Zenon

\* It returns from where it was not helping.
LEMMA FinishKeeps ==
    ASSUME Counters, CasInv, NEW t \in Threads, th[t].pc # "done", NEW lmax, Finish(t, lmax), Plain(t),
           th[t].pc \notin Helping \/ th[t].k = "second"
    PROVE  CasInv'
<1>1. th'[t].pc \in {"done", "checkpoint"} /\ th'[t].cur.desc = 0 /\ Place(t)'
  BY Finished, Zenon DEF Plain
<1>2. th'[t].pc \notin Helping
  BY <1>1 DEF Helping, Looking, Registering, Finalizing
<1> QED
  BY <1>1, <1>2, AwayKeeps, Zenon

\* The operation of t is the same as long as its number is.
LEMMA SameOp ==
    ASSUME NEW t \in Threads, scenario' = scenario, th'[t].i = th[t].i
    PROVE  Ops(t)' = Ops(t) /\ Op(t)' = Op(t)
BY Zenon DEF Ops, Op, Prog

\* A quiet step gives t the state r.
LEMMA QuietTo ==
    ASSUME CasInv, NEW t \in Threads, NEW r, th' = [th EXCEPT ![t] = r], DOMAIN r = Fields,
           Intact, UNCHANGED <<scenario, log, tcrash>>
    PROVE  Quiet(t) /\ th'[t] = r
BY NewState, Zenon DEF Quiet

\* A quiet step outside load_help.
LEMMA AwayTo ==
    ASSUME CasInv, NEW t \in Threads, NEW r, th' = [th EXCEPT ![t] = r], DOMAIN r = Fields,
           Intact, UNCHANGED <<scenario, log, tcrash>>,
           th[t].pc \notin Helping, th[t].pc # "done", r.i = th[t].i,
           r.pc \in {"checkpoint", "cas", "load", "first", "succ", "second", "own", "fence"},
           r.pc = "load" => r.k \in {"save", "result"},
           r.pc \in {"first", "second"} => r.k = "cas",
           r.pc \in {"succ", "own"} => r.k \in {"cas", "result"},
           r.pc \in {"succ", "own", "second"} /\ r.k # "result" => r.tmp.desc = 0 /\ r.tmp.val = Op(t).new,
           r.cur = th[t].cur \/ r.cur.desc = 0
    PROVE  CasInv'
<1>1. Quiet(t) /\ th'[t] = r
  BY QuietTo, Zenon
<1>2. r.pc \notin Helping \ {"load"} /\ r.pc \notin Registering \cup Finalizing \cup {"settle", "persist"}
  BY DEF Helping, Looking, Registering, Finalizing
<1>3. r.pc \in Looking => r.pc = "load"
  BY DEF Looking
<1>4. Place(t)'
  <2>1. Place(t)
    BY Zenon DEF CasInv
  <2>2. Ops(t)' = Ops(t) /\ Op(t)' = Op(t)
    BY <1>1, SameOp, Zenon
  <2> QED
    BY <1>1, <1>2, <1>3, <2>1, <2>2, Zenon DEF Place
<1> QED
  BY <1>1, <1>2, <1>4, QuietIsPlain, AwayKeeps, Zenon

-----------------------------------------------------------------------------
\* The client and the mementos.

\* None of these places is in load_help.
LEMMA NotHelping ==
    \A p \in {"checkpoint", "save", "cas", "result", "first", "fail", "persist", "succ", "own",
              "second", "fence", "settle"} : p \notin Helping /\ p # "done"
BY DEF Helping, Looking, Registering, Finalizing

LEMMA CheckpointKeeps ==
    ASSUME Counters, CasInv, NEW t \in Threads, Checkpoint(t)
    PROVE  CasInv'
<1>0. th[t].pc \notin Helping /\ th[t].pc # "done"
  BY NotHelping, Zenon DEF Checkpoint
<1>1. mem' = mem /\ UNCHANGED <<scenario, log, tcrash>>
  BY Zenon DEF Checkpoint
<1>2. Intact
  BY <1>1, SameMemory, Zenon
<1>3. CASE th' = [th EXCEPT ![t].lmax = chk[t][th[t].i].ts, ![t].old = chk[t][th[t].i].val, ![t].pc = "cas"]
  <2> DEFINE r == [th[t] EXCEPT !.lmax = chk[t][th[t].i].ts, !.old = chk[t][th[t].i].val, !.pc = "cas"]
  <2>1. th' = [th EXCEPT ![t] = r]
    BY <1>3, Zenon
  <2>2. DOMAIN r = Fields /\ r.pc = "cas" /\ r.i = th[t].i /\ r.cur = th[t].cur
    BY ThreadFields, Zenon
  <2> HIDE DEF r
  <2> QED
    BY <1>0, <1>1, <1>2, <2>1, <2>2, AwayTo, Zenon
<1>4. CASE th' = [th EXCEPT ![t].rec = FALSE, ![t].pc = "load", ![t].k = "save"]
  <2> DEFINE r == [th[t] EXCEPT !.rec = FALSE, !.pc = "load", !.k = "save"]
  <2>1. th' = [th EXCEPT ![t] = r]
    BY <1>4, Zenon
  <2>2. DOMAIN r = Fields /\ r.pc = "load" /\ r.k = "save" /\ r.i = th[t].i /\ r.cur = th[t].cur
    BY ThreadFields, Zenon
  <2> HIDE DEF r
  <2> QED
    BY <1>0, <1>1, <1>2, <2>1, <2>2, AwayTo, Zenon
<1> QED
  BY <1>3, <1>4, Zenon DEF Checkpoint

LEMMA SaveKeeps ==
    ASSUME Counters, CasInv, NEW t \in Threads, Save(t)
    PROVE  CasInv'
<1>0. th[t].pc \notin Helping /\ th[t].pc # "done"
  BY NotHelping, Zenon DEF Save
<1>1. mem' = mem /\ UNCHANGED <<scenario, log, tcrash>>
  BY Zenon DEF Save
<1>2. Intact
  BY <1>1, SameMemory, Zenon
<1> DEFINE r == [th[t] EXCEPT !.lmax = Time(t, clock'), !.old = th[t].cur, !.cur = Clean(Initial),
                              !.k = "cas", !.pc = "first"]
<1>3. th' = [th EXCEPT ![t] = r]
  BY Zenon DEF Save
<1>4. DOMAIN r = Fields /\ r.pc = "first" /\ r.k = "cas" /\ r.i = th[t].i /\ r.cur = Clean(Initial)
  BY ThreadFields, Zenon
<1>5. Clean(Initial).desc = 0
  BY DEF Clean
<1> HIDE DEF r
<1> QED
  BY <1>0, <1>1, <1>2, <1>3, <1>4, <1>5, AwayTo, Zenon

LEMMA ResultKeeps ==
    ASSUME Counters, CasInv, NEW t \in Threads, Result(t)
    PROVE  CasInv'
<1>0. th[t].pc \notin Helping /\ th[t].pc # "done"
  BY NotHelping, Zenon DEF Result
<1>1. mem' = mem /\ UNCHANGED <<scenario, log, tcrash>>
  BY Zenon DEF Result
<1>2. Intact
  BY <1>1, SameMemory, Zenon
<1>3. CASE th' = [th EXCEPT ![t].k = "result", ![t].pc = "succ"]
  <2> DEFINE r == [th[t] EXCEPT !.k = "result", !.pc = "succ"]
  <2>1. th' = [th EXCEPT ![t] = r]
    BY <1>3, Zenon
  <2>2. DOMAIN r = Fields /\ r.pc = "succ" /\ r.k = "result" /\ r.i = th[t].i /\ r.cur = th[t].cur
    BY ThreadFields, Zenon
  <2> HIDE DEF r
  <2> QED
    BY <1>0, <1>1, <1>2, <2>1, <2>2, AwayTo, Zenon
<1>4. CASE th' = [th EXCEPT ![t].rec = FALSE, ![t].k = "cas", ![t].pc = "first"]
  <2> DEFINE r == [th[t] EXCEPT !.rec = FALSE, !.k = "cas", !.pc = "first"]
  <2>1. th' = [th EXCEPT ![t] = r]
    BY <1>4, Zenon
  <2>2. DOMAIN r = Fields /\ r.pc = "first" /\ r.k = "cas" /\ r.i = th[t].i /\ r.cur = th[t].cur
    BY ThreadFields, Zenon
  <2> HIDE DEF r
  <2> QED
    BY <1>0, <1>1, <1>2, <2>1, <2>2, AwayTo, Zenon
<1> QED
  BY <1>3, <1>4, Zenon DEF Result

LEMMA StaleLine ==
    ASSUME NEW t \in Threads, NEW l
    PROVE  stale(t) # Loc(l) /\ stale(t) # Desc(l)
BY LineFacts, Zenon DEF stale

LEMMA FailKeeps ==
    ASSUME Counters, CasInv, NEW t \in Threads, Fail(t)
    PROVE  CasInv'
<1>0. th[t].pc \notin Helping /\ th[t].pc # "done"
  BY NotHelping, Zenon DEF Fail
<1>1. UNCHANGED <<scenario, log, tcrash>>
  BY Zenon DEF Fail
<1>2. CASE Op(t).nd
  <2>1. Finish(t, th[t].lmax) /\ Intact
    BY <1>2, SameMemory, Zenon DEF Fail
  <2>2. Quiet(t)
    BY <1>0, <1>1, <2>1, Finished, Zenon DEF Quiet
  <2> QED
    BY <1>0, <2>1, <2>2, QuietIsPlain, FinishKeeps, Zenon
<1>3. CASE ~Op(t).nd
  <2>1. Intact
    BY <1>3, StaleLine, OtherLine, Zenon DEF Fail, WriteFence
  <2> DEFINE r == [Start EXCEPT !.i = th[t].i, !.rec = th[t].rec, !.lmax = Time(t, clock')]
  <2>2. th' = [th EXCEPT ![t] = r]
    BY <1>3, Zenon DEF Fail
  <2>3. DOMAIN r = Fields /\ r.pc = "checkpoint" /\ r.i = th[t].i /\ r.cur.desc = 0
    BY ThreadFields, StartFields, Zenon
  <2> HIDE DEF r
  <2> QED
    BY <1>0, <1>1, <2>1, <2>2, <2>3, AwayTo, Zenon
<1> QED
  BY <1>2, <1>3, Zenon

LEMMA PersistKeeps ==
    ASSUME Counters, CasInv, NEW t \in Threads, Persist(t)
    PROVE  CasInv'
<1>0. th[t].pc \notin Helping /\ th[t].pc # "done"
  BY NotHelping, Zenon DEF Persist
<1>1. mem' = mem /\ UNCHANGED <<scenario, log, tcrash>>
  BY Zenon DEF Persist, WriteFence
<1>2. Intact
  BY <1>1, SameMemory, Zenon
<1>3. th[t].k = "cas" /\ th[t].tmp.desc = 0 /\ th[t].tmp.val = Op(t).new
  <2>1. Place(t) /\ th[t].pc = "persist"
    BY Zenon DEF CasInv, Persist
  <2> QED
    BY <2>1 DEF Place
<1>4. PICK p \in {"second", "succ"} : th' = [th EXCEPT ![t].pc = p]
  BY Zenon DEF Persist, Goto
<1> DEFINE r == [th[t] EXCEPT !.pc = p]
<1>5. th' = [th EXCEPT ![t] = r]
  BY <1>4, Zenon
<1>6. DOMAIN r = Fields /\ r.pc = p /\ r.k = "cas" /\ r.i = th[t].i /\ r.cur = th[t].cur /\ r.tmp = th[t].tmp
  BY <1>3, ThreadFields, Zenon
<1> HIDE DEF r
<1> QED
  BY <1>0, <1>1, <1>2, <1>3, <1>4, <1>5, <1>6, AwayTo, Zenon

LEMMA SuccKeeps ==
    ASSUME Counters, CasInv, NEW t \in Threads, Succ(t)
    PROVE  CasInv'
<1>0. th[t].pc \notin Helping /\ th[t].pc # "done"
  BY NotHelping, Zenon DEF Succ
<1>1. UNCHANGED <<scenario, log, tcrash>>
  BY Zenon DEF Succ
<1>2. Intact
  BY StaleLine, OtherLine, Zenon DEF Succ, WriteFlush
<1>3. th[t].k \in {"cas", "result"} /\ (th[t].k # "result" => th[t].tmp.desc = 0 /\ th[t].tmp.val = Op(t).new)
  BY Zenon DEF CasInv, Place, Succ
<1> DEFINE r == [th[t] EXCEPT !.tcur = Time(t, clock'), !.pc = "own"]
<1>4. th' = [th EXCEPT ![t] = r]
  BY Zenon DEF Succ
<1>5. DOMAIN r = Fields /\ r.pc = "own" /\ r.k = th[t].k /\ r.i = th[t].i /\ r.cur = th[t].cur /\ r.tmp = th[t].tmp
  BY ThreadFields, Zenon
<1> HIDE DEF r
<1> QED
  BY <1>0, <1>1, <1>2, <1>3, <1>4, <1>5, AwayTo, Zenon

LEMMA OwnKeeps ==
    ASSUME Counters, CasInv, NEW t \in Threads, Own(t)
    PROVE  CasInv'
<1>0. th[t].pc \notin Helping /\ th[t].pc # "done"
  BY NotHelping, Zenon DEF Own
<1>1. mem' = mem /\ UNCHANGED <<scenario, log, tcrash>>
  BY Zenon DEF Own
<1>2. Intact
  BY <1>1, SameMemory, Zenon
<1>3. th[t].k \in {"cas", "result"} /\ (th[t].k # "result" => th[t].tmp.desc = 0 /\ th[t].tmp.val = Op(t).new)
  BY Zenon DEF CasInv, Place, Own
<1>4. PICK p : /\ p = IF th[t].k = "result" THEN "fence" ELSE "second"
               /\ th' = [th EXCEPT ![t].lmax = th[t].tcur, ![t].pc = p]
  BY Zenon DEF Own
<1> DEFINE r == [th[t] EXCEPT !.lmax = th[t].tcur, !.pc = p]
<1>5. th' = [th EXCEPT ![t] = r]
  BY <1>4, Zenon
<1>6. DOMAIN r = Fields /\ r.pc = p /\ r.k = th[t].k /\ r.i = th[t].i /\ r.cur = th[t].cur /\ r.tmp = th[t].tmp
  BY ThreadFields, Zenon
<1>7. p = "fence" \/ (p = "second" /\ th[t].k = "cas" /\ th[t].tmp.desc = 0 /\ th[t].tmp.val = Op(t).new)
  BY <1>3, <1>4
<1> HIDE DEF r
<1> QED
  BY <1>0, <1>1, <1>2, <1>5, <1>6, <1>7, AwayTo, Zenon

LEMMA FenceKeeps ==
    ASSUME Counters, CasInv, NEW t \in Threads, Fence(t)
    PROVE  CasInv'
<1>0. th[t].pc \notin Helping /\ th[t].pc # "done"
  BY NotHelping, Zenon DEF Fence
<1>1. UNCHANGED <<scenario, log, tcrash>> /\ Finish(t, th[t].lmax) /\ mem' = mem
  BY Zenon DEF Fence, WriteFence
<1>2. Quiet(t)
  BY <1>0, <1>1, SameMemory, Finished, Zenon DEF Quiet
<1> QED
  BY <1>0, <1>1, <1>2, QuietIsPlain, FinishKeeps, Zenon

-----------------------------------------------------------------------------
\* The updates of a location.

\* A location is given a clean word for the value it stands for.
LEMMA Cleaned ==
    ASSUME CasInv, NEW t \in Threads, NEW l \in Locs, NEW w, mem' = [mem EXCEPT ![Loc(l)] = w],
           w.desc = 0, w.val = Resolve(mem, l), UNCHANGED <<scenario, log, tcrash>>,
           DOMAIN th' = Threads, DOMAIN th'[t] = Fields, \A u \in Threads : u # t => th'[u] = th[u]
    PROVE  Plain(t)
<1>1. /\ DOMAIN mem' = Lines
      /\ \A d \in Threads : mem'[Desc(d)] = mem[Desc(d)]
      /\ mem'[Loc(l)] = w /\ \A m \in Locs : m # l => mem'[Loc(m)] = mem[Loc(m)]
  BY LocationLine, Zenon
<1>2. Shape'
  <2>1. \A u \in Threads : DOMAIN th'[u] = Fields
    BY Zenon DEF CasInv, Shape
  <2>2. \A u \in Threads : DOMAIN mem'[Desc(u)] = {"tmp_new", "seq"} /\ mem'[Desc(u)].seq \in Nat
    BY <1>1, Zenon DEF CasInv, Shape
  <2>3. log' \in Logs
    BY Zenon DEF CasInv, Shape
  <2> QED
    BY <1>1, <2>1, <2>2, <2>3, SameLines, Zenon DEF Shape
<1>3. LocationFollowsLog'
  <2> SUFFICES ASSUME NEW m \in Locs
               PROVE  Resolve(mem, m)' = IF log'[m] = <<>> THEN Initial ELSE New(log[m][Len(log[m])])'
    BY Zenon DEF LocationFollowsLog
  <2>1. Resolve(mem, m)' = Resolve(mem, m)
    <3>1. CASE m = l
      <4>1. w.desc # 1
        OBVIOUS
      <4> QED
        BY <1>1, <3>1, <4>1, Zenon DEF Resolve
    <3>2. CASE m # l
      <4>1. mem'[Loc(m)] = mem[Loc(m)] /\ Word(mem[Loc(m)])
        BY <1>1, <3>2, Zenon DEF CasInv
      <4> QED
        BY <1>1, <4>1, SameWord, Zenon
    <3> QED
      BY <3>1, <3>2, Zenon
  <2>2. New(log[m][Len(log[m])])' = New(log[m][Len(log[m])])
    BY Zenon DEF New, Prog
  <2> QED
    BY <2>1, <2>2, Zenon DEF CasInv, LocationFollowsLog
<1> QED
  BY <1>1, <1>2, <1>3, Zenon DEF Plain

\* A word that is no descriptor stands for its value.
LEMMA Direct ==
    ASSUME NEW l, mem[Loc(l)].desc = 0
    PROVE  Resolve(mem, l) = mem[Loc(l)].val
<1>1. mem[Loc(l)].desc # 1
  OBVIOUS
<1> QED
  BY <1>1, Zenon DEF Resolve

\* A clean word is what it says.
LEMMA CleanWord == \A v : Clean(v).desc = 0 /\ Clean(v).val = v /\ Clean(v).tid = 0
BY DEF Clean

\* t has found a descriptor in the way and finalizes it.
LEMMA FinalizeTo ==
    ASSUME CasInv, NEW t \in Threads, NEW l \in Locs, NEW r, th' = [th EXCEPT ![t] = r], DOMAIN r = Fields,
           mem' = mem, UNCHANGED <<scenario, log, tcrash>>,
           r.pc = "finalize", r.k \in {"save", "cas", "result", "second"}, r.i = th[t].i,
           r.cur = mem[Loc(l)], mem[Loc(l)].desc = 1,
           th[t].pc # "done", \A m \in Locs : ~Helps(t, m)
    PROVE  CasInv'
<1>1. Quiet(t) /\ th'[t] = r
  BY SameMemory, QuietTo, Zenon
<1>2. Plain(t)
  BY <1>1, QuietIsPlain, Zenon
<1>3. r.pc \notin Looking \cup Registering \cup {"first", "persist", "succ", "own", "second"}
  BY DEF Looking, Registering
<1>4. Place(t)'
  <2>1. Ops(t)' = Ops(t) /\ Place(t)
    BY <1>1, SameOp, Zenon DEF Quiet, CasInv
  <2> QED
    BY <1>1, <1>3, <2>1, Zenon DEF Place
<1>5. Seen(t)'
  <2>1. Word(mem[Loc(l)]) /\ Fits(mem[Loc(l)])
    BY WordFits, Zenon
  <2>2. PICK d \in Threads : mem[Loc(l)].tid = d
    BY <2>1, Zenon DEF Word
  <2>3. mem'[Desc(d)] = mem[Desc(d)]
    BY Zenon
  <2>4. th'[d].pc \in {"describe", "publish"} => th[d].pc \in {"describe", "publish"}
    BY <1>1, Zenon DEF Quiet
  <2>5. r.pc \notin Finalizing \ {"finalize"} /\ r.pc # "publish"
    OBVIOUS
  <2> QED
    BY <1>1, <1>3, <2>1, <2>2, <2>3, <2>4, <2>5, Zenon DEF Seen, Word, Fits
<1>6. Leads(t)'
  <2> SUFFICES ASSUME NEW m \in Locs, Names(m, t)'
               PROVE  /\ mem'[Loc(m)].val = mem'[Desc(t)].seq
                      /\ \E i \in Ops(t)' : Prog'[t][i].loc = m
                      /\ tcrash'[t] > 0
    BY <1>1, <1>3, Zenon DEF Leads
  <2>1. Names(m, t) /\ Leads(t)
    BY Zenon DEF Names, CasInv
  <2>2. Prog' = Prog /\ Ops(t)' = Ops(t)
    BY Zenon DEF Prog, Ops
  <2> QED
    BY <2>1, <2>2, Zenon DEF Leads
<1> QED
  BY <1>1, <1>2, <1>4, <1>5, <1>6, PlainKeeps, Zenon

\* The second CAS: the mark is removed, or the descriptor in its place is finalized.
LEMMA SecondKeeps ==
    ASSUME Counters, CasInv, NEW t \in Threads, Second(t)
    PROVE  CasInv'
<1>0. th[t].pc = "second" /\ th[t].pc \notin Helping /\ th[t].pc # "done"
  BY NotHelping, Zenon DEF Second
<1>1. UNCHANGED <<scenario, log, tcrash>>
  BY Zenon DEF Second
<1>2. PICK l \in Locs : l = Op(t).loc /\ At(t) = Loc(l)
  BY <1>0, AtLocation, Zenon
<1>3. CASE unhelped(t) /\ WriteFence(t, [mem EXCEPT ![At(t)] = Clean(Op(t).new)], {}, {}) /\ Finish(t, th[t].lmax)
  <2>1. th[t].tmp.desc = 0 /\ th[t].tmp.val = Op(t).new
    <3>1. Place(t)
      BY Zenon DEF CasInv
    <3> QED
      BY <1>0, <3>1 DEF Place
  <2>2. Resolve(mem, l) = Op(t).new
    BY <1>2, <1>3, <2>1, Direct, Zenon DEF unhelped
  <2>3. PICK w : w.desc = 0 /\ w.val = Op(t).new /\ mem' = [mem EXCEPT ![Loc(l)] = w]
    BY <1>2, <1>3, CleanWord, Zenon DEF WriteFence
  <2>4. Plain(t)
    <3>1. /\ DOMAIN th' = Threads /\ DOMAIN th'[t] = Fields
          /\ \A u \in Threads : u # t => th'[u] = th[u]
      BY <1>0, <1>1, <1>3, Finished, Zenon
    <3> QED
      BY <1>1, <2>2, <2>3, <3>1, Cleaned, Zenon
  <2> QED
    BY <1>0, <1>3, <2>4, FinishKeeps, Zenon
<1>4. CASE th' = [th EXCEPT ![t].cur = mem[At(t)], ![t].k = "second", ![t].pc = "finalize"]
           /\ mem' = mem /\ mem[At(t)].desc = 1
  <2> DEFINE r == [th[t] EXCEPT !.cur = mem[At(t)], !.k = "second", !.pc = "finalize"]
  <2>1. th' = [th EXCEPT ![t] = r]
    BY <1>4, Zenon
  <2>2. DOMAIN r = Fields /\ r.pc = "finalize" /\ r.k = "second" /\ r.i = th[t].i /\ r.cur = mem[Loc(l)]
    BY <1>2, ThreadFields, Zenon
  <2> HIDE DEF r
  <2>3. \A m \in Locs : ~Helps(t, m)
    BY <1>0, Zenon DEF Helps, Helping
  <2> QED
    BY <1>0, <1>1, <1>2, <1>4, <2>1, <2>2, <2>3, FinalizeTo, Zenon
<1>5. CASE Goto(t, "fence") /\ mem' = mem
  <2> DEFINE r == [th[t] EXCEPT !.pc = "fence"]
  <2>1. th' = [th EXCEPT ![t] = r]
    BY <1>5, Zenon DEF Goto
  <2>2. DOMAIN r = Fields /\ r.pc = "fence" /\ r.i = th[t].i /\ r.cur = th[t].cur
    BY ThreadFields, Zenon
  <2> HIDE DEF r
  <2> QED
    BY <1>0, <1>1, <1>5, <2>1, <2>2, SameMemory, AwayTo, Zenon
<1> QED
  BY <1>3, <1>4, <1>5, Zenon DEF Second

\* The entry of a CAS; a recovering thread may find its success on record and remove its mark.
LEMMA CasKeeps ==
    ASSUME Counters, CasInv, NEW t \in Threads, Cas(t)
    PROVE  CasInv'
<1>0. th[t].pc \notin Helping /\ th[t].pc # "done"
  BY NotHelping, Zenon DEF Cas
<1>1. UNCHANGED <<scenario, log, tcrash>>
  BY Zenon DEF Cas
<1>2. PICK l \in Locs : l = Op(t).loc /\ At(t) = Loc(l)
  BY <1>0, AtLocation, Zenon
<1>3. CASE th' = [th EXCEPT ![t].k = "cas", ![t].pc = "first"] /\ mem' = mem
  <2> DEFINE r == [th[t] EXCEPT !.k = "cas", !.pc = "first"]
  <2>1. th' = [th EXCEPT ![t] = r]
    BY <1>3, Zenon
  <2>2. DOMAIN r = Fields /\ r.pc = "first" /\ r.k = "cas" /\ r.i = th[t].i /\ r.cur = th[t].cur
    BY ThreadFields, Zenon
  <2> HIDE DEF r
  <2> QED
    BY <1>0, <1>1, <1>3, <2>1, <2>2, SameMemory, AwayTo, Zenon
<1>4. CASE th' = [th EXCEPT ![t].lmax = mem[latest(t)].ts, ![t].pc = "checkpoint"] /\ mem' = mem
  <2> DEFINE r == [th[t] EXCEPT !.lmax = mem[latest(t)].ts, !.pc = "checkpoint"]
  <2>1. th' = [th EXCEPT ![t] = r]
    BY <1>4, Zenon
  <2>2. DOMAIN r = Fields /\ r.pc = "checkpoint" /\ r.i = th[t].i /\ r.cur = th[t].cur
    BY ThreadFields, Zenon
  <2> HIDE DEF r
  <2> QED
    BY <1>0, <1>1, <1>4, <2>1, <2>2, SameMemory, AwayTo, Zenon
<1>5. CASE th' = [th EXCEPT ![t].pc = "load", ![t].k = "result"] /\ mem' = mem
  <2> DEFINE r == [th[t] EXCEPT !.pc = "load", !.k = "result"]
  <2>1. th' = [th EXCEPT ![t] = r]
    BY <1>5, Zenon
  <2>2. DOMAIN r = Fields /\ r.pc = "load" /\ r.k = "result" /\ r.i = th[t].i /\ r.cur = th[t].cur
    BY ThreadFields, Zenon
  <2> HIDE DEF r
  <2> QED
    BY <1>0, <1>1, <1>5, <2>1, <2>2, SameMemory, AwayTo, Zenon
<1>6. CASE Finish(t, mem[latest(t)].ts)
           /\ \/ mem' = mem
              \/ /\ mem[At(t)] = Marked(Op(t).new, own[t].par, t)
                 /\ mem' = [mem EXCEPT ![At(t)] = Clean(Op(t).new)]
  <2>1. /\ DOMAIN th' = Threads /\ DOMAIN th'[t] = Fields
        /\ \A u \in Threads : u # t => th'[u] = th[u]
    BY <1>0, <1>1, <1>6, Finished, Zenon
  <2>2. CASE mem' = mem
    <3>1. Quiet(t)
      BY <1>1, <2>1, <2>2, SameMemory, Zenon DEF Quiet
    <3> QED
      BY <1>0, <1>6, <3>1, QuietIsPlain, FinishKeeps, Zenon
  <2>3. CASE mem[At(t)] = Marked(Op(t).new, own[t].par, t) /\ mem' = [mem EXCEPT ![At(t)] = Clean(Op(t).new)]
    <3>1. mem[Loc(l)].desc = 0 /\ mem[Loc(l)].val = Op(t).new
      BY <1>2, <2>3 DEF Marked
    <3>2. Resolve(mem, l) = Op(t).new
      BY <3>1, Direct, Zenon
    <3>3. PICK w : w.desc = 0 /\ w.val = Op(t).new /\ mem' = [mem EXCEPT ![Loc(l)] = w]
      BY <1>2, <2>3, CleanWord, Zenon
    <3>4. Plain(t)
      BY <1>1, <2>1, <3>2, <3>3, Cleaned, Zenon
    <3> QED
      BY <1>0, <1>6, <3>4, FinishKeeps, Zenon
  <2> QED
    BY <1>6, <2>2, <2>3, Zenon
<1> QED
  BY <1>3, <1>4, <1>5, <1>6, Zenon DEF Cas, WriteFence

\* One more entry in one of the logs.
Extended(f, l, e) == [f EXCEPT ![l] = Append(@, e)]

LEMMA Appended ==
    ASSUME NEW f \in Logs, NEW l \in Locs, NEW e \in Entry,
           NEW g, g = Extended(f, l, e)
    PROVE  /\ g \in Logs /\ \A m \in Locs : m # l => g[m] = f[m]
           /\ g[l] # <<>> /\ g[l][Len(g[l])] = e
<1>1. Append(f[l], e) \in Seq(Entry) /\ Append(f[l], e) # <<>> /\ Append(f[l], e)[Len(Append(f[l], e))] = e
  BY DEF Logs
<1>2. g = [f EXCEPT ![l] = Append(f[l], e)]
  BY Zenon DEF Extended
<1> QED
  BY <1>1, <1>2, Zenon DEF Logs

\* The first CAS: the update takes effect, or the word found there is loaded.
LEMMA FirstKeeps ==
    ASSUME Counters, CasInv, NEW t \in Threads, First(t)
    PROVE  CasInv'
<1>0. th[t].pc = "first" /\ th[t].pc \notin Helping /\ th[t].pc # "done"
  BY NotHelping, Zenon DEF First
<1>1. UNCHANGED <<scenario, tcrash>> /\ th[t].k = "cas"
  <2>1. Place(t)
    BY Zenon DEF CasInv
  <2> QED
    BY <1>0, <2>1, Zenon DEF First, Place
<1>2. PICK l \in Locs : l = Op(t).loc /\ At(t) = Loc(l)
  BY <1>0, AtLocation, Zenon
<1>3. PICK w : w = IF Op(t).nd THEN Marked(Op(t).new, 1, 0) ELSE Marked(Op(t).new, 1 - own[t].par, t)
  OBVIOUS
<1>4. w.desc = 0 /\ w.val = Op(t).new
  BY <1>3 DEF Marked
<1>5. CASE mem[At(t)] = th[t].old
  <2>1. /\ mem' = [mem EXCEPT ![Loc(l)] = w]
        /\ log' = [log EXCEPT ![l] = Append(@, Update(t, th[t].i))]
        /\ th' = [th EXCEPT ![t].tmp = w, ![t].cur = Clean(Initial), ![t].pc = "persist"]
    BY <1>2, <1>3, <1>5, Zenon DEF First, WriteFence
  <2> DEFINE r == [th[t] EXCEPT !.tmp = w, !.cur = Clean(Initial), !.pc = "persist"]
  <2>2. th' = [th EXCEPT ![t] = r]
    BY <2>1, Zenon
  <2>3. DOMAIN r = Fields /\ r.pc = "persist" /\ r.k = "cas" /\ r.i = th[t].i /\ r.tmp = w /\ r.cur.desc = 0
    BY <1>1, ThreadFields, CleanWord, Zenon
  <2> HIDE DEF r
  <2>4. DOMAIN th' = Threads /\ th'[t] = r /\ \A u \in Threads : u # t => th'[u] = th[u]
    BY <2>2, NewState, Zenon
  <2>5. /\ DOMAIN mem' = Lines
        /\ \A d \in Threads : mem'[Desc(d)] = mem[Desc(d)]
        /\ mem'[Loc(l)] = w /\ \A m \in Locs : m # l => mem'[Loc(m)] = mem[Loc(m)]
    BY <2>1, LocationLine, Zenon
  <2>6. /\ log' \in Logs
        /\ \A m \in Locs : m # l => log'[m] = log[m]
        /\ log'[l] # <<>> /\ log'[l][Len(log'[l])] = Update(t, th[t].i)
    <3>1. PICK e : e = Update(t, th[t].i)
      OBVIOUS
    <3>2. e \in Entry
      <4>1. th[t].i \in Nat
        BY DEF CasInv, Place
      <4> QED
        BY <3>1, <4>1 DEF Update, Entry
    <3>3. log' = Extended(log, l, e)
      BY <2>1, <3>1, Zenon DEF Extended
    <3>4. log \in Logs
      BY Zenon DEF CasInv, Shape
    <3>5. /\ log' \in Logs /\ \A m \in Locs : m # l => log'[m] = log[m]
          /\ log'[l] # <<>> /\ log'[l][Len(log'[l])] = e
      BY <3>2, <3>3, <3>4, Appended, SMT
    <3> QED
      BY <3>1, <3>5, Zenon
  <2>7. Shape'
    <3>1. \A u \in Threads : DOMAIN th'[u] = Fields
      BY <2>3, <2>4, Zenon DEF CasInv, Shape
    <3>2. \A u \in Threads : DOMAIN mem'[Desc(u)] = {"tmp_new", "seq"} /\ mem'[Desc(u)].seq \in Nat
      BY <2>5, Zenon DEF CasInv, Shape
    <3> QED
      BY <1>1, <2>4, <2>5, <2>6, <3>1, <3>2, SameLines, Zenon DEF Shape
  <2>8. LocationFollowsLog'
    <3> SUFFICES ASSUME NEW m \in Locs
                 PROVE  Resolve(mem, m)' = IF log'[m] = <<>> THEN Initial ELSE New(log[m][Len(log[m])])'
      BY Zenon DEF LocationFollowsLog
    <3>1. Prog' = Prog
      BY <1>1, Zenon DEF Prog
    <3>2. CASE m = l
      <4>1. w.desc # 1
        BY <1>4
      <4>2. Resolve(mem, l)' = Op(t).new
        BY <1>4, <2>5, <4>1, Zenon DEF Resolve
      <4>3. New(log[l][Len(log[l])])' = Op(t).new
        <5>1. Update(t, th[t].i).by = t /\ Update(t, th[t].i).i = th[t].i
          BY DEF Update
        <5> QED
          BY <2>6, <3>1, <5>1, Zenon DEF New, Op
      <4> QED
        BY <2>6, <3>2, <4>2, <4>3, Zenon
    <3>3. CASE m # l
      <4>1. mem'[Loc(m)] = mem[Loc(m)] /\ Word(mem[Loc(m)])
        BY <2>5, <3>3, Zenon DEF CasInv
      <4>2. Resolve(mem, m)' = Resolve(mem, m)
        BY <2>5, <4>1, SameWord, Zenon
      <4>3. log'[m] = log[m] /\ New(log[m][Len(log[m])])' = New(log[m][Len(log[m])])
        BY <2>6, <3>1, <3>3, Zenon DEF New
      <4> QED
        BY <4>2, <4>3, Zenon DEF CasInv, LocationFollowsLog
    <3> QED
      BY <3>2, <3>3, Zenon
  <2>9. Plain(t)
    BY <1>1, <1>4, <2>4, <2>5, <2>7, <2>8, Zenon DEF Plain
  <2>10. Place(t)'
    <3>1. Ops(t)' = Ops(t) /\ Op(t)' = Op(t) /\ Place(t)
      BY <1>1, <2>3, <2>4, SameOp, Zenon DEF CasInv
    <3>2. r.pc \notin Looking \cup Registering \cup Finalizing \cup {"settle", "succ", "own"}
      BY <2>3 DEF Looking, Registering, Finalizing
    <3> QED
      BY <1>0, <1>4, <2>3, <2>4, <3>1, <3>2, Zenon DEF Place
  <2>11. th'[t].pc \notin Helping
    BY <2>3, <2>4, NotHelping, Zenon
  <2> QED
    BY <1>0, <2>3, <2>4, <2>9, <2>10, <2>11, AwayKeeps, Zenon
<1>6. CASE mem[At(t)] # th[t].old
  <2>1. Loaded(t, mem[Loc(l)]) /\ mem' = mem /\ log' = log
    BY <1>2, <1>6, Zenon DEF First
  <2>2. Quiet(t)
    BY <1>1, <2>1, LoadedQuiet, SameMemory, Zenon DEF Quiet
  <2>3. \A m \in Locs : ~Helps(t, m)
    BY <1>0, Zenon DEF Helps, Helping
  <2> QED
    BY <1>0, <1>1, <2>1, <2>2, <2>3, WordFits, LoadedKeeps, Zenon
<1> QED
  BY <1>5, <1>6, Zenon

-----------------------------------------------------------------------------
\* load_help.

LEMMA LoadKeeps ==
    ASSUME Counters, CasInv, NEW t \in Threads, Load(t)
    PROVE  CasInv'
<1>1. th[t].pc = "load" /\ UNCHANGED <<scenario, log, tcrash>> /\ mem' = mem
  BY Zenon DEF Load
<1>2. th[t].pc # "done" /\ "load" \in Looking
  BY <1>1 DEF Looking
<1>3. PICK l \in Locs : l = Op(t).loc /\ At(t) = Loc(l)
  BY <1>2, AtLocation, Zenon
<1>4. Loaded(t, mem[Loc(l)])
  BY <1>3, Zenon DEF Load
<1>5. Quiet(t)
  BY <1>1, <1>4, LoadedQuiet, SameMemory, Zenon DEF Quiet
<1>6. th[t].k \in {"save", "cas", "result"}
  BY <1>1, <1>2, Zenon DEF CasInv, Place
<1>7. \A m \in Locs : Helps(t, m) => mem[Loc(l)] = mem[Loc(m)]
  BY <1>3, Zenon DEF Helps
<1> QED
  BY <1>1, <1>4, <1>5, <1>6, <1>7, WordFits, LoadedKeeps, Zenon

LEMMA TakeTimeKeeps ==
    ASSUME Counters, Steady, CasInv, NEW t \in Threads, TakeTime(t)
    PROVE  CasInv'
<1>1. th[t].pc = "time" /\ UNCHANGED <<scenario, log, tcrash>> /\ mem' = mem
  BY Zenon DEF TakeTime
<1> DEFINE r == [th[t] EXCEPT !.tcur = Time(t, clock'), !.pc = "spin"]
<1>2. th' = [th EXCEPT ![t] = r]
  BY Zenon DEF TakeTime
<1>3. DOMAIN r = Fields /\ r.pc = "spin" /\ r.i = th[t].i /\ r.cur = th[t].cur /\ r.k = th[t].k
  BY ThreadFields, Zenon
<1> HIDE DEF r
<1>4. Quiet(t) /\ th'[t] = r
  BY <1>1, <1>2, <1>3, SameMemory, QuietTo, Zenon
<1>5. th[t].pc \in (Looking \cup Finalizing) \ {"load"} /\ th[t].pc \in Looking /\ r.pc \in Looking /\ r.pc \notin Finalizing
  BY <1>1, <1>3 DEF Looking, Finalizing
<1>6. th[t].k \in {"save", "cas", "result"}
  BY <1>5, Zenon DEF CasInv, Place
<1> QED
  BY <1>3, <1>4, <1>5, <1>6, StayKeeps, Zenon

LEMMA SpinKeeps ==
    ASSUME Counters, Steady, CasInv, NEW t \in Threads, Spin(t)
    PROVE  CasInv'
<1>1. th[t].pc = "spin" /\ UNCHANGED <<scenario, log, tcrash>> /\ mem' = mem
  BY Zenon DEF Spin
<1>2. /\ th[t].pc # "done" /\ th[t].pc \in Looking /\ th[t].pc \in (Looking \cup Finalizing) \ {"load"}
      /\ "patience" \in Looking /\ "patience" \notin Finalizing
  BY <1>1 DEF Looking, Finalizing
<1>3. PICK l \in Locs : l = Op(t).loc /\ At(t) = Loc(l)
  BY <1>2, AtLocation, Zenon
<1>4. th[t].k \in {"save", "cas", "result"}
  BY <1>2, Zenon DEF CasInv, Place
<1>5. CASE mem[At(t)] = th[t].cur
  <2>1. Goto(t, "patience")
    BY <1>5, Zenon DEF Spin
  <2>2. Quiet(t)
    BY <1>1, <2>1, Moved, SameMemory, Zenon DEF Quiet
  <2>3. /\ th'[t].pc = "patience" /\ th'[t].i = th[t].i /\ th'[t].cur = th[t].cur /\ th'[t].k = th[t].k
    BY <2>1, Moved, Zenon
  <2> QED
    BY <1>2, <1>4, <1>5, <2>2, <2>3, StayKeeps, Zenon
<1>6. CASE mem[At(t)] # th[t].cur
  <2>1. Loaded(t, mem[Loc(l)])
    BY <1>3, <1>6, Zenon DEF Spin
  <2>2. Quiet(t)
    BY <1>1, <2>1, LoadedQuiet, SameMemory, Zenon DEF Quiet
  <2>3. \A m \in Locs : Helps(t, m) => mem[Loc(l)] = mem[Loc(m)]
    BY <1>3, Zenon DEF Helps
  <2> QED
    BY <1>1, <1>4, <2>1, <2>2, <2>3, WordFits, LoadedKeeps, Zenon
<1> QED
  BY <1>5, <1>6, Zenon

\* A mark is to be replaced by a descriptor: t has none in any location.
LEMMA PatienceKeeps ==
    ASSUME Counters, Steady, CasInv, NEW t \in Threads, Patience(t)
    PROVE  CasInv'
<1>1. th[t].pc = "patience" /\ UNCHANGED <<scenario, log, tcrash>> /\ mem' = mem
  BY Zenon DEF Patience, WriteFlush
<1>2. th[t].pc \in Looking /\ th[t].pc \in (Looking \cup Finalizing) \ {"load"}
  BY <1>1 DEF Looking
<1>3. th[t].k \in {"save", "cas", "result"} /\ Word(th[t].cur)
  BY <1>2, Zenon DEF CasInv, Place, Seen
<1>4. CASE th[t].cur.desc # 0
  <2>1. Goto(t, "finalize")
    BY <1>4, Zenon DEF Patience
  <2>2. Quiet(t)
    BY <1>1, <2>1, Moved, SameMemory, Zenon DEF Quiet
  <2>3. /\ th'[t].pc = "finalize" /\ th'[t].i = th[t].i /\ th'[t].cur = th[t].cur /\ th'[t].k = th[t].k
    BY <2>1, Moved, Zenon
  <2>4. th'[t].pc \in Looking \cup Finalizing /\ th'[t].pc \notin Looking /\ th'[t].pc # "patience"
    BY <2>3 DEF Looking, Finalizing
  <2>5. th[t].cur.desc = 1
    BY <1>3, <1>4, Zenon DEF Word
  <2> QED
    BY <1>2, <2>2, <2>3, <2>4, <2>5, StayKeeps, Zenon
<1>5. CASE th[t].cur.desc = 0
  <2>1. Goto(t, "register") /\ th[t].cur.desc # 1
    <3>1. th[t].cur.desc # 1
      BY <1>5
    <3> QED
      BY <1>5, <3>1, Zenon DEF Patience
  <2>2. Quiet(t)
    BY <1>1, <2>1, Moved, SameMemory, Zenon DEF Quiet
  <2>3. /\ th'[t].pc = "register" /\ th'[t].i = th[t].i /\ th'[t].cur = th[t].cur /\ th'[t].k = th[t].k
    BY <2>1, Moved, Zenon
  <2>4. th'[t].pc \notin Looking \cup Finalizing \cup {"settle", "first", "persist", "second", "succ", "own", "done"}
    BY <2>3 DEF Looking, Finalizing
  <2>5. Place(t)'
    <3>1. Ops(t)' = Ops(t) /\ Place(t)
      BY <2>2, <2>3, SameOp, Zenon DEF Quiet, CasInv
    <3> QED
      BY <1>1, <1>3, <2>3, <2>4, <3>1, Zenon DEF Place
  <2>6. Seen(t)'
    BY <1>3, <1>5, <2>1, <2>3, <2>4, Zenon DEF Seen, Word
  <2>7. Leads(t)'
    <3>1. \A m \in Locs : ~Names(m, t)
      BY <1>1, <2>1, Zenon DEF CasInv, Leads
    <3> QED
      BY <1>1, <3>1, Zenon DEF Leads, Names
  <2> QED
    BY <2>2, <2>3, <2>5, <2>6, <2>7, QuietIsPlain, PlainKeeps, Zenon
<1> QED
  BY <1>4, <1>5, Zenon

-----------------------------------------------------------------------------
\* register_help.

\* A leader that writes its descriptor has it in no location.
LEMMA NotNamed ==
    ASSUME CasInv, NEW t \in Threads, th[t].pc \in Registering
    PROVE  \A l \in Locs : ~Names(l, t)
BY Zenon DEF CasInv, Leads

\* The descriptor x that t writes is newer than those that others have seen of it.
LEMMA DescribeKeeps ==
    ASSUME CasInv, NEW t \in Threads, th[t].pc \in Registering, NEW x, mem' = [mem EXCEPT ![Desc(t)] = x],
           DOMAIN x = {"tmp_new", "seq"}, x.seq \in Nat,
           NEW pc \in {"describe", "publish"}, Goto(t, pc), UNCHANGED <<scenario, log, tcrash>>,
           \A u \in Threads : u # t /\ th[u].cur.desc = 1 /\ th[u].cur.tid = t => th[u].cur.val < x.seq,
           pc = "publish" => x.tmp_new = th[t].cur
    PROVE  CasInv'
<1>1. /\ DOMAIN th' = Threads /\ DOMAIN th'[t] = Fields
      /\ \A u \in Threads : u # t => th'[u] = th[u]
      /\ th'[t].pc = pc /\ th'[t].i = th[t].i /\ th'[t].cur = th[t].cur /\ th'[t].k = th[t].k
  BY Moved, Zenon
<1>2. /\ DOMAIN mem' = Lines /\ mem'[Desc(t)] = x
      /\ \A d \in Threads : d # t => mem'[Desc(d)] = mem[Desc(d)]
      /\ \A l \in Locs : mem'[Loc(l)] = mem[Loc(l)]
  BY LineFacts, Zenon DEF CasInv, Shape
<1>3. \A l \in Locs : ~Names(l, t)
  BY NotNamed, Zenon
<1>4. Shape'
  <2>1. \A u \in Threads : DOMAIN th'[u] = Fields
    BY <1>1, Zenon DEF CasInv, Shape
  <2>2. \A u \in Threads : DOMAIN mem'[Desc(u)] = {"tmp_new", "seq"} /\ mem'[Desc(u)].seq \in Nat
    BY <1>2, Zenon DEF CasInv, Shape
  <2>3. log' \in Logs
    BY Zenon DEF CasInv, Shape
  <2> QED
    BY <1>1, <1>2, <2>1, <2>2, <2>3, SameLines, Zenon DEF Shape
<1>5. ASSUME NEW l \in Locs PROVE Word(mem[Loc(l)])'
  BY <1>2, Zenon DEF CasInv, Word
<1>6. Prog' = Prog /\ \A u : Ops(u)' = Ops(u)
  BY Zenon DEF Prog, Ops
<1>7. th[t].pc # "done" /\ th[t].cur.desc = 0 /\ th[t].k \in {"save", "cas", "result"} /\ Word(th[t].cur)
  BY DEF CasInv, Place, Seen, Registering
<1>8. Place(t)'
  <2>1. pc \notin Finalizing \cup {"settle", "first", "persist", "second", "succ", "own"}
    BY DEF Finalizing
  <2>2. Place(t)
    BY Zenon DEF CasInv
  <2> QED
    BY <1>1, <1>6, <1>7, <2>1, <2>2, Zenon DEF Place
<1>9. Seen(t)'
  <2>1. th[t].cur.desc # 1 /\ pc \notin Finalizing
    BY <1>7 DEF Finalizing
  <2> QED
    BY <1>1, <1>2, <1>7, <2>1, Zenon DEF Seen, Word
<1>10. Leads(t)'
  BY <1>2, <1>3, Zenon DEF Leads, Names
<1>11. ASSUME NEW u \in Threads, u # t PROVE Place(u)' /\ Seen(u)' /\ Leads(u)'
  <2>1. th'[u] = th[u] /\ Op(u)' = Op(u)
    BY <1>1, <1>6, <1>11, Zenon DEF Op
  <2>2. Place(u)'
    BY <1>6, <2>1, Zenon DEF CasInv, Place
  <2>3. Seen(u)'
    <3>1. Seen(u) /\ Word(th[u].cur)
      BY Zenon DEF CasInv, Seen
    <3>2. mem'[Desc(u)] = mem[Desc(u)]
      BY <1>2, <1>11, Zenon
    <3>3. CASE th[u].cur.desc = 1 /\ th[u].cur.tid = t
      <4>1. th[u].cur.val <= x.seq /\ th[u].cur.val # x.seq
        <5>1. th[u].cur.val < x.seq /\ th[u].cur.val \in Nat
          BY <1>11, <3>1, <3>3, Zenon DEF Word
        <5> QED
          BY <5>1
      <4> QED
        BY <1>2, <2>1, <3>1, <3>2, <3>3, <4>1, Zenon DEF Seen, Word
    <3>4. CASE ~(th[u].cur.desc = 1 /\ th[u].cur.tid = t)
      <4>1. th[u].cur.desc = 1 => mem'[Desc(th[u].cur.tid)] = mem[Desc(th[u].cur.tid)] /\ th'[th[u].cur.tid] = th[th[u].cur.tid]
        BY <1>1, <1>2, <3>1, <3>4, Zenon DEF Word
      <4> QED
        BY <2>1, <3>1, <3>2, <4>1, Zenon DEF Seen, Word
    <3> QED
      BY <3>3, <3>4, Zenon
  <2>4. Leads(u)'
    <3>1. \A l \in Locs : (Names(l, u)' => Names(l, u)) /\ (Helps(u, l) => Helps(u, l)')
      BY <1>2, <2>1, Zenon DEF Names, Helps
    <3>2. mem'[Desc(u)] = mem[Desc(u)] /\ Leads(u)
      BY <1>2, <1>11, Zenon DEF CasInv
    <3> QED
      BY <1>2, <1>6, <2>1, <3>1, <3>2, Zenon DEF Leads
  <2> QED
    BY <2>2, <2>3, <2>4, Zenon
<1>12. LocationFollowsLog'
  <2> SUFFICES ASSUME NEW l \in Locs
               PROVE  Resolve(mem, l)' = IF log'[l] = <<>> THEN Initial ELSE New(log[l][Len(log[l])])'
    BY Zenon DEF LocationFollowsLog
  <2>1. Resolve(mem, l)' = Resolve(mem, l)
    <3>1. PICK c : c = mem[Loc(l)] /\ c = mem'[Loc(l)]
      BY <1>2, Zenon
    <3>2. c.desc = 1 => mem'[Desc(c.tid)] = mem[Desc(c.tid)]
      BY <1>2, <1>3, <3>1, Zenon DEF CasInv, Word, Names
    <3> QED
      BY <3>1, <3>2, SameValue, Zenon
  <2>2. New(log[l][Len(log[l])])' = New(log[l][Len(log[l])])
    BY <1>6, Zenon DEF New
  <2> QED
    BY <2>1, <2>2, Zenon DEF CasInv, LocationFollowsLog
<1> QED
  BY <1>4, <1>5, <1>8, <1>9, <1>10, <1>11, <1>12, Zenon DEF CasInv

LEMMA RegisterSeqKeeps ==
    ASSUME Counters, CasInv, NEW t \in Threads, RegisterSeq(t)
    PROVE  CasInv'
<1>1. th[t].pc \in Registering /\ UNCHANGED <<scenario, log, tcrash>> /\ Goto(t, "describe")
  BY DEF RegisterSeq, Registering
<1> DEFINE x == [mem[Desc(t)] EXCEPT !.seq = @ + 1]
<1>2. mem' = [mem EXCEPT ![Desc(t)] = x]
  BY Zenon DEF RegisterSeq, Write
<1>3. DOMAIN mem[Desc(t)] = {"tmp_new", "seq"} /\ mem[Desc(t)].seq \in Nat
  BY Zenon DEF CasInv, Shape
<1>4. DOMAIN x = {"tmp_new", "seq"} /\ x.seq = mem[Desc(t)].seq + 1
  BY <1>3
<1> HIDE DEF x
<1>5. ASSUME NEW u \in Threads, th[u].cur.desc = 1, th[u].cur.tid = t PROVE th[u].cur.val < x.seq
  <2>1. th[u].cur.val <= mem[Desc(t)].seq /\ th[u].cur.val \in Nat
    BY <1>5, Zenon DEF CasInv, Seen, Word
  <2> QED
    BY <1>3, <1>4, <2>1
<1>6. x.seq \in Nat
  BY <1>3, <1>4
<1>7. "describe" \in {"describe", "publish"} /\ "describe" # "publish"
  OBVIOUS
<1> QED
  BY <1>1, <1>2, <1>4, <1>5, <1>6, <1>7, DescribeKeeps, Zenon

LEMMA RegisterTmpKeeps ==
    ASSUME Counters, CasInv, NEW t \in Threads, RegisterTmp(t)
    PROVE  CasInv'
<1>1. th[t].pc = "describe" /\ th[t].pc \in Registering /\ UNCHANGED <<scenario, log, tcrash>> /\ Goto(t, "publish")
  BY DEF RegisterTmp, Registering
<1> DEFINE x == [mem[Desc(t)] EXCEPT !.tmp_new = th[t].cur]
<1>2. mem' = [mem EXCEPT ![Desc(t)] = x]
  BY Zenon DEF RegisterTmp, WriteFlush, Described
<1>3. DOMAIN mem[Desc(t)] = {"tmp_new", "seq"} /\ mem[Desc(t)].seq \in Nat
  BY Zenon DEF CasInv, Shape
<1>4. DOMAIN x = {"tmp_new", "seq"} /\ x.seq = mem[Desc(t)].seq /\ x.tmp_new = th[t].cur
  BY <1>3
<1> HIDE DEF x
<1>5. ASSUME NEW u \in Threads, th[u].cur.desc = 1, th[u].cur.tid = t PROVE th[u].cur.val < x.seq
  <2>1. th[u].cur.val <= mem[Desc(t)].seq /\ th[u].cur.val \in Nat /\ th[u].cur.val # mem[Desc(t)].seq
    BY <1>1, <1>5, Zenon DEF CasInv, Seen, Word
  <2> QED
    BY <1>3, <1>4, <2>1
<1>6. x.seq \in Nat
  BY <1>3, <1>4, Zenon
<1> QED
  BY <1>1, <1>2, <1>4, <1>5, <1>6, DescribeKeeps, Zenon

\* The mark is replaced by the descriptor, or a descriptor is in the way, or the word is loaded.
LEMMA RegisterCasKeeps ==
    ASSUME Counters, CasInv, NEW t \in Threads, RegisterCas(t)
    PROVE  CasInv'
<1>0. /\ th[t].pc = "publish" /\ th[t].pc \in Registering /\ th[t].pc # "done"
      /\ th[t].pc \notin Looking \cup Finalizing
  BY DEF RegisterCas, Registering, Looking, Finalizing
<1>1. UNCHANGED <<scenario, log, tcrash>>
  BY Zenon DEF RegisterCas
<1>2. PICK l \in Locs : l = Op(t).loc /\ At(t) = Loc(l)
  BY <1>0, AtLocation, Zenon
<1>3. \A m \in Locs : ~Names(m, t) /\ ~Helps(t, m)
  BY <1>0, NotNamed, Zenon DEF Helps
<1>4. th[t].k \in {"save", "cas", "result"} /\ th[t].cur.desc = 0 /\ mem[Desc(t)].tmp_new = th[t].cur
  BY <1>0, Zenon DEF CasInv, Place, Seen
<1>5. CASE mem[At(t)] = th[t].cur
  <2>1. PICK w : /\ w.val = mem[Desc(t)].seq /\ w.desc = 1 /\ w.tid = t
                 /\ mem' = [mem EXCEPT ![Loc(l)] = w]
                 /\ th' = [th EXCEPT ![t].cur = w, ![t].pc = "finalize"]
    <3>1. \A v, u : Descriptor(v, u).val = v /\ Descriptor(v, u).desc = 1 /\ Descriptor(v, u).tid = u
      BY DEF Descriptor
    <3> DEFINE d == Descriptor(mem[Desc(t)].seq, t)
    <3>2. mem' = [mem EXCEPT ![Loc(l)] = d] /\ th' = [th EXCEPT ![t].cur = d, ![t].pc = "finalize"]
      BY <1>2, <1>5, Zenon DEF RegisterCas, WriteFence, my_new_seq
    <3>3. d.val = mem[Desc(t)].seq /\ d.desc = 1 /\ d.tid = t
      BY <3>1, Zenon
    <3> HIDE DEF d
    <3> QED
      BY <3>2, <3>3, Zenon
  <2> DEFINE r == [th[t] EXCEPT !.cur = w, !.pc = "finalize"]
  <2>2. th' = [th EXCEPT ![t] = r]
    BY <2>1, Zenon
  <2>3. DOMAIN r = Fields /\ r.pc = "finalize" /\ r.k = th[t].k /\ r.i = th[t].i /\ r.cur = w
    BY ThreadFields, Zenon
  <2> HIDE DEF r
  <2>4. DOMAIN th' = Threads /\ th'[t] = r /\ \A u \in Threads : u # t => th'[u] = th[u]
    BY <2>2, NewState, Zenon
  <2>5. /\ DOMAIN mem' = Lines
        /\ \A d \in Threads : mem'[Desc(d)] = mem[Desc(d)]
        /\ mem'[Loc(l)] = w /\ \A m \in Locs : m # l => mem'[Loc(m)] = mem[Loc(m)]
    BY <2>1, LocationLine, Zenon
  <2>6. mem[Desc(t)].seq \in Nat /\ w.val <= mem[Desc(t)].seq
    <3>1. mem[Desc(t)].seq \in Nat
      BY Zenon DEF CasInv, Shape
    <3> QED
      BY <2>1, <3>1
  <2>7. Prog' = Prog /\ (\A u : Ops(u)' = Ops(u)) /\ Op(t)' = Op(t)
    BY <1>1, <2>3, <2>4, Zenon DEF Prog, Ops, Op
  <2>8. Shape'
    <3>1. \A u \in Threads : DOMAIN th'[u] = Fields
      BY <2>3, <2>4, Zenon DEF CasInv, Shape
    <3>2. \A u \in Threads : DOMAIN mem'[Desc(u)] = {"tmp_new", "seq"} /\ mem'[Desc(u)].seq \in Nat
      BY <2>5, Zenon DEF CasInv, Shape
    <3>3. log' \in Logs
      BY <1>1, Zenon DEF CasInv, Shape
    <3> QED
      BY <1>1, <2>4, <2>5, <3>1, <3>2, <3>3, SameLines, Zenon DEF Shape
  <2>9. Word(w)
    BY <2>1, <2>6 DEF Word
  <2>10. ASSUME NEW m \in Locs PROVE Word(mem[Loc(m)])'
    <3>1. mem'[Loc(m)] = w \/ mem'[Loc(m)] = mem[Loc(m)]
      BY <2>5, Zenon
    <3>2. Word(mem[Loc(m)])
      BY Zenon DEF CasInv
    <3> QED
      BY <2>9, <3>1, <3>2, Zenon DEF Word
  <2>11. r.pc \notin Looking \cup Registering \cup {"first", "persist", "succ", "own", "second"} /\ r.pc \in Finalizing
    BY <2>3 DEF Looking, Registering, Finalizing
  <2>12. Place(t)'
    <3>1. Place(t)
      BY Zenon DEF CasInv
    <3> QED
      BY <1>0, <1>4, <2>3, <2>4, <2>7, <2>11, <3>1, Zenon DEF Place
  <2>13. Seen(t)'
    <3>1. r.pc \notin Finalizing \ {"finalize"} /\ r.pc \notin {"describe", "publish"}
      BY <2>3
    <3>2. mem'[Desc(t)] = mem[Desc(t)]
      BY <2>5, Zenon
    <3> QED
      BY <2>1, <2>3, <2>4, <2>6, <2>9, <2>11, <3>1, <3>2, Zenon DEF Seen, Word
  <2>14. Leads(t)'
    <3> SUFFICES ASSUME NEW m \in Locs, Names(m, t)'
                 PROVE  /\ mem'[Loc(m)].val = mem'[Desc(t)].seq
                        /\ \E i \in Ops(t)' : Prog'[t][i].loc = m
                        /\ Helps(t, m)'
      BY <2>3, <2>4, <2>11, Zenon DEF Leads
    <3>1. m = l
      BY <1>3, <2>5, Zenon DEF Names
    <3>2. th[t].i \in Ops(t) /\ Prog[t][th[t].i].loc = l
      BY <1>0, <1>2, AtLocation, Zenon DEF Op
    <3>3. Helps(t, m)'
      BY <1>2, <1>4, <2>3, <2>4, <2>5, <2>7, <2>11, <3>1, Zenon DEF Helps
    <3> QED
      BY <2>1, <2>5, <2>7, <3>1, <3>2, <3>3, Zenon
  <2>15. ASSUME NEW u \in Threads, u # t PROVE Place(u)' /\ Seen(u)' /\ Leads(u)'
    <3>1. th'[u] = th[u] /\ Op(u)' = Op(u)
      BY <2>4, <2>7, <2>15, Zenon DEF Op
    <3>2. Place(u)'
      BY <2>7, <3>1, Zenon DEF CasInv, Place
    <3>3. Seen(u)'
      <4>1. Seen(u) /\ Word(th[u].cur)
        BY Zenon DEF CasInv, Seen
      <4>2. \A d \in Threads : th'[d].pc \in {"describe", "publish"} => th[d].pc \in {"describe", "publish"}
        BY <2>3, <2>4, Zenon
      <4> QED
        BY <2>5, <3>1, <4>1, <4>2, Zenon DEF Seen, Word
    <3>4. Leads(u)'
      <4>1. \A m \in Locs : Names(m, u)' => m # l
        BY <2>1, <2>5, <2>15, Zenon DEF Names
      <4>2. \A m \in Locs : m # l => (Names(m, u)' => Names(m, u)) /\ (Helps(u, m) => Helps(u, m)')
        BY <2>5, <3>1, Zenon DEF Names, Helps
      <4>3. Leads(u)
        BY Zenon DEF CasInv
      <4> QED
        BY <1>1, <2>5, <2>7, <3>1, <4>1, <4>2, <4>3, Zenon DEF Leads
    <3> QED
      BY <3>2, <3>3, <3>4, Zenon
  <2>16. LocationFollowsLog'
    <3> SUFFICES ASSUME NEW m \in Locs
                 PROVE  Resolve(mem, m)' = IF log'[m] = <<>> THEN Initial ELSE New(log[m][Len(log[m])])'
      BY Zenon DEF LocationFollowsLog
    <3>1. Resolve(mem, m)' = Resolve(mem, m)
      <4>1. CASE m = l
        <5>1. Resolve(mem, l)' = th[t].cur.val
          BY <1>4, <2>1, <2>5, Zenon DEF Resolve
        <5>2. Resolve(mem, l) = th[t].cur.val
          BY <1>2, <1>4, <1>5, Direct, Zenon
        <5> QED
          BY <4>1, <5>1, <5>2, Zenon
      <4>2. CASE m # l
        <5>1. mem'[Loc(m)] = mem[Loc(m)] /\ Word(mem[Loc(m)])
          BY <2>5, <4>2, Zenon DEF CasInv
        <5> QED
          BY <2>5, <5>1, SameWord, Zenon
      <4> QED
        BY <4>1, <4>2, Zenon
    <3>2. New(log[m][Len(log[m])])' = New(log[m][Len(log[m])])
      BY <1>1, <2>7, Zenon DEF New
    <3> QED
      BY <1>1, <3>1, <3>2, Zenon DEF CasInv, LocationFollowsLog
  <2> QED
    BY <2>8, <2>10, <2>12, <2>13, <2>14, <2>15, <2>16, Zenon DEF CasInv
<1>6. CASE mem[At(t)] # th[t].cur /\ mem[At(t)].desc = 1
  <2>1. th' = [th EXCEPT ![t].cur = mem[Loc(l)], ![t].pc = "finalize"] /\ mem' = mem
    BY <1>2, <1>6, Zenon DEF RegisterCas
  <2> DEFINE r == [th[t] EXCEPT !.cur = mem[Loc(l)], !.pc = "finalize"]
  <2>2. th' = [th EXCEPT ![t] = r]
    BY <2>1, Zenon
  <2>3. DOMAIN r = Fields /\ r.pc = "finalize" /\ r.k = th[t].k /\ r.i = th[t].i /\ r.cur = mem[Loc(l)]
    BY ThreadFields, Zenon
  <2> HIDE DEF r
  <2>4. r.k \in {"save", "cas", "result", "second"}
    BY <1>4, <2>3, Zenon
  <2> QED
    BY <1>0, <1>1, <1>2, <1>3, <1>6, <2>1, <2>2, <2>3, <2>4, FinalizeTo, Zenon
<1>7. CASE mem[At(t)] # th[t].cur /\ mem[At(t)].desc # 1
  <2>1. Loaded(t, mem[Loc(l)]) /\ mem' = mem
    BY <1>2, <1>7, Zenon DEF RegisterCas
  <2>2. Quiet(t)
    BY <1>1, <2>1, LoadedQuiet, SameMemory, Zenon DEF Quiet
  <2> QED
    BY <1>0, <1>3, <1>4, <2>1, <2>2, WordFits, LoadedKeeps, Zenon
<1> QED
  BY <1>5, <1>6, <1>7, Zenon

-----------------------------------------------------------------------------
\* finalize_help.

\* What holds of every thread that finalizes.
LEMMA InFinalize ==
    ASSUME CasInv, NEW t \in Threads, th[t].pc \in Finalizing
    PROVE  /\ th[t].pc \in (Looking \cup Finalizing) \ {"load"} /\ th[t].pc # "done"
           /\ th[t].cur.desc = 1 /\ Word(th[t].cur)
           /\ th[t].k \in {"save", "cas", "result", "second"}
<1>1. th[t].pc \in (Looking \cup Finalizing) \ {"load"} /\ th[t].pc # "done"
  BY DEF Finalizing
<1> QED
  BY <1>1, Zenon DEF CasInv, Place, Seen

\* The help is void.
LEMMA GiveUpKeeps ==
    ASSUME Counters, Steady, CasInv, NEW t \in Threads, th[t].pc \in Finalizing, GiveUp(t), Intact,
           UNCHANGED <<scenario, log, tcrash>>
    PROVE  CasInv'
<1>1. CASE th[t].k # "second" /\ Goto(t, "load")
  <2>1. Quiet(t)
    BY <1>1, Moved, Zenon DEF Quiet
  <2>2. /\ th'[t].pc = "load" /\ th'[t].i = th[t].i /\ th'[t].cur = th[t].cur /\ th'[t].k = th[t].k
    BY <1>1, Moved, Zenon
  <2>3. "load" \in Looking /\ "load" \notin Finalizing /\ "load" # "patience"
    BY DEF Looking, Finalizing
  <2>4. th[t].k \in {"save", "cas", "result"}
    BY <1>1, InFinalize, Zenon
  <2> QED
    BY <2>1, <2>2, <2>3, <2>4, InFinalize, StayKeeps, Zenon
<1>2. CASE th[t].k = "second" /\ Finish(t, th[t].lmax)
  <2>1. Quiet(t)
    BY <1>2, InFinalize, Finished, Zenon DEF Quiet
  <2> QED
    BY <1>2, <2>1, InFinalize, QuietIsPlain, FinishKeeps, Zenon
<1> QED
  BY <1>1, <1>2, Zenon DEF GiveUp

LEMMA FinalizeTmpKeeps ==
    ASSUME Counters, Steady, CasInv, NEW t \in Threads, FinalizeTmp(t)
    PROVE  CasInv'
<1>1. th[t].pc = "finalize" /\ th[t].pc \in Finalizing /\ UNCHANGED <<scenario, log, tcrash>> /\ mem' = mem
  BY DEF FinalizeTmp, Finalizing
<1> DEFINE r == [th[t] EXCEPT !.tmp = mem[Desc(th[t].cur.tid)].tmp_new, !.pc = "seq"]
<1>2. th' = [th EXCEPT ![t] = r]
  BY Zenon DEF FinalizeTmp
<1>3. /\ DOMAIN r = Fields /\ r.pc = "seq" /\ r.i = th[t].i /\ r.cur = th[t].cur /\ r.k = th[t].k
      /\ r.tmp = mem[Desc(th[t].cur.tid)].tmp_new
  BY ThreadFields, Zenon
<1> HIDE DEF r
<1>4. Quiet(t) /\ th'[t] = r
  BY <1>1, <1>2, <1>3, SameMemory, QuietTo, Zenon
<1>5. "seq" \in Finalizing /\ "seq" \notin Looking /\ "seq" # "patience"
  BY DEF Looking, Finalizing
<1> QED
  BY <1>1, <1>3, <1>4, <1>5, InFinalize, StayKeeps, Zenon

\* From one access of finalize_help to the next, with what was read of the descriptor.
LEMMA ProceedKeeps ==
    ASSUME Counters, Steady, CasInv, NEW t \in Threads, th[t].pc \in Finalizing \ {"finalize"},
           NEW r, th' = [th EXCEPT ![t] = r], DOMAIN r = Fields, Intact, UNCHANGED <<scenario, log, tcrash>>,
           r.pc \in {"help", "raise", "swing"},
           r.i = th[t].i, r.cur = th[t].cur, r.k = th[t].k, r.tmp = th[t].tmp
    PROVE  CasInv'
<1>1. Quiet(t) /\ th'[t] = r
  BY QuietTo, Zenon
<1>2. r.pc \in Finalizing /\ r.pc \notin Looking /\ r.pc # "patience"
  BY DEF Looking, Finalizing
<1> QED
  BY <1>1, <1>2, InFinalize, StayKeeps, Zenon

LEMMA FinalizeSeqKeeps ==
    ASSUME Counters, Steady, CasInv, NEW t \in Threads, FinalizeSeq(t)
    PROVE  CasInv'
<1>1. th[t].pc \in Finalizing \ {"finalize"} /\ UNCHANGED <<scenario, log, tcrash>> /\ mem' = mem
  BY DEF FinalizeSeq, Finalizing
<1>2. CASE Goto(t, "help")
  <2> DEFINE r == [th[t] EXCEPT !.pc = "help"]
  <2>1. th' = [th EXCEPT ![t] = r]
    BY <1>2, Zenon DEF Goto
  <2>2. /\ DOMAIN r = Fields /\ r.pc = "help" /\ r.i = th[t].i /\ r.cur = th[t].cur /\ r.k = th[t].k
        /\ r.tmp = th[t].tmp
    BY ThreadFields, Zenon
  <2> HIDE DEF r
  <2> QED
    BY <1>1, <2>1, <2>2, SameMemory, ProceedKeeps, Zenon
<1>3. CASE GiveUp(t)
  BY <1>1, <1>3, SameMemory, GiveUpKeeps, Zenon
<1> QED
  BY <1>2, <1>3, Zenon DEF FinalizeSeq

LEMMA FinalizeHelpKeeps ==
    ASSUME Counters, Steady, CasInv, NEW t \in Threads, FinalizeHelp(t)
    PROVE  CasInv'
<1>1. th[t].pc \in Finalizing \ {"finalize"} /\ UNCHANGED <<scenario, log, tcrash>> /\ mem' = mem
  BY DEF FinalizeHelp, Finalizing
<1>2. CASE th' = [th EXCEPT ![t].thelp = mem[Winner(t)], ![t].pc = "raise"]
  <2> DEFINE r == [th[t] EXCEPT !.thelp = mem[Winner(t)], !.pc = "raise"]
  <2>1. th' = [th EXCEPT ![t] = r]
    BY <1>2, Zenon
  <2>2. /\ DOMAIN r = Fields /\ r.pc = "raise" /\ r.i = th[t].i /\ r.cur = th[t].cur /\ r.k = th[t].k
        /\ r.tmp = th[t].tmp
    BY ThreadFields, Zenon
  <2> HIDE DEF r
  <2> QED
    BY <1>1, <2>1, <2>2, SameMemory, ProceedKeeps, Zenon
<1>3. CASE GiveUp(t)
  BY <1>1, <1>3, SameMemory, GiveUpKeeps, Zenon
<1> QED
  BY <1>2, <1>3, Zenon DEF FinalizeHelp

LEMMA FinalizeRaiseKeeps ==
    ASSUME Counters, Steady, CasInv, NEW t \in Threads, FinalizeRaise(t)
    PROVE  CasInv'
<1>1. th[t].pc \in Finalizing \ {"finalize"} /\ UNCHANGED <<scenario, log, tcrash>>
  BY DEF FinalizeRaise, Finalizing
<1>2. CASE mem' = [mem EXCEPT ![Winner(t)] = th[t].tcur] /\ Goto(t, "swing")
  <2> DEFINE r == [th[t] EXCEPT !.pc = "swing"]
  <2>1. th' = [th EXCEPT ![t] = r]
    BY <1>2, Zenon DEF Goto
  <2>2. /\ DOMAIN r = Fields /\ r.pc = "swing" /\ r.i = th[t].i /\ r.cur = th[t].cur /\ r.k = th[t].k
        /\ r.tmp = th[t].tmp
    BY ThreadFields, Zenon
  <2>3. Intact
    BY <1>2, LineFacts, OtherLine, Zenon DEF Winner
  <2> HIDE DEF r
  <2> QED
    BY <1>1, <2>1, <2>2, <2>3, ProceedKeeps, Zenon
<1>3. CASE GiveUp(t) /\ mem' = mem
  BY <1>1, <1>3, SameMemory, GiveUpKeeps, Zenon
<1> QED
  BY <1>2, <1>3, Zenon DEF FinalizeRaise, WriteFence

\* The location is swung to the value of the descriptor, if it still names it.
LEMMA FinalizeCasKeeps ==
    ASSUME Counters, CasInv, NEW t \in Threads, FinalizeCas(t)
    PROVE  CasInv'
<1>0. th[t].pc = "swing" /\ th[t].pc \in Finalizing \ {"finalize"}
  BY DEF FinalizeCas, Finalizing
<1>1. UNCHANGED <<scenario, log, tcrash>>
  BY Zenon DEF FinalizeCas
<1>2. PICK l \in Locs : l = Op(t).loc /\ At(t) = Loc(l)
  BY <1>0, InFinalize, AtLocation, Zenon
<1>3. PICK c : /\ th' = [th EXCEPT ![t].cur = c, ![t].pc = "settle"]
               /\ \/ /\ mem[Loc(l)] = th[t].cur /\ c = Clean(th[t].tmp.val)
                     /\ mem' = [mem EXCEPT ![Loc(l)] = c]
                  \/ mem[Loc(l)] # th[t].cur /\ c = mem[Loc(l)] /\ mem' = mem
  BY <1>2, Zenon DEF FinalizeCas, WriteFence
<1> DEFINE r == [th[t] EXCEPT !.cur = c, !.pc = "settle"]
<1>4. th' = [th EXCEPT ![t] = r]
  BY <1>3, Zenon
<1>5. DOMAIN r = Fields /\ r.pc = "settle" /\ r.i = th[t].i /\ r.cur = c /\ r.k = th[t].k
  BY ThreadFields, Zenon
<1> HIDE DEF r
<1>6. DOMAIN th' = Threads /\ th'[t] = r /\ \A u \in Threads : u # t => th'[u] = th[u]
  BY <1>4, NewState, Zenon
<1>7. Place(t)'
  <2>1. Ops(t)' = Ops(t) /\ Place(t)
    BY <1>1, <1>5, <1>6, SameOp, Zenon DEF CasInv
  <2>2. r.pc \notin Looking \cup Registering \cup {"first", "persist", "succ", "own", "second"}
    BY <1>5 DEF Looking, Registering
  <2> QED
    BY <1>0, <1>5, <1>6, <2>1, <2>2, InFinalize, Zenon DEF Place
<1>8. th'[t].pc \notin Helping
  BY <1>5, <1>6, NotHelping, Zenon
<1>9. CASE mem[Loc(l)] = th[t].cur /\ c = Clean(th[t].tmp.val) /\ mem' = [mem EXCEPT ![Loc(l)] = c]
  <2>1. c.desc = 0 /\ c.val = th[t].tmp.val
    BY <1>9, CleanWord, Zenon
  <2>2. Resolve(mem, l) = th[t].tmp.val
    <3>1. PICK d \in Threads : th[t].cur.tid = d /\ th[t].cur.desc = 1
      BY <1>0, InFinalize, Zenon DEF Word
    <3>2. mem[Loc(l)].val = mem[Desc(d)].seq
      BY <1>9, <3>1, Zenon DEF CasInv, Leads, Names
    <3>3. th[t].tmp = mem[Desc(d)].tmp_new
      BY <1>0, <1>9, <3>1, <3>2, Zenon DEF CasInv, Seen
    <3> QED
      BY <1>9, <3>1, <3>3, Zenon DEF Resolve
  <2>3. Plain(t)
    BY <1>1, <1>5, <1>6, <1>9, <2>1, <2>2, Cleaned, Zenon
  <2>4. Word(c) /\ Fits(c)
    BY <2>1 DEF Word, Fits
  <2>5. \A m \in Locs : ~(Names(m, t)' /\ Helps(t, m))
    <3>1. mem'[Loc(l)] = c
      BY <1>9, LocationLine, Zenon
    <3>2. c.desc # 1
      BY <2>1
    <3> QED
      BY <1>2, <3>1, <3>2, Zenon DEF Names, Helps
  <2> QED
    BY <1>5, <1>6, <1>7, <1>8, <2>3, <2>4, <2>5, LeavesKeeps, Zenon
<1>10. CASE mem[Loc(l)] # th[t].cur /\ c = mem[Loc(l)] /\ mem' = mem
  <2>1. Plain(t)
    BY <1>1, <1>4, <1>5, <1>10, SameMemory, QuietTo, QuietIsPlain, Zenon
  <2>2. Word(c) /\ Fits(c)
    BY <1>10, WordFits, Zenon
  <2>3. \A m \in Locs : ~Helps(t, m)
    <3>1. th[t].pc # "load"
      BY <1>0
    <3> QED
      BY <1>2, <1>10, <3>1, Zenon DEF Helps
  <2> QED
    BY <1>5, <1>6, <1>7, <1>8, <2>1, <2>2, <2>3, LeavesKeeps, Zenon
<1> QED
  BY <1>3, <1>9, <1>10, Zenon

LEMMA FinalizePersistKeeps ==
    ASSUME Counters, CasInv, NEW t \in Threads, FinalizePersist(t)
    PROVE  CasInv'
<1>0. th[t].pc = "settle" /\ th[t].pc \notin Helping /\ th[t].pc # "done"
  BY NotHelping, Zenon DEF FinalizePersist
<1>1. UNCHANGED <<scenario, log, tcrash>> /\ mem' = mem
  BY Zenon DEF FinalizePersist, WriteFence
<1>2. CASE th[t].k = "second"
  <2>1. Finish(t, th[t].lmax)
    BY <1>2, Zenon DEF FinalizePersist
  <2>2. Quiet(t)
    BY <1>0, <1>1, <2>1, Finished, SameMemory, Zenon DEF Quiet
  <2> QED
    BY <1>0, <2>1, <2>2, QuietIsPlain, FinishKeeps, Zenon
<1>3. CASE th[t].k # "second"
  <2>1. Loaded(t, th[t].cur)
    BY <1>3, Zenon DEF FinalizePersist
  <2>2. Quiet(t)
    BY <1>1, <2>1, LoadedQuiet, SameMemory, Zenon DEF Quiet
  <2>3. th[t].k \in {"save", "cas", "result"}
    BY <1>0, <1>3, Zenon DEF CasInv, Place
  <2>4. \A m \in Locs : ~Helps(t, m)
    BY <1>0, Zenon DEF Helps, Helping
  <2> QED
    BY <1>0, <2>1, <2>2, <2>3, <2>4, CurFits, LoadedKeeps, Zenon
<1> QED
  BY <1>2, <1>3, Zenon

-----------------------------------------------------------------------------
\* Crashes and the whole.

LEMMA ThreadCrashKeeps ==
    ASSUME Counters, CasInv, NEW t \in Threads, ThreadCrash(t)
    PROVE  CasInv'
<1>1. mem' = mem /\ UNCHANGED <<scenario, log>> /\ th' = [th EXCEPT ![t] = Start]
  BY Zenon DEF ThreadCrash
<1>2. DOMAIN th' = Threads /\ th'[t] = Start /\ \A u \in Threads : u # t => th'[u] = th[u]
  BY <1>1, NewState, Zenon
<1>3. tcrash'[t] > 0 /\ \A u \in Threads : tcrash[u] > 0 => tcrash'[u] > 0
  BY DEF Counters, ThreadCrash
<1>4. Intact
  BY <1>1, SameMemory, Zenon
<1>5. Shape'
  <2>1. \A u \in Threads : DOMAIN th'[u] = Fields
    BY <1>2, StartFields, Zenon DEF CasInv, Shape
  <2>2. \A u \in Threads : DOMAIN mem'[Desc(u)] = {"tmp_new", "seq"} /\ mem'[Desc(u)].seq \in Nat
    BY <1>1, Zenon DEF CasInv, Shape
  <2>3. DOMAIN mem' = Lines /\ log' \in Logs
    BY <1>1, Zenon DEF CasInv, Shape
  <2> QED
    BY <1>1, <1>2, <2>1, <2>2, <2>3, SameLines, Zenon DEF Shape
<1>6. LocationFollowsLog'
  BY <1>1, <1>4, FollowsSame, Zenon DEF Intact
<1>7. Plain(t)
  BY <1>1, <1>2, <1>3, <1>5, <1>6, Zenon DEF Plain
<1>8. Place(t)'
  <2>1. 1 \in Ops(t)' /\ 1 \in Nat \ {0}
    <3>1. 1 \in 1..Len(Prog[t])
      BY Programs
    <3> QED
      BY <1>1, <3>1 DEF Ops, Prog
  <2>2. Start.pc \notin Looking \cup Registering \cup Finalizing
            \cup {"settle", "first", "persist", "succ", "own", "second"}
    BY StartFields DEF Looking, Registering, Finalizing
  <2> QED
    BY <1>2, <2>1, <2>2, StartFields, Zenon DEF Place
<1>9. th'[t].pc \notin Helping
  BY <1>2, StartFields, NotHelping, Zenon
<1>10. Word(th'[t].cur) /\ Fits(th'[t].cur)
  <2>1. th'[t].cur.desc = 0
    BY <1>2, StartFields, Zenon
  <2> QED
    BY <2>1 DEF Word, Fits
<1> QED
  BY <1>3, <1>7, <1>8, <1>9, <1>10, LeavesKeeps, Zenon

\* Nothing the invariant speaks of changes.
LEMMA StillKeeps ==
    ASSUME CasInv, UNCHANGED <<mem, th, tcrash, scenario, log>>
    PROVE  CasInv'
<1>1. Prog' = Prog /\ (\A u : Ops(u)' = Ops(u)) /\ \A u : Op(u)' = Op(u)
  BY Zenon DEF Prog, Ops, Op
<1>2. Shape' /\ \A l \in Locs : Word(mem[Loc(l)])'
  BY SameLines, Zenon DEF CasInv, Shape, Word
<1>3. ASSUME NEW t \in Threads PROVE Place(t)' /\ Seen(t)' /\ Leads(t)'
  <2>1. Place(t)'
    BY <1>1, Zenon DEF CasInv, Place
  <2>2. Seen(t)'
    BY Zenon DEF CasInv, Seen, Word
  <2>3. \A l \in Locs : (Names(l, t)' <=> Names(l, t)) /\ (Helps(t, l)' <=> Helps(t, l))
    BY <1>1, Zenon DEF Names, Helps
  <2>4. Leads(t)'
    BY <1>1, <2>3, Zenon DEF CasInv, Leads
  <2> QED
    BY <2>1, <2>2, <2>4, Zenon
<1>4. LocationFollowsLog'
  BY FollowsSame, Zenon DEF CasInv
<1> QED
  BY <1>2, <1>3, <1>4, Zenon DEF CasInv

LEMMA InitKeeps == Init => Inv
<1> SUFFICES ASSUME Init PROVE Counters /\ CasInv
  BY Zenon DEF Inv
<1>1. Counters
  BY DEF Init, ObjectInit, Counters
<1>2. \A l : Blank(Loc(l)) = Clean(Initial)
  BY DEF Blank, Loc
<1>3. \A t : DOMAIN Blank(Desc(t)) = {"tmp_new", "seq"} /\ Blank(Desc(t)).seq = 0
  BY DEF Blank, Desc
<1>4. DOMAIN mem = Lines /\ \A x \in Lines : mem[x] = Blank(x)
  BY Zenon DEF Init
<1>5. \A l \in Locs : mem[Loc(l)].desc = 0 /\ mem[Loc(l)].val = Initial
  BY <1>2, <1>4, LineFacts, CleanWord, Zenon
<1>6. \A t \in Threads : DOMAIN mem[Desc(t)] = {"tmp_new", "seq"} /\ mem[Desc(t)].seq = 0
  BY <1>3, <1>4, LineFacts, Zenon
<1>7. DOMAIN th = Threads /\ \A t \in Threads : th[t] = Start
  BY Zenon DEF Init
<1>8. log \in Logs /\ \A l \in Locs : log[l] = <<>>
  BY DEF Init, ObjectInit, Logs
<1>9. Shape
  BY <1>4, <1>6, <1>7, <1>8, StartFields DEF Shape
<1>10. \A l \in Locs : Word(mem[Loc(l)]) /\ mem[Loc(l)].desc # 1
  BY <1>5 DEF Word
<1>11. ASSUME NEW t \in Threads PROVE Place(t) /\ Seen(t) /\ Leads(t)
  <2>1. 1 \in Ops(t) /\ 1 \in Nat \ {0}
    BY <1>1, Programs DEF Ops
  <2>2. Start.pc \notin Looking \cup Registering \cup Finalizing
            \cup {"settle", "first", "persist", "succ", "own", "second"}
    BY StartFields DEF Looking, Registering, Finalizing
  <2>3. Place(t)
    BY <1>7, <2>1, <2>2, StartFields, Zenon DEF Place
  <2>4. Word(Start.cur) /\ Start.cur.desc # 1
    BY StartFields DEF Word
  <2>5. Start.pc # "publish"
    BY StartFields
  <2>6. Seen(t)
    BY <1>7, <2>2, <2>4, <2>5, Zenon DEF Seen
  <2>7. Leads(t)
    BY <1>10, Zenon DEF Leads, Names
  <2> QED
    BY <2>3, <2>6, <2>7, Zenon
<1>12. LocationFollowsLog
  BY <1>5, <1>8, Direct, Zenon DEF LocationFollowsLog
<1> QED
  BY <1>1, <1>9, <1>10, <1>11, <1>12, Zenon DEF CasInv

\* The counters go up.
LEMMA CountersKeep ==
    ASSUME Counters, [Next]_vars
    PROVE  Counters' /\ (Steady' => Steady) /\ (SystemCrash => ~Steady')
<1>1. ASSUME SystemCrash PROVE Counters' /\ ~Steady'
  <2>1. scenario' = scenario /\ tcrash' = tcrash /\ scrash' = scrash + 1
    BY <1>1, Zenon DEF SystemCrash
  <2> QED
    BY <2>1 DEF Counters, Steady
<1>2. ASSUME NEW t \in Threads, ThreadCrash(t) PROVE Counters' /\ (Steady' => Steady)
  <2>1. scenario' = scenario /\ scrash' = scrash /\ tcrash' = [tcrash EXCEPT ![t] = @ + 1]
    BY <1>2, Zenon DEF ThreadCrash
  <2>2. Counters' /\ \A u \in Threads : tcrash'[u] = 0 => tcrash[u] = 0
    BY <2>1 DEF Counters
  <2>3. Prog' = Prog /\ \A u : Ops(u)' = Ops(u)
    BY <2>1, Zenon DEF Prog, Ops
  <2> QED
    BY <2>1, <2>2, <2>3, Zenon DEF Steady
<1>3. ASSUME UNCHANGED <<scenario, tcrash, scrash>> PROVE Counters' /\ (Steady' => Steady)
  BY <1>3, Zenon DEF Counters, Steady, Prog, Ops
<1>4. ASSUME NEW t \in Threads, Step(t) PROVE UNCHANGED <<scenario, tcrash, scrash>>
  BY <1>4, Zenon DEF Step, Checkpoint, Save, Load, TakeTime, Spin, Patience, RegisterSeq, RegisterTmp,
     RegisterCas, FinalizeTmp, FinalizeSeq, FinalizeHelp, FinalizeRaise, FinalizeCas,
     FinalizePersist, Cas, Result, First, Fail, Persist, Succ, Own, Second, Fence
<1>5. ASSUME NEW x, WriteBack(x) PROVE UNCHANGED <<scenario, tcrash, scrash>>
  BY <1>5, Zenon DEF WriteBack
<1>6. ASSUME UNCHANGED vars PROVE UNCHANGED <<scenario, tcrash, scrash>>
  BY <1>6, Zenon DEF vars
<1> QED
  BY <1>1, <1>2, <1>3, <1>4, <1>5, <1>6, Zenon DEF Next

\* One lemma per action of a thread.
LEMMA StepKeeps ==
    ASSUME Counters, Steady, CasInv, NEW t \in Threads, Step(t)
    PROVE  CasInv'
BY CheckpointKeeps, SaveKeeps, LoadKeeps, TakeTimeKeeps, SpinKeeps, PatienceKeeps, RegisterSeqKeeps,
   RegisterTmpKeeps, RegisterCasKeeps, FinalizeTmpKeeps, FinalizeSeqKeeps, FinalizeHelpKeeps,
   FinalizeRaiseKeeps, FinalizeCasKeeps, FinalizePersistKeeps, CasKeeps, ResultKeeps, FirstKeeps,
   FailKeeps, PersistKeeps, SuccKeeps, OwnKeeps, SecondKeeps, FenceKeeps, Zenon DEF Step

LEMMA NextKeeps == Inv /\ [Next]_vars => Inv'
<1> SUFFICES ASSUME Inv, [Next]_vars PROVE Inv'
  OBVIOUS
<1>1. Counters' /\ (Steady' => Steady) /\ (SystemCrash => ~Steady')
  BY CountersKeep, Zenon DEF Inv
<1>2. ASSUME Steady' PROVE CasInv'
  <2>1. Counters /\ Steady /\ CasInv
    BY <1>1, <1>2, Zenon DEF Inv
  <2>2. ASSUME NEW x, WriteBack(x) PROVE CasInv'
    BY <2>1, <2>2, StillKeeps, Zenon DEF WriteBack
  <2>3. ASSUME UNCHANGED vars PROVE CasInv'
    BY <2>1, <2>3, StillKeeps, Zenon DEF vars
  <2> QED
    BY <1>1, <1>2, <2>1, <2>2, <2>3, StepKeeps, ThreadCrashKeeps, Zenon DEF Next
<1> QED
  BY <1>1, <1>2, Zenon DEF Inv

(***************************************************************************)
(* Helping keeps the value of a location: whatever marks, descriptors and  *)
(* values the threads replace in register_help, finalize_help and cas, and *)
(* however late a helper is, the location stands for the value of the last *)
(* update that took effect.  For any number of threads, locations, updates *)
(* and thread crashes, until power fails, if every thread that died        *)
(* updates one location.                                                   *)
(***************************************************************************)
THEOREM HelpingKeepsTheValue == Spec => [](Steady => LocationFollowsLog)
<1>1. Inv => (Steady => LocationFollowsLog)
  BY Zenon DEF Inv, CasInv
<1> QED
  BY <1>1, InitKeeps, NextKeeps, PTL DEF Spec
=============================================================================
