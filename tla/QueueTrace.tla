----------------------------- MODULE QueueTrace ------------------------------
(***************************************************************************)
(* utils/analy.c reads the trace that the simulator writes of a queue and  *)
(* prints a row for every sampling interval: packets that came, went and   *)
(* were dropped, packets waiting at its end, mean delay of those that      *)
(* went.  The queue is the one that PrioFid promises to be; it writes the  *)
(* records, and the program reads them in the same order.                  *)
(*                                                                         *)
(* Abstracted: time is counted in ticks, the program has it in doubles,    *)
(* which differ from ticks at the very end of an interval only             *)
(* (RoundedUp); the columns in bits, which go with those in packets; a     *)
(* mean delay is kept as sum and number; a packet comes to the queue once. *)
(* A search that never ends is a step that is not possible.                *)
(***************************************************************************)
EXTENDS Integers, FiniteSets, FiniteSetsExt, PrioQueue

CONSTANTS
    Flow,          \* packets of the flow to be analysed
    smp,           \* sampling interval
    RoundedUp,     \* the intervals that end too early in doubles, see Late
    DIM,           \* 100000: entries of the backlog
    UninitIDs,     \* what pktID of an entry may be before its first use
    UninitDelay,   \* what delay may be before the first row is written
    Pauses,        \* time between two records
    MaxTime        \* bound on the time of a record

ASSUME TraceAssumption ==
    /\ IsFiniteSet(Packets) /\ NoPacket \notin Packets /\ Flow \subseteq Packets
    /\ smp \in Nat \ {0} /\ RoundedUp \subseteq Nat \ 0 .. 2 /\ DIM \in Nat \ {0} /\ limit_ \in 0 .. DIM
    /\ UninitDelay \subseteq Int /\ Pauses \subseteq Nat /\ MaxTime \in Nat

VARIABLES
    time,      \* of the last record
    analy,     \* the variables of main()
    came,      \* history: when each packet came, Never or Gone
    truth      \* history: what happened to the flow in each interval

traced == <<arrival, served, time, analy, came, truth>>

Never == -1
Gone == -2

\* At the very end of interval n, after n - 1 additions of smp to timestamp, rounding
\* decides whether timestamp < time - smp holds, always in the same way for this n.  For
\* n < 3 nothing is rounded; with smp = 0.1 it does not hold at 0.3, but it does at 0.8.
Late(t) == t % smp = 0 /\ t \div smp \in RoundedUp

\* The sampling interval to which a record at time t belongs: the one that ends then or
\* later, or the next if the record comes out late.
Interval(t) ==
    CASE t = 0             -> 1
      [] t # 0 /\ Late(t)  -> t \div smp + 1
      [] t # 0 /\ ~Late(t) -> (t + smp - 1) \div smp
Nothing == [input |-> 0, output |-> 0, drop |-> 0, delay |-> 0]

\* inputPKT, outputPKT, dropPKT and delay of the interval; queuesizePKT; the index
\* and the entries of the backlog; the rows written.
TraceInit ==
    /\ QueueInit /\ time = 0 /\ came = [p \in Packets |-> Never]
    /\ truth = [n \in 1 .. Interval(MaxTime) |-> Nothing]
    /\ \E id \in UninitIDs, d \in UninitDelay :
         analy = [timestamp |-> 0, input |-> 0, output |-> 0, drop |-> 0, delay |-> d,
                  queuesize |-> 0, i |-> 0, rows |-> << >>,
                  backlog |-> [j \in 0 .. DIM - 1 |-> [busy |-> 0, ts |-> 0, pktID |-> id]]]

-----------------------------------------------------------------------------
(* main(), for one record *)

\* The first of the entries in stops from i on, around the ring.
SearchFrom(a, stops) ==
    LET distance(j) == (j - a.i + DIM) % DIM
    IN  CHOOSE j \in stops : \A k \in stops : distance(j) <= distance(k)

\* A row, and the counters of the next interval.
WriteRow(a) ==
    [a EXCEPT !.timestamp = @ + smp, !.input = 0, !.output = 0, !.drop = 0, !.delay = 0,
              !.rows = Append(@, [time |-> a.timestamp + smp, input |-> a.input,
                                  output |-> a.output, drop |-> a.drop, delay |-> a.delay,
                                  queuesize |-> a.queuesize])]

\* The rows that are written before a record at time t.
DueToo(a, t) == IF t - smp < a.timestamp THEN 0 ELSE (t - smp - a.timestamp) \div smp + 1
Due(a, t) ==
    IF Late(t)
    THEN IF t <= a.timestamp THEN 0 ELSE (t - a.timestamp) \div smp
    ELSE IF t - smp <= a.timestamp THEN 0 ELSE (t - smp - a.timestamp + smp - 1) \div smp
WriteRows(a, t) == FoldLeft(LAMBDA b, n : WriteRow(b), a, [n \in 1 .. Due(a, t) |-> n])

\* The entries that end the search of a record.
FreeAny(a)  == DOMAIN a.backlog
Free(a)     == {j \in DOMAIN a.backlog : a.backlog[j].busy = 0}
Holds(a, p) == {j \in DOMAIN a.backlog : a.backlog[j].busy = 1 /\ a.backlog[j].pktID = p}
Names(a, p) == {j \in DOMAIN a.backlog : a.backlog[j].pktID = p}

Plus(a, p, t) ==
    LET j == SearchFrom(a, Free(a))
    IN  [a EXCEPT !.input = @ + 1, !.queuesize = @ + 1, !.i = j,
                  !.backlog[j] = [busy |-> 1, ts |-> t, pktID |-> p]]

Minus(a, p, t) ==
    LET j == SearchFrom(a, Holds(a, p))
    IN  [a EXCEPT !.output = @ + 1, !.queuesize = @ - 1, !.i = j,
                  !.delay = @ + t - a.backlog[j].ts, !.backlog[j].busy = 0]

\* A drop looks at every entry once, whether it is busy or not.
Drop(a, p) ==
    IF Names(a, p) # {}
    THEN LET j == SearchFrom(a, Names(a, p))
         IN  [a EXCEPT !.drop = @ + 1, !.queuesize = @ - 1, !.i = j, !.backlog[j].busy = 0]
    ELSE [a EXCEPT !.drop = @ + 1, !.i = (@ + DIM - 1) % DIM]

Read(a0, r) ==
    IF r.p \notin Flow THEN a0
    ELSE LET a == WriteRows(a0, r.time)
         IN  CASE r.code = "+" -> Plus(a, r.p, r.time)
               [] r.code = "-" -> Minus(a, r.p, r.time)
               [] r.code = "d" -> Drop(a, r.p)
               [] r.code = "r" -> a

-----------------------------------------------------------------------------
(* The queue and its trace *)

\* The search of a record of the flow ends.
Ends(r) ==
    r.p \in Flow =>
        CASE r.code = "+" -> Free(analy) # {}
          [] r.code = "-" -> Holds(analy, r.p) # {}
          [] r.code \in {"d", "r"} -> TRUE

\* What the records with these codes add to the truth of their interval.
Count(codes, code) == Cardinality({k \in DOMAIN codes : codes[k] = code})
Counted(x, codes, waited) ==
    [input |-> x.input + Count(codes, "+"), output |-> x.output + Count(codes, "-"),
     drop |-> x.drop + Count(codes, "d"), delay |-> x.delay + waited]

\* Records with these codes are written for packet p, after a pause.
Trace(codes, p) ==
    \E pause \in Pauses :
        LET t == time + pause
            records == [k \in DOMAIN codes |-> [code |-> codes[k], p |-> p, time |-> t]]
            waited == IF codes = <<"-">> THEN t - came[p] ELSE 0
        IN  /\ t <= MaxTime /\ Ends(records[1])
            /\ time' = t
            /\ analy' = FoldLeft(Read, analy, records)
            /\ came' = [came EXCEPT ![p] = IF codes = <<"+">> THEN t ELSE Gone]
            /\ truth' = IF p \in Flow
                        THEN [truth EXCEPT ![Interval(t)] = Counted(@, codes, waited)]
                        ELSE truth

Come(p) == came[p] = Never /\ Accept(p) /\ Trace(<<"+">>, p)
Go(p)   == Serve(p) /\ Trace(<<"-">>, p)
Lose(p) == Withdraw(p) /\ Trace(<<"d">>, p)

\* The packet meets a full queue.
Refuse(p) ==
    /\ came[p] = Never /\ Len(arrival) + 1 >= limit_
    /\ Trace(<<"+", "d">>, p) /\ UNCHANGED <<arrival, served>>

\* The packet that has left reaches the other end of the link.
Received(p) == p = served /\ Trace(<<"r">>, p) /\ UNCHANGED <<arrival, served>>

TraceNext == \E p \in Packets : Come(p) \/ Go(p) \/ Lose(p) \/ Refuse(p) \/ Received(p)

TraceSpec == TraceInit /\ [][TraceNext]_traced

-----------------------------------------------------------------------------
(* Properties *)

\* The packets that wait at the end of interval n.
WaitingAfter(n) == MapThenSumSet(LAMBDA k : truth[k].input - truth[k].output - truth[k].drop, 1 .. n)

\* "the number of packets waiting for service at the end of the interval" (analy.c):
\* the rows follow each other without a gap, every record is counted in exactly one, that
\* of its interval (or the next, where rounding says so, and then all records of that
\* time are), and queue size and mean delay are those of the queue; but the delay of the
\* first row starts from a variable that was not initialised.
RowsAgree ==
    \A n \in DOMAIN analy.rows :
        LET row == analy.rows[n]
        IN  /\ row.time = n * smp
            /\ row.input = truth[n].input /\ row.output = truth[n].output
            /\ row.drop = truth[n].drop /\ row.queuesize = WaitingAfter(n)
            /\ (n > 1) => row.delay = truth[n].delay

\* Types of the variables of main(), checked with BacklogHolds.
TypeOK ==
    /\ analy.backlog \in [0 .. DIM - 1 -> [busy : {0, 1}, ts : 0 .. MaxTime,
                                           pktID : Packets \cup UninitIDs]]
    /\ analy.i \in 0 .. DIM - 1
    /\ {analy.timestamp, analy.input, analy.output, analy.drop, analy.queuesize} \subseteq Nat

\* Every packet of the flow that waits has one entry in the backlog, with the time
\* at which it came: the search of its departure ends, whatever was dropped before,
\* also with entries whose number was never initialised.
BacklogHolds ==
    /\ TypeOK
    /\ analy.queuesize = Cardinality(Range(arrival) \cap Flow)
    /\ \A p \in Range(arrival) \cap Flow :
         \E j \in DOMAIN analy.backlog :
            /\ analy.backlog[j] = [busy |-> 1, ts |-> came[p], pktID |-> p]
            /\ Holds(analy, p) = {j}
=============================================================================
