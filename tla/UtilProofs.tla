----------------------------- MODULE UtilProofs -----------------------------
(***************************************************************************)
(* Theorems about the two programs beside the simulator.                   *)
(*                                                                         *)
(* FullRun, for any number of threads, any outputs and any configuration:  *)
(* the statistics are updated under mutual exclusion, and the outcome is   *)
(* sound (OutcomeSound).  The argument: the number D of samples at which a *)
(* thread decided to stop is the number of an update, and afterwards every *)
(* thread adds one sample at most, the thread that decided none.  So the   *)
(* number of samples and the threads that still have one to add stay below *)
(* D + num_jobs; with no more threads than refresh the next update is not  *)
(* reached.  Every sample is counted (SamplesCounted): insert_sort keeps a *)
(* tree in which each node has no larger values on its left and no smaller *)
(* ones on its right, and count is the number on the left (IsTree); the    *)
(* thread inside the semaphore has counted its output in the columns up to *)
(* c_index and in no other (Sums).                                         *)
(*                                                                         *)
(* QueueTrace, for any packets, flow, sampling interval and pauses: the    *)
(* rows are right (RowsAgree) and the backlog is held (BacklogHolds).  The *)
(* argument: the counters are those of the interval after the last row and *)
(* nothing has happened in a later one (Current), because the rows due are *)
(* written before a record is counted; and a busy entry always has the     *)
(* number of a packet that came before, so the entry taken for a packet is *)
(* the only one with its number that is busy (Sound).                      *)
(***************************************************************************)
EXTENDS FullRun, QueueTrace, SequenceLemmas, FiniteSetTheorems, TLAPS

-----------------------------------------------------------------------------
(* fullrun *)

Label == {"loop", "run", "cols", "save", "value", "insert", "update", "done"}
Node == [data_val : Nat, lp : Nat, rp : Nat, count : Nat]

Types ==
    /\ valid \in BOOLEAN /\ needs \in [1 .. MAX_OUTPUT -> Nat]
    /\ pc \in [Jobs -> Label] /\ drp \in [Jobs -> Seq(Nat)] /\ i \in [Jobs -> Nat]
    /\ mutex \subseteq Jobs /\ end_run \in BOOLEAN
    /\ cols \in -1 .. MAX_OUTPUT /\ num_samples \in Nat
    /\ c_index \in Nat /\ c_value \in Nat
    /\ sum_total \in [1 .. MAX_OUTPUT -> Nat] /\ data_sort \in [1 .. MAX_OUTPUT -> Seq(Node)]
    /\ estimated \in [1 .. MAX_OUTPUT -> Nat] /\ converged \in BOOLEAN
    /\ ended \in {"no", "printed", "quit", "exit"} /\ taken \in Seq(Seq(Nat))

\* The semaphore is held by the thread that saves its data, the only one.
Exclusion == mutex = Saving /\ \A t, u \in Saving : t = u

\* A thread holds an output of the length that all have, once it has been compared.
Compared ==
    /\ \A t \in Jobs : Len(drp[t]) <= MAX_OUTPUT
    /\ \A t \in Jobs : (pc[t] = "save" \/ t \in Saving) => Len(drp[t]) = cols
    /\ cols = -1 => num_samples = 0 /\ \A c \in 1 .. MAX_OUTPUT : estimated[c] = 0

Check(n) == (n \div refresh) * refresh

\* What the estimates are made from, before and after save_data, in its loop over the
\* columns, and in an update.
Estimates ==
    /\ \A t \in Jobs : pc[t] # "update" => i[t] = 0
    /\ Saving = {} => \A c \in 1 .. MAX_OUTPUT : (c <= cols) =>
                         estimated[c] = Seen(c, Check(num_samples))
    /\ \A t \in Jobs : pc[t] \in {"value", "insert"} =>
          /\ num_samples > 0
          /\ \A c \in 1 .. MAX_OUTPUT : (c <= cols) =>
                estimated[c] = Seen(c, Check(num_samples - 1))
    /\ \A t \in Jobs : pc[t] = "update" =>
          /\ num_samples % refresh = 0 /\ num_samples > min_runs /\ i[t] <= cols
          /\ \A c \in 1 .. MAX_OUTPUT : (c <= cols) =>
                estimated[c] = Seen(c, IF c <= i[t] THEN num_samples ELSE num_samples - refresh)

\* Threads that will add a sample although end_run is false.
InFlight == {t \in Jobs : pc[t] \in {"run", "cols", "save"}}

\* The run was stopped by an update at D samples.
StoppedAt(D) ==
    /\ Check(D) = D /\ min_runs < D /\ D <= LastRun
    /\ D <= num_samples /\ (Saving # {} => D < num_samples)
    /\ num_samples + Cardinality(InFlight) <= D + Cardinality(Jobs) - 1
    /\ Cardinality(Jobs) <= refresh => (converged \/ D > num_cycles)

Stopping ==
    /\ end_run => num_samples <= LastRun /\ (Saving = {} => num_samples < LastRun)
    /\ ~end_run /\ valid => \E D \in 0 .. num_samples : StoppedAt(D)
    /\ (\E t \in Jobs : pc[t] = "done") => ~end_run
    /\ ended = "printed" => \A t \in Jobs : pc[t] = "done"

\* A command that does not exist: no sample is taken, and a thread that has seen the
\* failure makes the program exit.
NoCommand ==
    ~valid =>
        /\ num_samples = 0 /\ cols \in {-1, 0} /\ (cols = 0 => ended = "exit")
        /\ \A t \in Jobs : /\ pc[t] \in {"loop", "run", "cols", "done"}
                           /\ pc[t] = "cols" => drp[t] = << >>
        /\ ~end_run => \E t \in Jobs : pc[t] = "cols"

RunInv == Types /\ Exclusion /\ Compared /\ Estimates /\ Stopping /\ NoCommand
-----------------------------------------------------------------------------
(* Numbers of samples at which the termination condition is looked at       *)

\* Division with remainder, by refresh.
LEMMA Division ==
  ASSUME NEW n \in Nat
  PROVE  /\ n \div refresh \in Nat /\ n % refresh \in 0 .. refresh - 1
         /\ n = Check(n) + (n % refresh) /\ Check(n) \in Nat
<1>. DEFINE q == n \div refresh
<1>1. refresh \in Nat \ {0}
  BY RunAssumption
<1>2. q \in Nat /\ n % refresh \in 0 .. refresh - 1 /\ n = refresh * q + (n % refresh)
  BY <1>1
<1>3. refresh * q = q * refresh /\ q * refresh \in Nat
  BY <1>1, <1>2
<1>4. QED
  BY <1>2, <1>3 DEF Check

LEMMA CheckBelow ==
  ASSUME NEW n \in Nat
  PROVE  Check(n) \in Nat /\ Check(n) <= n
<1>. DEFINE m == n % refresh
<1>1. refresh \in Nat \ {0} /\ m \in 0 .. refresh - 1 /\ n = Check(n) + m /\ Check(n) \in Nat
  BY Division, RunAssumption
<1>. HIDE DEF m
<1>2. QED
  BY <1>1

\* The multiple of refresh that a number follows at less than refresh is its Check.
LEMMA CheckUnique ==
  ASSUME NEW n \in Nat, NEW q \in Nat, q * refresh <= n, n < q * refresh + refresh
  PROVE  Check(n) = q * refresh
<1>. DEFINE p == n \div refresh
<1>1. refresh \in Nat \ {0}
  BY RunAssumption
<1>2. p \in Nat /\ p * refresh <= n /\ n < p * refresh + refresh
  BY <1>1, Division DEF Check
<1>3. ~ (p < q)
  <2>1. SUFFICES ASSUME p + 1 <= q PROVE FALSE
    BY <1>2
  <2>2. (p + 1) * refresh <= q * refresh
    BY <1>1, <1>2, <2>1
  <2>3. (p + 1) * refresh = p * refresh + refresh
    BY <1>1, <1>2
  <2>4. QED
    BY <1>1, <1>2, <2>2, <2>3
<1>4. ~ (q < p)
  <2>1. SUFFICES ASSUME q + 1 <= p PROVE FALSE
    BY <1>2
  <2>2. (q + 1) * refresh <= p * refresh
    BY <1>1, <1>2, <2>1
  <2>3. (q + 1) * refresh = q * refresh + refresh
    BY <1>1
  <2>4. QED
    BY <1>1, <1>2, <2>2, <2>3
<1>5. p = q
  BY <1>2, <1>3, <1>4
<1>6. QED
  BY <1>5 DEF Check

\* A number without remainder is its own Check, and of the number before it the Check
\* is one refresh less; otherwise both have the same.
LEMMA CheckOfPredecessor ==
  ASSUME NEW n \in Nat
  PROVE  /\ n % refresh = 0 => Check(n) = n
         /\ n > 0 /\ n % refresh = 0 => n - refresh \in Nat /\ Check(n - 1) = n - refresh
         /\ n > 0 /\ n % refresh # 0 => Check(n - 1) = Check(n)
<1>1. refresh \in Nat \ {0}
  BY RunAssumption
<1>2. n % refresh = 0 => Check(n) = n
  BY Division
<1>3. ASSUME n > 0, n % refresh = 0
      PROVE  n - refresh \in Nat /\ Check(n - 1) = n - refresh
  <2>. DEFINE p == n \div refresh
  <2>1. n = p * refresh /\ p \in Nat
    BY <1>2, <1>3, Division DEF Check
  <2>2. p # 0
    BY <1>1, <1>3, <2>1
  <2>3. p - 1 \in Nat /\ (p - 1) * refresh = n - refresh /\ (p - 1) * refresh \in Nat
    BY <1>1, <2>1, <2>2
  <2>. HIDE DEF p
  <2>4. Check(n - 1) = (p - 1) * refresh
    BY <1>1, <1>3, <2>3, CheckUnique
  <2>5. QED
    BY <2>3, <2>4
<1>4. ASSUME n > 0, n % refresh # 0
      PROVE  Check(n - 1) = Check(n)
  <2>. DEFINE p == n \div refresh
  <2>1. p \in Nat /\ Check(n) = p * refresh
    BY Division DEF Check
  <2>2. p * refresh <= n - 1 /\ n - 1 < p * refresh + refresh
    BY <1>1, <1>4, <2>1, Division
  <2>3. QED
    BY <1>4, <2>1, <2>2, CheckUnique
<1>5. QED
  BY <1>2, <1>3, <1>4

\* Check does not decrease.
LEMMA CheckMonotone ==
  ASSUME NEW m \in Nat, NEW n \in Nat, m <= n
  PROVE  Check(m) <= Check(n)
<1>. DEFINE p == m \div refresh
            q == n \div refresh
<1>1. refresh \in Nat \ {0}
  BY RunAssumption
<1>2. p \in Nat /\ q \in Nat /\ p * refresh <= m /\ n < q * refresh + refresh
  BY <1>1, Division DEF Check
<1>3. p <= q
  <2>1. SUFFICES ASSUME q + 1 <= p PROVE FALSE
    BY <1>2
  <2>2. (q + 1) * refresh <= p * refresh
    BY <1>1, <1>2, <2>1
  <2>3. (q + 1) * refresh = q * refresh + refresh
    BY <1>1, <1>2
  <2>4. QED
    BY <1>1, <1>2, <2>2, <2>3
<1>4. p * refresh <= q * refresh
  BY <1>1, <1>2, <1>3
<1>5. QED
  BY <1>4 DEF Check

\* Between a Check and the next one there is none.
LEMMA CheckBetween ==
  ASSUME NEW d \in Nat, Check(d) = d, NEW n \in Nat, d <= n, n < d + refresh
  PROVE  Check(n) = d /\ (d < n => n % refresh # 0)
<1>1. d \div refresh \in Nat /\ (d \div refresh) * refresh = d
  BY Division DEF Check
<1>2. Check(n) = d
  BY <1>1, CheckUnique
<1>3. QED
  BY <1>2, CheckOfPredecessor

\* The number that no run begins after is the first Check beyond both limits.
LEMMA LastRunIsACheck ==
  /\ LastRun \in Nat /\ LastRun % refresh = 0
  /\ LastRun > min_runs /\ LastRun > num_cycles
<1>. DEFINE m == IF min_runs > num_cycles THEN min_runs ELSE num_cycles
            q == m \div refresh
<1>1. refresh \in Nat \ {0} /\ m \in Nat /\ m >= min_runs /\ m >= num_cycles
  BY RunAssumption
<1>. HIDE DEF m
<1>2. q \in Nat /\ q * refresh <= m /\ m < q * refresh + refresh
  BY <1>1, Division DEF Check
<1>3. LastRun = (q + 1) * refresh
  BY DEF LastRun, m
<1>4. (q + 1) * refresh = q * refresh + refresh /\ (q + 1) * refresh \in Nat
  BY <1>1, <1>2
<1>5. LastRun \in Nat /\ LastRun > m
  BY <1>1, <1>2, <1>3, <1>4
<1>6. Check(LastRun) = LastRun
  BY <1>1, <1>2, <1>3, <1>5, CheckUnique
<1>7. LastRun % refresh = 0
  BY <1>1, <1>5, <1>6, Division
<1>8. QED
  BY <1>1, <1>5, <1>7, RunAssumption

-----------------------------------------------------------------------------
(* Types                                                                   *)

\* A value is added to a tree of samples as a node of its own.
LEMMA InsertSortType ==
  ASSUME NEW tree \in Seq(Node), NEW v \in Nat
  PROVE  InsertSort(tree, v) \in Seq(Node)
<1>. DEFINE new == Len(tree) + 1
            passed(n) ==
              IF n \notin Path(tree, v) THEN tree[n]
              ELSE IF GoesLeft(v, tree[n])
                   THEN [tree[n] EXCEPT !.count = @ + 1, !.lp = IF @ = NULL THEN new ELSE @]
                   ELSE [tree[n] EXCEPT !.rp = IF @ = NULL THEN new ELSE @]
            last == [data_val |-> v, lp |-> NULL, rp |-> NULL, count |-> 0]
            old == [n \in DOMAIN tree |-> passed(n)]
<1>1. new \in Nat /\ Len(tree) \in Nat /\ DOMAIN tree = 1 .. Len(tree)
  OBVIOUS
<1>2. ASSUME NEW n \in DOMAIN tree PROVE passed(n) \in Node
  <2>1. tree[n] \in Node
    OBVIOUS
  <2>2. [tree[n] EXCEPT !.count = @ + 1, !.lp = IF @ = NULL THEN new ELSE @] \in Node
    <3>1. tree[n].count + 1 \in Nat /\ (IF tree[n].lp = NULL THEN new ELSE tree[n].lp) \in Nat
      BY <1>1, <2>1 DEF Node
    <3>2. QED
      BY <2>1, <3>1 DEF Node
  <2>3. [tree[n] EXCEPT !.rp = IF @ = NULL THEN new ELSE @] \in Node
    BY <1>1, <2>1 DEF Node
  <2>4. QED
    BY <2>1, <2>2, <2>3
<1>3. last \in Node
  BY DEF Node, NULL
<1>4. InsertSort(tree, v) = Append(old, last)
  BY DEF InsertSort
<1>. HIDE DEF passed, last
<1>5. old \in Seq(Node)
  BY <1>1, <1>2
<1>6. QED
  BY <1>3, <1>4, <1>5

LEMMA TypesInit == Init => Types
<1>. SUFFICES ASSUME Init PROVE Types
  OBVIOUS
<1>1. valid \in BOOLEAN /\ needs \in [1 .. MAX_OUTPUT -> Nat]
  BY RunAssumption DEF Init
<1>2. cols \in -1 .. MAX_OUTPUT
  BY RunAssumption DEF Init
<1>3. << >> \in Seq(Nat) /\ << >> \in Seq(Node) /\ << >> \in Seq(Seq(Nat))
  OBVIOUS
<1>4. QED
  BY <1>1, <1>2, <1>3 DEF Init, Types, Label

LEMMA TypesStep == Types /\ Compared /\ [Next]_vars => Types'
<1>. SUFFICES ASSUME Types, Compared, [Next]_vars PROVE Types'
  OBVIOUS
<1>. USE DEF Types
<1>1. ASSUME NEW t \in Jobs, Loop(t) PROVE Types'
  BY <1>1 DEF Loop, Goto, Label, config, thread, stats, estimate
<1>2. ASSUME NEW t \in Jobs, Simulate(t) PROVE Types'
  <2>1. drp' \in [Jobs -> Seq(Nat)] /\ pc' \in [Jobs -> Label]
    <3>1. PICK out \in Outputs :
            /\ drp' = [drp EXCEPT ![t] = out]
            /\ pc' = [pc EXCEPT ![t] = IF Len(out) # cols THEN "cols" ELSE "save"]
      BY <1>2 DEF Simulate, Goto
    <3>2. out \in Seq(Nat)
      BY RunAssumption
    <3>3. (IF Len(out) # cols THEN "cols" ELSE "save") \in Label
      BY DEF Label
    <3> QED
      BY <3>1, <3>2, <3>3
  <2>2. UNCHANGED <<config, i, mutex, end_run, cols, num_samples, c_index, c_value,
                    stats, estimate, ended, taken>>
    BY <1>2 DEF Simulate
  <2> QED
    BY <2>1, <2>2 DEF config, stats, estimate
<1>3. ASSUME NEW t \in Jobs, ExecFails(t) PROVE Types'
  <2>1. << >> \in Seq(Nat)
    OBVIOUS
  <2>2. drp' \in [Jobs -> Seq(Nat)] /\ pc' \in [Jobs -> Label] /\ end_run' \in BOOLEAN
    BY <1>3, <2>1 DEF ExecFails, Goto, Label
  <2>3. QED
    BY <1>3, <2>2 DEF ExecFails, config, thread, stats, estimate
<1>4. ASSUME NEW t \in Jobs, Columns(t) PROVE Types'
  <2>1. cols' \in -1 .. MAX_OUTPUT
    BY <1>4 DEF Columns, Compared
  <2>2. pc' \in [Jobs -> Label] /\ ended' \in {"no", "printed", "quit", "exit"}
    BY <1>4 DEF Columns, Goto, Label
  <2>3. QED
    BY <1>4, <2>1, <2>2 DEF Columns, config, thread, stats, estimate
<1>5. ASSUME NEW t \in Jobs, SaveData(t) PROVE Types'
  BY <1>5 DEF SaveData, Goto, Label, config, thread, stats, estimate
<1>6. ASSUME NEW t \in Jobs, Value(t) PROVE Types'
  <2>1. Len(drp[t]) = cols
    BY <1>6 DEF Value, Compared, Saving
  <2>2. c_index + 1 \in 1 .. Len(drp[t]) /\ drp[t] \in Seq(Nat)
    BY <1>6, <2>1 DEF Value
  <2>3. c_value' \in Nat
    BY <1>6, <2>2 DEF Value
  <2>4. QED
    BY <1>6, <2>3 DEF Value, Goto, Label, config, thread, stats, estimate
<1>7. ASSUME NEW t \in Jobs, InsertValue(t) PROVE Types'
  <2>. DEFINE c == c_index + 1
  <2>1. c \in 1 .. MAX_OUTPUT /\ InsertSort(data_sort[c], c_value) \in Seq(Node)
    BY <1>7, InsertSortType DEF InsertValue
  <2>2. sum_total' = [sum_total EXCEPT ![c] = @ + c_value]
        /\ data_sort' = [data_sort EXCEPT ![c] = InsertSort(@, c_value)]
    BY <1>7 DEF InsertValue
  <2>. HIDE DEF c
  <2>3. sum_total[c] \in Nat /\ sum_total[c] + c_value \in Nat
    <3>1. c \in 1 .. MAX_OUTPUT /\ sum_total \in [1 .. MAX_OUTPUT -> Nat] /\ c_value \in Nat
      BY <2>1
    <3>2. sum_total[c] \in Nat
      BY <3>1
    <3>3. QED
      BY <3>1, <3>2
  <2>4. sum_total' \in [1 .. MAX_OUTPUT -> Nat]
        /\ data_sort' \in [1 .. MAX_OUTPUT -> Seq(Node)]
    BY <2>1, <2>2, <2>3
  <2>5. QED
    BY <1>7, <2>4 DEF InsertValue, Goto, Label, config, thread, stats, estimate
<1>8. ASSUME NEW t \in Jobs, Finish(t) PROVE Types'
  BY <1>8 DEF Finish, Release, Goto, Label, config, thread, stats, estimate
<1>9. ASSUME NEW t \in Jobs, UpdateStats(t) PROVE Types'
  <2>. DEFINE c == i[t] + 1
  <2>1. c \in Nat /\ i' = [i EXCEPT ![t] = c]
    BY <1>9 DEF UpdateStats
  <2>2. estimated' = [estimated EXCEPT ![c] = num_samples] \/ estimated' = estimated
    BY <1>9 DEF UpdateStats
  <2>. HIDE DEF c
  <2>3. i' \in [Jobs -> Nat] /\ estimated' \in [1 .. MAX_OUTPUT -> Nat]
    BY <2>1, <2>2
  <2>4. QED
    BY <1>9, <2>3 DEF UpdateStats, config, thread, stats, estimate
<1>10. ASSUME NEW t \in Jobs, Decide(t) PROVE Types'
  BY <1>10 DEF Decide, Release, Goto, Label, config, thread, stats, estimate
<1>11. CASE SigQuit
  BY <1>11 DEF SigQuit, config, thread, stats, estimate
<1>12. CASE OutputResults
  BY <1>12 DEF OutputResults, config, thread, stats, estimate
<1>13. CASE UNCHANGED vars
  BY <1>13 DEF vars, config, thread, stats, estimate
<1>14. QED
  BY <1>1, <1>2, <1>3, <1>4, <1>5, <1>6, <1>7, <1>8, <1>9, <1>10, <1>11, <1>12, <1>13
     DEF Next, SchedRun

-----------------------------------------------------------------------------
(* Who saves, and who still will                                           *)

\* A thread that goes from one place to another changes these two sets by itself.
LEMMA SavingStep ==
  ASSUME Types, NEW t \in Jobs, NEW l \in Label, Goto(t, l)
  PROVE  /\ l \in {"value", "insert", "update"} => Saving' = Saving \cup {t}
         /\ l \notin {"value", "insert", "update"} => Saving' = Saving \ {t}
BY DEF Types, Goto, Saving

LEMMA InFlightCounted ==
  ASSUME Types
  PROVE  /\ IsFiniteSet(InFlight) /\ Cardinality(InFlight) \in Nat
         /\ Cardinality(Jobs) \in Nat \ {0} /\ Cardinality(InFlight) <= Cardinality(Jobs)
<1>1. IsFiniteSet(Jobs) /\ Cardinality(Jobs) \in Nat /\ Cardinality(Jobs) # 0
  BY RunAssumption, FS_CardinalityType, FS_EmptySet
<1>2. InFlight \in SUBSET Jobs
  BY DEF InFlight
<1>3. QED
  BY <1>1, <1>2, FS_Subset, FS_CardinalityType

LEMMA InFlightStep ==
  ASSUME Types, NEW t \in Jobs, NEW l \in Label, Goto(t, l)
  PROVE  /\ t \in InFlight /\ l \in {"run", "cols", "save"} => InFlight' = InFlight
         /\ t \notin InFlight /\ l \notin {"run", "cols", "save"} => InFlight' = InFlight
         /\ t \in InFlight /\ l \notin {"run", "cols", "save"} =>
               Cardinality(InFlight') = Cardinality(InFlight) - 1
         /\ t \notin InFlight => Cardinality(InFlight) <= Cardinality(Jobs) - 1
<1>1. t \in InFlight /\ l \in {"run", "cols", "save"} => InFlight' = InFlight
  BY DEF Types, Goto, InFlight
<1>2. t \notin InFlight /\ l \notin {"run", "cols", "save"} => InFlight' = InFlight
  BY DEF Types, Goto, InFlight
<1>3. ASSUME t \in InFlight, l \notin {"run", "cols", "save"}
      PROVE  Cardinality(InFlight') = Cardinality(InFlight) - 1
  <2>1. InFlight' = InFlight \ {t}
    BY <1>3 DEF Types, Goto, InFlight
  <2>2. IsFiniteSet(InFlight)
    BY InFlightCounted
  <2>3. QED
    BY <1>3, <2>1, <2>2, FS_RemoveElement
<1>4. ASSUME t \notin InFlight
      PROVE  Cardinality(InFlight) <= Cardinality(Jobs) - 1
  <2>1. IsFiniteSet(Jobs) /\ InFlight \in SUBSET Jobs /\ InFlight # Jobs
    BY <1>4, RunAssumption DEF InFlight
  <2>2. Cardinality(InFlight) <= Cardinality(Jobs) /\ Cardinality(InFlight) # Cardinality(Jobs)
    BY <2>1, FS_Subset
  <2>3. QED
    BY <2>2, InFlightCounted
<1>5. QED
  BY <1>1, <1>2, <1>3, <1>4

LEMMA ExclusionStep == Types /\ Exclusion /\ [Next]_vars => Exclusion'
<1>. SUFFICES ASSUME Types, Exclusion, [Next]_vars PROVE Exclusion'
  OBVIOUS
<1>1. ASSUME NEW t \in Jobs, NEW l \in Label, Goto(t, l), UNCHANGED mutex,
             t \in Saving <=> l \in {"value", "insert", "update"}
      PROVE  Exclusion'
  <2>1. Saving' = Saving
    BY <1>1, SavingStep
  <2>2. QED
    BY <1>1, <2>1 DEF Exclusion
<1>2. ASSUME NEW t \in Jobs, NEW l \in Label, Goto(t, l), mutex' = mutex \ {t},
             l \notin {"value", "insert", "update"}
      PROVE  Exclusion'
  <2>1. Saving' = Saving \ {t}
    BY <1>2, SavingStep
  <2>2. QED
    BY <1>2, <2>1 DEF Exclusion
<1>3. ASSUME NEW t \in Jobs, Loop(t) PROVE Exclusion'
  BY <1>1, <1>3 DEF Loop, Label, Saving
<1>4. ASSUME NEW t \in Jobs, Simulate(t) PROVE Exclusion'
  BY <1>1, <1>4 DEF Simulate, Label, Saving
<1>5. ASSUME NEW t \in Jobs, ExecFails(t) PROVE Exclusion'
  BY <1>1, <1>5 DEF ExecFails, Label, Saving
<1>6. ASSUME NEW t \in Jobs, Columns(t) PROVE Exclusion'
  <2>1. CASE UNCHANGED pc
    BY <1>6, <2>1 DEF Columns, Exclusion, Saving
  <2>2. CASE Goto(t, "save")
    BY <1>1, <1>6, <2>2 DEF Columns, Label, Saving
  <2>3. QED
    BY <1>6, <2>1, <2>2 DEF Columns
<1>7. ASSUME NEW t \in Jobs, SaveData(t) PROVE Exclusion'
  <2>1. mutex = {} /\ Saving = {} /\ mutex' = {t}
    BY <1>7 DEF SaveData, Enters, Exclusion
  <2>2. Saving' = {t}
    BY <1>7, <2>1, SavingStep DEF SaveData, Label
  <2>3. QED
    BY <2>1, <2>2 DEF Exclusion
<1>8. ASSUME NEW t \in Jobs, Value(t) PROVE Exclusion'
  BY <1>1, <1>8 DEF Value, Label, Saving
<1>9. ASSUME NEW t \in Jobs, InsertValue(t) PROVE Exclusion'
  BY <1>1, <1>9 DEF InsertValue, Label, Saving
<1>10. ASSUME NEW t \in Jobs, Finish(t) PROVE Exclusion'
  BY <1>1, <1>2, <1>10 DEF Finish, Release, Label, Saving
<1>11. ASSUME NEW t \in Jobs, UpdateStats(t) PROVE Exclusion'
  BY <1>11 DEF UpdateStats, Exclusion, Saving
<1>12. ASSUME NEW t \in Jobs, Decide(t) PROVE Exclusion'
  BY <1>2, <1>12 DEF Decide, Release, Label
<1>13. CASE SigQuit \/ OutputResults
  BY <1>13 DEF SigQuit, OutputResults, thread, Exclusion, Saving
<1>14. CASE UNCHANGED vars
  BY <1>14 DEF vars, thread, Exclusion, Saving
<1>15. QED
  BY <1>3, <1>4, <1>5, <1>6, <1>7, <1>8, <1>9, <1>10, <1>11, <1>12, <1>13, <1>14
     DEF Next, SchedRun

LEMMA ComparedStep == Types /\ Exclusion /\ Compared /\ [Next]_vars => Compared'
<1>. SUFFICES ASSUME Types, Exclusion, Compared, [Next]_vars PROVE Compared'
  OBVIOUS
<1>. USE DEF Compared, Saving
<1>1. ASSUME NEW t \in Jobs, Loop(t) PROVE Compared'
  BY <1>1 DEF Loop, Goto, Types, estimate
<1>2. ASSUME NEW t \in Jobs, Simulate(t) PROVE Compared'
  BY <1>2, RunAssumption DEF Simulate, Goto, Types, estimate
<1>3. ASSUME NEW t \in Jobs, ExecFails(t) PROVE Compared'
  <2>1. Len(<< >>) = 0 /\ MAX_OUTPUT \in Nat
    BY RunAssumption
  <2>2. QED
    BY <1>3, <2>1 DEF ExecFails, Goto, Types, estimate
<1>4. ASSUME NEW t \in Jobs, Columns(t) PROVE Compared'
  <2>1. cols = -1 \/ cols' = cols
    BY <1>4 DEF Columns
  <2>2. Len(drp[t]) \in Nat /\ drp' = drp /\ UNCHANGED <<num_samples, estimated>>
    BY <1>4 DEF Columns, Types, estimate
  <2>3. \A u \in Jobs : (pc[u] = "save" \/ u \in Saving) => cols = Len(drp[u]) /\ cols # -1
    BY DEF Types
  <2>4. CASE UNCHANGED pc
    BY <1>4, <2>1, <2>2, <2>3, <2>4
  <2>5. CASE Goto(t, "save")
    BY <1>4, <2>1, <2>2, <2>3, <2>5 DEF Columns, Goto, Types
  <2>6. QED
    BY <1>4, <2>4, <2>5 DEF Columns
<1>5. ASSUME NEW t \in Jobs, SaveData(t) PROVE Compared'
  <2>1. cols = Len(drp[t]) /\ cols # -1
    BY <1>5 DEF SaveData, Types
  <2>2. QED
    BY <1>5, <2>1 DEF SaveData, Goto, Types
<1>6. ASSUME NEW t \in Jobs, Value(t) PROVE Compared'
  BY <1>6 DEF Value, Goto, Types, estimate
<1>7. ASSUME NEW t \in Jobs, InsertValue(t) PROVE Compared'
  BY <1>7 DEF InsertValue, Goto, Types, estimate
<1>8. ASSUME NEW t \in Jobs, Finish(t) PROVE Compared'
  BY <1>8 DEF Finish, Goto, Types, estimate
<1>9. ASSUME NEW t \in Jobs, UpdateStats(t) PROVE Compared'
  <2>1. cols = Len(drp[t]) /\ cols # -1
    BY <1>9 DEF UpdateStats, Types
  <2>2. QED
    BY <1>9, <2>1 DEF UpdateStats
<1>10. ASSUME NEW t \in Jobs, Decide(t) PROVE Compared'
  BY <1>10 DEF Decide, Goto, Types
<1>11. CASE SigQuit \/ OutputResults
  BY <1>11 DEF SigQuit, OutputResults, thread, estimate
<1>12. CASE UNCHANGED vars
  BY <1>12 DEF vars, thread, estimate
<1>13. QED
  BY <1>1, <1>2, <1>3, <1>4, <1>5, <1>6, <1>7, <1>8, <1>9, <1>10, <1>11, <1>12
     DEF Next, SchedRun

-----------------------------------------------------------------------------
(* The estimates                                                           *)

\* The configuration is never changed.
LEMMA ConfigKept == [Next]_vars => UNCHANGED config
BY DEF Next, SchedRun, vars, Loop, Simulate, ExecFails, Columns, SaveData, Value, InsertValue,
       Finish, UpdateStats, Decide, SigQuit, OutputResults

LEMMA EstimatesStep ==
  Types /\ Exclusion /\ Compared /\ Estimates /\ [Next]_vars => Estimates'
<1>. SUFFICES ASSUME Types, Exclusion, Compared, Estimates, [Next]_vars PROVE Estimates'
  OBVIOUS
<1>. DEFINE rests(c, n) == estimated[c] = Seen(c, n)
            none == {"loop", "run", "cols", "save", "done"}
<1>0. refresh \in Nat \ {0} /\ min_runs \in Nat /\ needs \in [1 .. MAX_OUTPUT -> Nat]
  BY RunAssumption DEF Types
<1>1. ASSUME NEW t \in Jobs, NEW l \in Label, Goto(t, l),
             UNCHANGED <<config, i, cols, num_samples, estimated>>,
             \/ pc[t] \in none /\ l \in none
             \/ pc[t] \in {"value", "insert"} /\ l \in {"value", "insert"}
      PROVE  Estimates'
  <2>1. Saving' = {} => Saving = {}
    BY <1>1, SavingStep DEF Saving
  <2>2. \A u \in Jobs : /\ (pc'[u] = "update") <=> (pc[u] = "update")
                        /\ (pc'[u] \in {"value", "insert"}) <=> (pc[u] \in {"value", "insert"})
    BY <1>1 DEF Goto, Types
  <2>3. QED
    BY <1>1, <2>1, <2>2 DEF Estimates, Seen, config
<1>2. ASSUME NEW t \in Jobs, Loop(t) PROVE Estimates'
  BY <1>1, <1>2 DEF Loop, Label, estimate
<1>3. ASSUME NEW t \in Jobs, Simulate(t) PROVE Estimates'
  BY <1>1, <1>3 DEF Simulate, Label, estimate
<1>4. ASSUME NEW t \in Jobs, ExecFails(t) PROVE Estimates'
  BY <1>1, <1>4 DEF ExecFails, Label, estimate
<1>5. ASSUME NEW t \in Jobs, Columns(t) PROVE Estimates'
  <2>1. UNCHANGED <<config, i, num_samples, estimated>> /\ Saving = {}
    BY <1>5 DEF Columns, estimate, Enters, Exclusion
  <2>2. Saving' = {} /\ \A u \in Jobs : pc'[u] \notin {"value", "insert", "update"}
    BY <1>5, <2>1 DEF Columns, Goto, Types, Saving
  <2>3. \A c \in 1 .. MAX_OUTPUT : (c <= cols') => estimated[c] = Seen(c, Check(num_samples))
    <3>1. CASE cols = -1
      <4>1. num_samples = 0 /\ \A c \in 1 .. MAX_OUTPUT : estimated[c] = 0
        BY <3>1 DEF Compared
      <4>2. Check(0) = 0
        BY <1>0 DEF Check
      <4>3. QED
        BY <1>0, <4>1, <4>2 DEF Seen
    <3>2. CASE cols' = cols
      BY <2>1, <3>2 DEF Estimates
    <3>3. QED
      BY <1>5, <3>1, <3>2 DEF Columns
  <2>4. \A u \in Jobs : i[u] = 0
    BY <2>1 DEF Estimates, Saving
  <2>5. QED
    BY <2>1, <2>2, <2>3, <2>4 DEF Estimates, Seen, config
<1>6. ASSUME NEW t \in Jobs, SaveData(t) PROVE Estimates'
  <2>1. Saving = {} /\ num_samples' = num_samples + 1 /\ num_samples' - 1 = num_samples
    BY <1>6 DEF SaveData, Enters, Exclusion, Types
  <2>2. \A u \in Jobs : i'[u] = 0 /\ pc'[u] # "update"
    BY <1>6, <2>1 DEF SaveData, Goto, Types, Estimates, Saving
  <2>3. \A c \in 1 .. MAX_OUTPUT : (c <= cols) => estimated[c] = Seen(c, Check(num_samples' - 1))
    BY <2>1 DEF Estimates
  <2>4. t \in Saving'
    BY <1>6 DEF SaveData, Goto, Types, Saving
  <2>5. QED
    BY <1>6, <2>1, <2>2, <2>3, <2>4 DEF SaveData, Estimates, Seen, config, estimate, Types
<1>7. ASSUME NEW t \in Jobs, Value(t) PROVE Estimates'
  BY <1>1, <1>7 DEF Value, Label, estimate
<1>8. ASSUME NEW t \in Jobs, InsertValue(t) PROVE Estimates'
  BY <1>1, <1>8 DEF InsertValue, Label, estimate
<1>9. ASSUME NEW t \in Jobs, Finish(t) PROVE Estimates'
  <2>. DEFINE looks == num_samples % refresh = 0 /\ num_samples > min_runs
  <2>1. /\ t \in Saving /\ UNCHANGED <<config, i, cols, num_samples, estimated>>
        /\ num_samples \in Nat \ {0} /\ i[t] = 0 /\ cols \in Nat
        /\ \A c \in 1 .. MAX_OUTPUT : (c <= cols) => rests(c, Check(num_samples - 1))
    BY <1>9 DEF Finish, estimate, Saving, Estimates, Types, Compared
  <2>2. \A u \in Jobs \ {t} : pc'[u] = pc[u] /\ pc'[u] \in none
    BY <1>9, <2>1 DEF Finish, Goto, Types, Exclusion, Saving, Label
  <2>3. CASE looks
    <3>1. num_samples - refresh = Check(num_samples - 1)
      BY <2>1, <2>3, CheckOfPredecessor
    <3>2. pc'[t] = "update" /\ t \in Saving'
      BY <1>9, <2>3 DEF Finish, Goto, Types, Saving
    <3>3. \A c \in 1 .. MAX_OUTPUT : (c <= cols) => rests(c, num_samples - refresh)
      BY <2>1, <3>1
    <3>4. QED
      BY <2>1, <2>2, <2>3, <3>2, <3>3 DEF Estimates, Seen, config
  <2>4. CASE ~looks
    <3>1. pc'[t] = "loop" /\ Saving' = {}
      BY <1>9, <2>2, <2>4 DEF Finish, Goto, Types, Saving
    <3>2. \A c \in 1 .. MAX_OUTPUT : Seen(c, Check(num_samples - 1)) = Seen(c, Check(num_samples))
      <4>1. CASE num_samples % refresh # 0
        BY <2>1, <4>1, CheckOfPredecessor
      <4>2. CASE num_samples <= min_runs
        <5>1. Check(num_samples) <= num_samples /\ Check(num_samples - 1) <= num_samples - 1
              /\ Check(num_samples) \in Nat /\ Check(num_samples - 1) \in Nat
          <6>1. num_samples - 1 \in Nat
            BY <2>1
          <6>2. \A n \in Nat : Check(n) <= n /\ Check(n) \in Nat
            BY CheckBelow
          <6>3. QED
            BY <2>1, <6>1, <6>2
        <5>2. QED
          BY <1>0, <2>1, <4>2, <5>1 DEF Seen
      <4>3. QED
        BY <1>0, <2>1, <2>4, <4>1, <4>2
    <3>3. \A c \in 1 .. MAX_OUTPUT : (c <= cols) => rests(c, Check(num_samples))
      BY <2>1, <3>2
    <3>4. QED
      BY <2>1, <2>2, <3>1, <3>3 DEF Estimates, Seen, config
  <2>5. QED
    BY <2>3, <2>4
<1>10. ASSUME NEW t \in Jobs, UpdateStats(t) PROVE Estimates'
  <2>. DEFINE k == i[t] + 1
  <2>1. /\ t \in Saving /\ pc[t] = "update" /\ UNCHANGED <<config, pc, cols, num_samples>>
        /\ i[t] \in Nat /\ k \in 1 .. MAX_OUTPUT /\ k <= cols /\ i' = [i EXCEPT ![t] = k]
        /\ estimated' = IF num_samples > needs[k] THEN [estimated EXCEPT ![k] = num_samples]
                                                  ELSE estimated
        /\ num_samples % refresh = 0 /\ num_samples > min_runs /\ num_samples \in Nat
    <3>1. pc[t] = "update" /\ i[t] \in Nat /\ i[t] < cols /\ cols \in -1 .. MAX_OUTPUT
      BY <1>10 DEF UpdateStats, MoreColumns, Types
    <3>2. k \in 1 .. MAX_OUTPUT /\ k <= cols
      BY <3>1, RunAssumption
    <3>3. num_samples % refresh = 0 /\ num_samples > min_runs /\ num_samples \in Nat
      BY <3>1 DEF Estimates, Types
    <3>4. QED
      BY <1>10, <3>1, <3>2, <3>3 DEF UpdateStats, Saving
  <2>2. /\ \A c \in 1 .. MAX_OUTPUT : c <= i[t] => rests(c, num_samples)
        /\ \A c \in 1 .. MAX_OUTPUT : (i[t] < c /\ c <= cols) => rests(c, num_samples - refresh)
    <3>1. \A c \in 1 .. MAX_OUTPUT : (c <= cols) =>
             estimated[c] = Seen(c, IF c <= i[t] THEN num_samples ELSE num_samples - refresh)
      BY <2>1 DEF Estimates
    <3>2. i[t] < cols /\ cols \in -1 .. MAX_OUTPUT
      BY <2>1 DEF Types
    <3>3. QED
      BY <2>1, <3>1, <3>2, RunAssumption
  <2>3. num_samples - refresh \in Nat /\ num_samples - refresh < num_samples
    BY <1>0, <2>1, CheckOfPredecessor
  <2>4. /\ \A c \in 1 .. MAX_OUTPUT : (c # k) => estimated'[c] = estimated[c]
        /\ num_samples > needs[k] => estimated'[k] = num_samples
        /\ num_samples <= needs[k] => estimated'[k] = estimated[k]
    BY <1>0, <2>1 DEF Types
  <2>5. estimated'[k] = Seen(k, num_samples)
    <3>1. CASE num_samples > needs[k]
      BY <1>0, <2>1, <2>4, <3>1 DEF Seen
    <3>2. CASE num_samples <= needs[k]
      BY <1>0, <2>1, <2>2, <2>3, <2>4, <3>2 DEF Seen
    <3>3. QED
      BY <1>0, <2>1, <3>1, <3>2
  <2>. HIDE DEF k
  <2>6. i'[t] = k /\ \A u \in Jobs \ {t} : i'[u] = i[u] /\ pc[u] \in none
    BY <2>1 DEF Types, Exclusion, Saving, Label
  <2>7. \A c \in 1 .. MAX_OUTPUT : (c <= cols) =>
           estimated'[c] = Seen(c, IF c <= k THEN num_samples ELSE num_samples - refresh)
    BY <2>1, <2>2, <2>4, <2>5 DEF k
  <2>8. t \in Saving'
    BY <2>1 DEF Saving
  <2>9. QED
    BY <2>1, <2>6, <2>7, <2>8 DEF Estimates, Seen, config
<1>11. ASSUME NEW t \in Jobs, Decide(t) PROVE Estimates'
  <2>1. /\ t \in Saving /\ pc[t] = "update" /\ UNCHANGED <<config, cols, num_samples, estimated>>
        /\ i[t] \in Nat /\ cols <= i[t] /\ num_samples % refresh = 0 /\ num_samples \in Nat
        /\ i' = [i EXCEPT ![t] = 0] /\ Goto(t, "loop")
    BY <1>11 DEF Decide, MoreColumns, Saving, Estimates, Types, config
  <2>2. Check(num_samples) = num_samples
    BY <2>1, CheckOfPredecessor
  <2>3. \A c \in 1 .. MAX_OUTPUT : (c <= cols) => rests(c, Check(num_samples))
    BY <2>1, <2>2 DEF Estimates, Types
  <2>4. pc'[t] = "loop" /\ \A u \in Jobs \ {t} : pc'[u] \in none /\ pc[u] \in none
    BY <2>1 DEF Goto, Types, Exclusion, Saving, Label
  <2>5. Saving' = {} /\ \A u \in Jobs : i'[u] = 0
    BY <2>1, <2>4 DEF Saving, Estimates, Types
  <2>6. QED
    BY <2>1, <2>3, <2>4, <2>5 DEF Estimates, Seen, config
<1>12. CASE SigQuit \/ OutputResults
  BY <1>12 DEF SigQuit, OutputResults, config, thread, estimate, Estimates, Saving, Seen
<1>13. CASE UNCHANGED vars
  BY <1>13 DEF vars, config, thread, estimate, Estimates, Saving, Seen
<1>14. QED
  BY <1>2, <1>3, <1>4, <1>5, <1>6, <1>7, <1>8, <1>9, <1>10, <1>11, <1>12, <1>13
     DEF Next, SchedRun


-----------------------------------------------------------------------------
(* The end of the run                                                      *)

LEMMA NoCommandStep ==
  Types /\ Exclusion /\ NoCommand /\ [Next]_vars => NoCommand'
<1>. SUFFICES ASSUME Types, Exclusion, NoCommand, [Next]_vars, ~valid' PROVE NoCommand'
  BY DEF NoCommand
<1>0. ~valid /\ UNCHANGED config
  BY ConfigKept DEF config
<1>. USE <1>0 DEF NoCommand, Types, config
<1>1. ASSUME NEW t \in Jobs, ended = "no", Loop(t) PROVE NoCommand'
  BY <1>1 DEF Loop, Goto
<1>2. ASSUME NEW t \in Jobs, Simulate(t) PROVE NoCommand'
  BY <1>2 DEF Simulate
<1>3. ASSUME NEW t \in Jobs, ended = "no", ExecFails(t) PROVE NoCommand'
  BY <1>3 DEF ExecFails, Goto
<1>4. ASSUME NEW t \in Jobs, ended = "no", Columns(t) PROVE NoCommand'
  <2>1. drp[t] = << >> /\ cols = -1
    BY <1>4 DEF Columns
  <2>2. cols' = 0 /\ ended' = "exit" /\ UNCHANGED pc
    BY <1>4, <2>1 DEF Columns
  <2>3. QED
    BY <1>4, <2>2 DEF Columns
<1>5. ASSUME NEW t \in Jobs, SaveData(t) \/ Value(t) \/ InsertValue(t) \/ Finish(t)
                             \/ UpdateStats(t) \/ Decide(t)
      PROVE  NoCommand'
  BY <1>5 DEF SaveData, Value, InsertValue, Finish, UpdateStats, Decide
<1>6. CASE SigQuit
  BY <1>6 DEF SigQuit, thread
<1>7. CASE OutputResults
  BY <1>7 DEF OutputResults, thread
<1>8. CASE UNCHANGED vars
  BY <1>8 DEF vars, thread
<1>9. QED
  BY <1>1, <1>2, <1>3, <1>4, <1>5, <1>6, <1>7, <1>8 DEF Next, SchedRun

\* A decision to stop stands while a thread goes on without adding a sample.
LEMMA StoppedKept ==
  ASSUME Types, NEW t \in Jobs, NEW l \in Label, Goto(t, l),
         UNCHANGED <<num_samples, converged>>, Saving' # {} => Saving # {},
         (l \in {"run", "cols", "save"}) => t \in InFlight,
         NEW D \in 0 .. num_samples, StoppedAt(D)
  PROVE  StoppedAt(D)'
<1>1. Cardinality(InFlight) \in Nat /\ Cardinality(Jobs) \in Nat
  BY InFlightCounted
<1>2. Cardinality(InFlight') \in Int /\ Cardinality(InFlight') <= Cardinality(InFlight)
  <2>1. InFlight' = InFlight \/ Cardinality(InFlight') = Cardinality(InFlight) - 1
    BY InFlightStep
  <2>2. QED
    BY <1>1, <2>1
<1>3. num_samples + Cardinality(InFlight') <= D + Cardinality(Jobs) - 1
  BY <1>1, <1>2 DEF StoppedAt, Types
<1>4. QED
  BY <1>3 DEF StoppedAt

LEMMA StoppingStep == RunInv /\ [Next]_vars => Stopping'
<1>. SUFFICES ASSUME RunInv, [Next]_vars PROVE Stopping'
  OBVIOUS
<1>. USE DEF RunInv
<1>0. /\ LastRun \in Nat /\ num_samples \in Nat /\ UNCHANGED config /\ Types
      /\ LastRun % refresh = 0 /\ LastRun > min_runs /\ LastRun > num_cycles
  BY LastRunIsACheck, ConfigKept DEF Types
\* Steps that add no sample and do not decide.
<1>1. ASSUME NEW t \in Jobs, NEW l \in Label, Goto(t, l), ended = "no", ended' # "printed",
             UNCHANGED <<num_samples, converged, end_run>>,
             Saving' # {} => Saving # {}, end_run /\ Saving' = {} => num_samples < LastRun,
             end_run \/ ((l \in {"run", "cols", "save"}) => t \in InFlight),
             (l = "done") => ~end_run
      PROVE  Stopping'
  <2>1. ASSUME ~end_run, valid PROVE \E D \in 0 .. num_samples : StoppedAt(D)'
    <3>1. PICK D \in 0 .. num_samples : StoppedAt(D)
      BY <2>1 DEF Stopping
    <3>2. StoppedAt(D)'
      BY <1>0, <1>1, <2>1, <3>1, StoppedKept
    <3>3. QED
      BY <3>2
  <2>2. (\E u \in Jobs : pc'[u] = "done") => ~end_run
    BY <1>0, <1>1 DEF Stopping, Goto, Types
  <2>3. QED
    BY <1>0, <1>1, <2>1, <2>2 DEF Stopping, config
<1>2. ASSUME NEW t \in Jobs, ended = "no", Loop(t) PROVE Stopping'
  <2>. DEFINE l == IF end_run THEN "run" ELSE "done"
  <2>1. Saving' = Saving
    BY <1>0, <1>2, SavingStep DEF Loop, Label, Saving
  <2>2. end_run /\ Saving = {} => num_samples < LastRun
    BY DEF Stopping
  <2>3. l \in Label /\ Goto(t, l) /\ (l = "done" <=> ~end_run)
    BY <1>2 DEF Loop, Label
  <2>4. UNCHANGED <<num_samples, converged, end_run, ended>>
    BY <1>2 DEF Loop, estimate
  <2>. HIDE DEF l
  <2>5. end_run \/ l = "done"
    BY <1>0, <2>3 DEF Types
  <2>6. QED
    BY <1>1, <1>2, <2>1, <2>2, <2>3, <2>4, <2>5
<1>3. ASSUME NEW t \in Jobs, ended = "no", NEW l \in {"cols", "save"}, Goto(t, l),
             pc[t] \in {"run", "cols"}, UNCHANGED <<num_samples, converged, end_run, ended>>
      PROVE  Stopping'
  <2>1. l \in Label /\ Saving' = Saving /\ t \in InFlight
    BY <1>0, <1>3, SavingStep DEF Label, Saving, InFlight
  <2>2. end_run /\ Saving = {} => num_samples < LastRun
    BY DEF Stopping
  <2>3. QED
    BY <1>1, <1>3, <2>1, <2>2
<1>4. ASSUME NEW t \in Jobs, ended = "no", Simulate(t) PROVE Stopping'
  BY <1>3, <1>4 DEF Simulate, estimate
<1>5. ASSUME NEW t \in Jobs, ended = "no", ExecFails(t) PROVE Stopping'
  BY <1>0, <1>5 DEF ExecFails, Stopping, Goto, Types, config
<1>6. ASSUME NEW t \in Jobs, ended = "no", Columns(t) PROVE Stopping'
  <2>1. CASE Goto(t, "save") /\ ended' = ended
    BY <1>3, <1>6, <2>1 DEF Columns, estimate
  <2>2. CASE UNCHANGED pc /\ ended' = "exit"
    <3>1. UNCHANGED <<num_samples, converged, end_run, config, pc, Saving, InFlight>>
      BY <1>6, <2>2 DEF Columns, estimate, Saving, InFlight
    <3>2. QED
      BY <2>2, <3>1 DEF Stopping, StoppedAt, config
  <2>3. QED
    BY <1>6, <2>1, <2>2 DEF Columns
<1>7. ASSUME NEW t \in Jobs, ended = "no", SaveData(t) PROVE Stopping'
  <2>1. /\ Saving = {} /\ Goto(t, "value") /\ t \in InFlight
        /\ num_samples' = num_samples + 1 /\ UNCHANGED <<converged, end_run, ended>>
    BY <1>7 DEF SaveData, Enters, Exclusion, InFlight, estimate
  <2>2. Cardinality(InFlight') = Cardinality(InFlight) - 1 /\ Cardinality(InFlight) \in Nat
        /\ Cardinality(Jobs) \in Nat
    BY <1>0, <2>1, InFlightStep, InFlightCounted DEF Label
  <2>3. ASSUME ~end_run, valid PROVE \E D \in 0 .. num_samples' : StoppedAt(D)'
    <3>1. PICK D \in 0 .. num_samples : StoppedAt(D)
      BY <2>3 DEF Stopping
    <3>2. num_samples' + Cardinality(InFlight') <= D + Cardinality(Jobs) - 1
          /\ D < num_samples' /\ D \in 0 .. num_samples'
      BY <1>0, <2>1, <2>2, <3>1 DEF StoppedAt
    <3>3. StoppedAt(D)'
      BY <1>0, <2>1, <3>1, <3>2 DEF StoppedAt
    <3>4. QED
      BY <3>2, <3>3
  <2>4. t \in Saving'
    BY <1>0, <2>1 DEF Saving, Goto, Types
  <2>5. end_run => num_samples' <= LastRun
    BY <1>0, <2>1 DEF Stopping
  <2>6. (\E u \in Jobs : pc'[u] = "done") => ~end_run
    BY <1>0, <2>1 DEF Stopping, Goto, Types
  <2>7. QED
    BY <1>0, <1>7, <2>1, <2>3, <2>4, <2>5, <2>6 DEF Stopping, config
<1>8. ASSUME NEW t \in Jobs, ended = "no", NEW l \in {"value", "insert"}, Goto(t, l),
             t \in Saving, UNCHANGED <<num_samples, converged, end_run, ended>>
      PROVE  Stopping'
  <2>1. l \in Label /\ Saving' = Saving /\ Saving # {}
    BY <1>0, <1>8, SavingStep DEF Label
  <2>2. QED
    BY <1>1, <1>8, <2>1
<1>9. ASSUME NEW t \in Jobs, ended = "no", Value(t) \/ InsertValue(t) PROVE Stopping'
  BY <1>8, <1>9 DEF Value, InsertValue, Saving, estimate
<1>10. ASSUME NEW t \in Jobs, ended = "no", Finish(t) PROVE Stopping'
  <2>. DEFINE looks == num_samples % refresh = 0 /\ num_samples > min_runs
              l == IF looks THEN "update" ELSE "loop"
  <2>1. l \in Label /\ Goto(t, l) /\ t \in Saving /\ UNCHANGED <<num_samples, converged, end_run, ended>>
    BY <1>10 DEF Finish, Label, Saving, estimate
  <2>2. looks => t \in Saving'
    BY <1>0, <2>1 DEF Goto, Types, Saving
  <2>3. end_run /\ ~looks => num_samples < LastRun
    BY <1>0 DEF Stopping
  <2>4. l \in {"update", "loop"}
    OBVIOUS
  <2>. HIDE DEF l, looks
  <2>5. QED
    BY <1>1, <1>10, <2>1, <2>2, <2>3, <2>4
<1>11. ASSUME NEW t \in Jobs, ended = "no", UpdateStats(t) PROVE Stopping'
  <2>1. UNCHANGED <<num_samples, converged, end_run, ended, pc, Saving, InFlight>>
    BY <1>11 DEF UpdateStats, Saving, InFlight
  <2>2. QED
    BY <1>0, <2>1 DEF Stopping, StoppedAt, config
<1>12. ASSUME NEW t \in Jobs, ended = "no", Decide(t) PROVE Stopping'
  <2>1. /\ t \in Saving /\ t \notin InFlight /\ Goto(t, "loop") /\ valid
        /\ num_samples % refresh = 0 /\ num_samples > min_runs
        /\ UNCHANGED <<num_samples, ended>> /\ converged' \in BOOLEAN
        /\ end_run' <=> (end_run /\ ~converged' /\ num_samples <= num_cycles)
    BY <1>12 DEF Decide, Saving, InFlight, Estimates, NoCommand
  <2>2. Saving' = {}
    BY <1>0, <2>1, SavingStep DEF Exclusion, Label
  <2>3. /\ InFlight' = InFlight /\ Cardinality(InFlight) <= Cardinality(Jobs) - 1
        /\ Cardinality(InFlight) \in Nat /\ Cardinality(Jobs) \in Nat
    BY <1>0, <2>1, InFlightStep, InFlightCounted DEF Label
  <2>4. (\E u \in Jobs : pc'[u] = "done") => ~end_run'
    BY <1>0, <2>1 DEF Stopping, Goto, Types
  <2>5. CASE end_run'
    <3>1. end_run /\ num_samples <= num_cycles /\ num_cycles \in Nat
      BY <2>1, <2>5, RunAssumption
    <3>2. num_samples < LastRun
      BY <1>0, <3>1
    <3>3. QED
      BY <1>0, <1>12, <2>1, <2>4, <2>5, <3>2 DEF Stopping
  <2>6. CASE ~end_run' /\ end_run
    <3>1. converged' \/ num_samples > num_cycles
      <4>1. converged' \/ ~(num_samples <= num_cycles)
        BY <2>1, <2>6
      <4>2. num_cycles \in Nat
        BY RunAssumption
      <4>3. QED
        BY <1>0, <4>1, <4>2
    <3>2. Check(num_samples) = num_samples /\ num_samples <= LastRun
      BY <1>0, <2>1, <2>6, CheckOfPredecessor DEF Stopping
    <3>3. num_samples + Cardinality(InFlight) <= num_samples + Cardinality(Jobs) - 1
      BY <1>0, <2>3
    <3>4. StoppedAt(num_samples)'
      BY <1>0, <2>1, <2>2, <2>3, <3>1, <3>2, <3>3, RunAssumption DEF StoppedAt
    <3>5. \E D \in 0 .. num_samples' : StoppedAt(D)'
      BY <1>0, <2>1, <3>4
    <3>6. QED
      BY <1>12, <2>1, <2>4, <2>6, <3>5 DEF Stopping
  <2>7. CASE ~end_run' /\ ~end_run
    <3>1. PICK D \in 0 .. num_samples : StoppedAt(D)
      BY <2>1, <2>7 DEF Stopping
    <3>2. ~(Cardinality(Jobs) <= refresh)
      <4>1. SUFFICES ASSUME Cardinality(Jobs) <= refresh PROVE FALSE
        OBVIOUS
      <4>2. Check(D) = D /\ D < num_samples /\ num_samples < D + refresh /\ D \in Nat
        BY <1>0, <2>1, <2>3, <3>1, <4>1, RunAssumption DEF StoppedAt
      <4>3. num_samples % refresh # 0
        BY <1>0, <4>2, CheckBetween
      <4>4. QED
        BY <2>1, <4>3
    <3>3. StoppedAt(D)'
      BY <2>1, <2>2, <2>3, <3>1, <3>2 DEF StoppedAt
    <3>4. QED
      BY <1>12, <2>1, <2>4, <2>7, <3>3 DEF Stopping
  <2>8. QED
    BY <2>5, <2>6, <2>7
<1>13. CASE SigQuit \/ OutputResults
  <2>1. UNCHANGED <<num_samples, converged, end_run, config, pc, Saving, InFlight>>
        /\ (ended' = "printed" => \A t \in Jobs : pc[t] = "done")
    BY <1>13 DEF SigQuit, OutputResults, thread, estimate, Saving, InFlight
  <2>2. QED
    BY <2>1 DEF Stopping, StoppedAt, config
<1>14. CASE UNCHANGED vars
  <2>1. UNCHANGED <<num_samples, converged, end_run, config, pc, ended, Saving, InFlight>>
    BY <1>14 DEF vars, thread, estimate, Saving, InFlight
  <2>2. QED
    BY <2>1 DEF Stopping, StoppedAt, config
<1>15. QED
  BY <1>2, <1>4, <1>5, <1>6, <1>7, <1>9, <1>10, <1>11, <1>12, <1>13, <1>14
     DEF Next, SchedRun

-----------------------------------------------------------------------------
(* Theorems                                                                *)

LEMMA RunInvInit == Init => RunInv
<1>. SUFFICES ASSUME Init PROVE RunInv
  OBVIOUS
<1>1. Types /\ refresh \in Nat \ {0} /\ min_runs \in Nat /\ MAX_OUTPUT \in Nat
  BY TypesInit, RunAssumption
<1>2. Saving = {} /\ Exclusion
  BY DEF Init, Saving, Exclusion
<1>3. Compared
  <2>1. Len(<< >>) = 0
    OBVIOUS
  <2>2. QED
    BY <1>1, <1>2, <2>1 DEF Init, Compared
<1>4. Estimates
  <2>1. Check(0) = 0
    BY <1>1 DEF Check
  <2>2. \A c \in 1 .. MAX_OUTPUT : Seen(c, Check(0)) = 0
    BY <1>1, <2>1 DEF Seen
  <2>3. QED
    BY <1>1, <2>2 DEF Init, Estimates
<1>5. Stopping
  BY LastRunIsACheck, <1>1 DEF Init, Stopping
<1>6. NoCommand
  BY DEF Init, NoCommand
<1>7. QED
  BY <1>1, <1>2, <1>3, <1>4, <1>5, <1>6 DEF RunInv

\* The inductive invariant holds, whatever the threads do one after the other.
THEOREM RunInvariant == Spec => []RunInv
<1>1. Init => RunInv
  BY RunInvInit
<1>2. RunInv /\ [Next]_vars => RunInv'
  BY TypesStep, ExclusionStep, ComparedStep, EstimatesStep, StoppingStep, NoCommandStep DEF RunInv
<1>3. QED
  BY <1>1, <1>2, PTL DEF Spec

\* The state keeps its types: every node of a tree of samples refers to nodes by
\* numbers, every estimate and sum is a number.
THEOREM TypeCorrect == Spec => []Types
<1>1. RunInv => Types
  BY DEF RunInv
<1>2. QED
  BY <1>1, RunInvariant, PTL

\* Never two threads work on the statistics, c_index and c_value: save_data is
\* entered with sem_wait, and the thread inside is the one that the semaphore is held by.
THEOREM MutualExclusion == Spec => []Exclusion
<1>1. RunInv => Exclusion
  BY DEF RunInv
<1>2. QED
  BY <1>1, RunInvariant, PTL

\* No more samples are taken than the threads that have begun before the end add.
LEMMA SamplesBounded == RunInv => num_samples <= LastRun + Cardinality(Jobs) - 1
<1>. SUFFICES ASSUME RunInv PROVE num_samples <= LastRun + Cardinality(Jobs) - 1
  OBVIOUS
<1>1. /\ LastRun \in Nat /\ num_samples \in Nat /\ Cardinality(Jobs) \in Nat \ {0}
      /\ Cardinality(InFlight) \in Nat
  BY LastRunIsACheck, InFlightCounted DEF RunInv, Types
<1>2. CASE end_run
  BY <1>1, <1>2 DEF RunInv, Stopping
<1>3. CASE ~end_run /\ valid
  <2>1. PICK D \in 0 .. num_samples : StoppedAt(D)
    BY <1>3 DEF RunInv, Stopping
  <2>2. QED
    BY <1>1, <2>1 DEF StoppedAt
<1>4. CASE ~valid
  BY <1>1, <1>4 DEF RunInv, NoCommand
<1>5. QED
  BY <1>2, <1>3, <1>4

\* At any time the estimates are of the last two checks.
LEMMA EstimatesRecent ==
  RunInv => \A c \in 1 .. MAX_OUTPUT : (c <= cols) =>
               estimated[c] \in {Seen(c, LastCheck), Seen(c, LastCheck - refresh)}
<1>. SUFFICES ASSUME RunInv, NEW c \in 1 .. MAX_OUTPUT, c <= cols
              PROVE  estimated[c] \in {Seen(c, LastCheck), Seen(c, LastCheck - refresh)}
  OBVIOUS
<1>1. LastCheck = Check(num_samples) /\ num_samples \in Nat
  BY DEF LastCheck, Check, RunInv, Types
<1>2. CASE Saving = {}
  BY <1>1, <1>2 DEF RunInv, Estimates
<1>3. ASSUME NEW t \in Jobs, pc[t] \in {"value", "insert"}
      PROVE  estimated[c] \in {Seen(c, LastCheck), Seen(c, LastCheck - refresh)}
  <2>1. num_samples > 0 /\ estimated[c] = Seen(c, Check(num_samples - 1))
    BY <1>3 DEF RunInv, Estimates
  <2>2. CASE num_samples % refresh = 0
    <3>1. LastCheck = num_samples /\ Check(num_samples - 1) = num_samples - refresh
      BY <1>1, <2>1, <2>2, CheckOfPredecessor
    <3>2. QED
      BY <2>1, <3>1
  <2>3. CASE num_samples % refresh # 0
    BY <1>1, <2>1, <2>3, CheckOfPredecessor
  <2>4. QED
    BY <2>2, <2>3
<1>4. ASSUME NEW t \in Jobs, pc[t] = "update"
      PROVE  estimated[c] \in {Seen(c, LastCheck), Seen(c, LastCheck - refresh)}
  <2>1. /\ num_samples % refresh = 0
        /\ estimated[c] = Seen(c, IF c <= i[t] THEN num_samples ELSE num_samples - refresh)
    BY <1>4 DEF RunInv, Estimates
  <2>2. LastCheck = num_samples
    BY <1>1, <2>1, CheckOfPredecessor
  <2>3. QED
    BY <2>1, <2>2
<1>5. QED
  BY <1>2, <1>3, <1>4 DEF Saving

\* What is printed at the end.
LEMMA PrintedIsFinal ==
  RunInv /\ ended = "printed" =>
    /\ valid /\ LastCheck > min_runs
    /\ \A c \in 1 .. cols : estimated[c] = Seen(c, LastCheck)
    /\ Cardinality(Jobs) <= refresh => (converged \/ LastCheck > num_cycles)
<1>. SUFFICES ASSUME RunInv, ended = "printed"
              PROVE  /\ valid /\ LastCheck > min_runs
                     /\ \A c \in 1 .. cols : estimated[c] = Seen(c, LastCheck)
                     /\ Cardinality(Jobs) <= refresh => (converged \/ LastCheck > num_cycles)
  OBVIOUS
<1>1. LastCheck = Check(num_samples) /\ num_samples \in Nat
  BY DEF LastCheck, Check, RunInv, Types
<1>2. (\A t \in Jobs : pc[t] = "done") /\ Saving = {} /\ ~end_run /\ valid
  <2>1. \A t \in Jobs : pc[t] = "done"
    BY DEF RunInv, Stopping
  <2>2. ~end_run
    BY <2>1, RunAssumption DEF RunInv, Stopping
  <2>3. valid
    BY <2>1, <2>2 DEF RunInv, NoCommand
  <2>4. QED
    BY <2>1, <2>2, <2>3 DEF Saving
<1>3. PICK D \in 0 .. num_samples : StoppedAt(D)
  BY <1>2 DEF RunInv, Stopping
<1>4. D \in Nat /\ D <= LastCheck /\ LastCheck \in Nat
  <2>1. D \in Nat /\ D <= num_samples /\ Check(D) = D
    BY <1>1, <1>3 DEF StoppedAt
  <2>2. QED
    BY <1>1, <2>1, CheckMonotone, Division
<1>5. LastCheck > min_runs /\ (Cardinality(Jobs) <= refresh => (converged \/ LastCheck > num_cycles))
  BY <1>3, <1>4, RunAssumption DEF StoppedAt
<1>6. \A c \in 1 .. cols : estimated[c] = Seen(c, LastCheck)
  BY <1>1, <1>2, RunAssumption DEF RunInv, Estimates, Types
<1>7. QED
  BY <1>2, <1>5, <1>6

\* "Exit if simulation converged or maximum runs reached": what is printed has
\* converged or max_runs is exceeded, and rests on all samples but fewer than refresh;
\* partial estimates are never older than two checks.
THEOREM OutcomeIsSound == Spec => []OutcomeSound
<1>1. RunInv => OutcomeSound
  BY SamplesBounded, EstimatesRecent, PrintedIsFinal DEF OutcomeSound
<1>2. QED
  BY <1>1, RunInvariant, PTL

-----------------------------------------------------------------------------
(* The tree of samples                                                     *)

Below(sub, p) == IF p = NULL THEN {} ELSE sub[p]

\* Of a node: its children are younger and have no other parent, sub has the nodes from
\* it on down, those on the left have no value that is larger and those on the right
\* none that is smaller, and count counts those on the left.
NodeSound(tree, sub, up, p) ==
    LET l == tree[p].lp
        r == tree[p].rp
    IN  /\ l \in {NULL} \cup (p + 1 .. Len(tree)) /\ r \in {NULL} \cup (p + 1 .. Len(tree))
        /\ (l # NULL => up[l] = p) /\ (r # NULL => up[r] = p)
        /\ sub[p] = {p} \cup Below(sub, l) \cup Below(sub, r)
        /\ p \notin Below(sub, l) /\ p \notin Below(sub, r)
        /\ Below(sub, l) \cap Below(sub, r) = {}
        /\ tree[p].count = Cardinality(Below(sub, l))
        /\ \A q \in Below(sub, l) : tree[q].data_val <= tree[p].data_val
        /\ \A q \in Below(sub, r) : tree[p].data_val <= tree[q].data_val

TreeSound(tree, sub, up) ==
    /\ tree \in Seq(Node)
    /\ sub \in [1 .. Len(tree) -> SUBSET (1 .. Len(tree))]
    /\ up \in [1 .. Len(tree) -> Nat]
    /\ \A p \in 1 .. Len(tree) : NodeSound(tree, sub, up, p)
    /\ Len(tree) > 0 => sub[1] = 1 .. Len(tree)

IsTree(tree) == \E sub, up : TreeSound(tree, sub, up)

\* A function can be applied again and again.
IsIterated(f, g, a, n) == f[0] = a /\ \A k \in 1 .. n : f[k] = g[f[k - 1]]

LEMMA IterateExists ==
    ASSUME NEW S, NEW a \in S, NEW g \in [S -> S], NEW n \in Nat
    PROVE  \E f \in [0 .. n -> S] : IsIterated(f, g, a, n)
<1>. DEFINE Good(m) == \E f \in [0 .. m -> S] : IsIterated(f, g, a, m)
            Bad == {m \in 0 .. n : ~Good(m)}
<1>1. SUFFICES ASSUME Bad # {} PROVE FALSE
  <2>1. n \in 0 .. n
    OBVIOUS
  <2>2. ASSUME Bad = {} PROVE Good(n)
    <3>1. n \notin Bad
      BY <2>2
    <3>. HIDE DEF Good
    <3> QED
      BY <2>1, <3>1
  <2>. QED
    BY <2>2
<1>2. PICK m \in Bad : \A k \in Bad : m <= k
  <2>1. Bad \in SUBSET Nat
    OBVIOUS
  <2>. HIDE DEF Bad
  <2>. QED
    BY <1>1, <2>1, LeastNumber, Zenon
<1>3. m \in 0 .. n /\ ~Good(m)
  BY <1>2
<1>4. CASE m = 0
  <2>. DEFINE f == [k \in 0 .. 0 |-> a]
  <2>1. f \in [0 .. 0 -> S] /\ IsIterated(f, g, a, 0)
    BY DEF IsIterated
  <2>. QED
    BY <1>3, <1>4, <2>1
<1>5. CASE m # 0
  <2>1. m - 1 \in 0 .. n /\ m - 1 < m
    BY <1>3, <1>5
  <2>2. Good(m - 1)
    <3>. HIDE DEF Good
    <3>1. m - 1 \notin Bad
      <4>. HIDE DEF Bad
      <4>. QED
        BY <1>2, <1>3, <2>1
    <3>. QED
      BY <2>1, <3>1
  <2>3. PICK f \in [0 .. m - 1 -> S] : IsIterated(f, g, a, m - 1)
    BY <2>2
  <2>4. f[m - 1] \in S /\ g[f[m - 1]] \in S
    BY <1>3, <1>5, <2>3
  <2>. DEFINE h == [k \in 0 .. m |-> IF k = m THEN g[f[m - 1]] ELSE f[k]]
  <2>5. \A k \in 0 .. m - 1 : h[k] = f[k] /\ f[k] \in S
    BY <1>3, <1>5, <2>3
  <2>6. h \in [0 .. m -> S]
    BY <1>3, <1>5, <2>4, <2>5
  <2>7. h[0] = a /\ h[m] = g[h[m - 1]]
    BY <1>3, <1>5, <2>3, <2>5 DEF IsIterated
  <2>8. ASSUME NEW k \in 1 .. m PROVE h[k] = g[h[k - 1]]
    <3>1. CASE k = m
      BY <2>7, <3>1
    <3>2. CASE k # m
      <4>1. k \in 1 .. m - 1 /\ k - 1 \in 0 .. m - 1 /\ k \in 0 .. m - 1
        BY <1>3, <1>5, <3>2
      <4>. HIDE DEF h
      <4>2. f[k] = g[f[k - 1]]
        BY <2>3, <4>1 DEF IsIterated
      <4>. QED
        BY <2>5, <4>1, <4>2
    <3>. QED
      BY <3>1, <3>2
  <2>9. IsIterated(h, g, a, m)
    <3>. HIDE DEF h
    <3>. QED
      BY <2>7, <2>8 DEF IsIterated
  <2>. HIDE DEF h
  <2>. QED
    BY <1>3, <2>6, <2>9
<1>6. QED
  BY <1>4, <1>5

\* The child on the way to the place of v, and the way down to it.
Kid(tree, v, p) == IF GoesLeft(v, tree[p]) THEN tree[p].lp ELSE tree[p].rp

IsWay(at, tree, v) ==
    /\ at \in [0 .. Len(tree) -> 0 .. Len(tree)]
    /\ at[0] = IF Len(tree) = 0 THEN NULL ELSE 1
    /\ \A k \in 1 .. Len(tree) : at[k] = IF at[k - 1] = NULL THEN NULL ELSE Kid(tree, v, at[k - 1])
    /\ Path(tree, v) = {at[k] : k \in 0 .. Len(tree)} \ {NULL}

LEMMA KidInside ==
    ASSUME NEW tree, NEW sub, NEW up, TreeSound(tree, sub, up), NEW v, NEW p \in 1 .. Len(tree)
    PROVE  /\ Len(tree) \in Nat
           /\ Kid(tree, v, p) \in {NULL} \cup (p + 1 .. Len(tree))
           /\ Kid(tree, v, p) # NULL => up[Kid(tree, v, p)] = p
<1>1. tree \in Seq(Node) /\ NodeSound(tree, sub, up, p)
  BY DEF TreeSound
<1>. QED
  BY <1>1 DEF NodeSound, Kid

LEMMA WayExists ==
    ASSUME NEW tree, NEW sub, NEW up, TreeSound(tree, sub, up), NEW v
    PROVE  \E at : IsWay(at, tree, v)
<1>. DEFINE N == Len(tree)
            a == IF N = 0 THEN NULL ELSE 1
            Next1(p) == IF p = NULL THEN NULL ELSE Kid(tree, v, p)
            g == [p \in 0 .. N |-> Next1(p)]
            IsAt(f) == f = [k \in 0 .. N |->
                              IF k = 0 THEN a ELSE IF f[k - 1] = NULL THEN NULL
                              ELSE IF GoesLeft(v, tree[f[k - 1]]) THEN tree[f[k - 1]].lp
                              ELSE tree[f[k - 1]].rp]
            at == CHOOSE f : IsAt(f)
<1>1. tree \in Seq(Node) /\ N \in Nat /\ (tree = << >> <=> N = 0)
  BY DEF TreeSound
<1>2. a \in 0 .. N
  BY <1>1 DEF NULL
<1>3. g \in [0 .. N -> 0 .. N]
  <2>1. ASSUME NEW p \in 0 .. N PROVE Next1(p) \in 0 .. N
    <3>1. CASE p = 0
      BY <1>1, <3>1 DEF NULL
    <3>2. CASE p # 0
      <4>1. p \in 1 .. N
        BY <1>1, <3>2
      <4>2. Kid(tree, v, p) \in {NULL} \cup (p + 1 .. N)
        BY <4>1, KidInside
      <4>. QED
        BY <1>1, <4>1, <4>2 DEF NULL
    <3>. QED
      BY <3>1, <3>2
  <2>. HIDE DEF Next1
  <2>. QED
    BY <2>1
<1>4. Path(tree, v) = {at[k] : k \in DOMAIN at} \ {NULL}
  BY <1>1 DEF Path
<1>. HIDE DEF N, a
<1>5. PICK f \in [0 .. N -> 0 .. N] : IsIterated(f, g, a, N)
  <2>. HIDE DEF g
  <2>. QED
    BY <1>1, <1>2, <1>3, IterateExists, Zenon
<1>6. \A k \in 1 .. N : f[k] = IF f[k - 1] = NULL THEN NULL ELSE Kid(tree, v, f[k - 1])
  <2>1. \A k \in 1 .. N : k - 1 \in 0 .. N /\ f[k - 1] \in 0 .. N /\ f[k] = g[f[k - 1]]
    <3>. HIDE DEF g
    <3>1. \A k \in 1 .. N : f[k] = g[f[k - 1]]
      BY <1>5 DEF IsIterated
    <3>2. \A k \in 1 .. N : k - 1 \in 0 .. N
      BY <1>1
    <3>. QED
      BY <1>5, <3>1, <3>2
  <2>. QED
    BY <2>1
<1>7. IsAt(f)
  <2>1. ASSUME NEW k \in 0 .. N
        PROVE  f[k] = IF k = 0 THEN a ELSE IF f[k - 1] = NULL THEN NULL
                      ELSE IF GoesLeft(v, tree[f[k - 1]]) THEN tree[f[k - 1]].lp
                      ELSE tree[f[k - 1]].rp
    <3>1. CASE k = 0
      BY <1>5, <3>1 DEF IsIterated
    <3>2. CASE k # 0
      <4>1. k \in 1 .. N
        BY <1>1, <3>2
      <4>. QED
        BY <1>6, <3>2, <4>1 DEF Kid
    <3>. QED
      BY <3>1, <3>2
  <2>2. f = [k \in 0 .. N |-> f[k]]
    BY <1>5
  <2>. QED
    BY <2>1, <2>2
<1>8. IsAt(at)
  <2>. HIDE DEF IsAt
  <2>. QED
    BY <1>7, Zenon
<1>. HIDE DEF at
<1>9. DOMAIN at = 0 .. N
  BY <1>8
<1>10. at[0] = a /\ \A k \in 1 .. N : at[k] = IF at[k - 1] = NULL THEN NULL ELSE Kid(tree, v, at[k - 1])
  <2>1. \A k \in 0 .. N :
          at[k] = IF k = 0 THEN a ELSE IF at[k - 1] = NULL THEN NULL
                  ELSE IF GoesLeft(v, tree[at[k - 1]]) THEN tree[at[k - 1]].lp
                  ELSE tree[at[k - 1]].rp
    BY <1>8, Zenon
  <2>2. 0 \in 0 .. N /\ \A k \in 1 .. N : k \in 0 .. N /\ k # 0
    BY <1>1
  <2>. QED
    BY <2>1, <2>2 DEF Kid
<1>11. at \in [0 .. N -> 0 .. N]
  <2>. DEFINE Off == {k \in 0 .. N : at[k] \notin 0 .. N}
  <2>1. SUFFICES ASSUME Off # {} PROVE FALSE
    <3>1. ASSUME Off = {} PROVE \A k \in 0 .. N : at[k] \in 0 .. N
      BY <3>1
    <3>2. at = [k \in 0 .. N |-> at[k]]
      BY <1>8
    <3>. HIDE DEF Off
    <3>. QED
      BY <3>1, <3>2
  <2>2. PICK k \in Off : \A m \in Off : k <= m
    <3>1. Off \in SUBSET Nat
      OBVIOUS
    <3>. HIDE DEF Off
    <3>. QED
      BY <2>1, <3>1, LeastNumber, Zenon
  <2>3. k \in 0 .. N /\ at[k] \notin 0 .. N
    BY <2>2
  <2>4. k # 0
    BY <1>2, <1>10, <2>3
  <2>5. k - 1 \in 0 .. N /\ k \in 1 .. N /\ k - 1 < k
    BY <1>1, <2>3, <2>4
  <2>6. k - 1 \notin Off
    <3>. HIDE DEF Off
    <3>. QED
      BY <2>2, <2>3, <2>5
  <2>7. at[k - 1] \in 0 .. N
    BY <2>5, <2>6
  <2>8. at[k] = g[at[k - 1]]
    BY <1>10, <2>5, <2>7
  <2>. HIDE DEF g
  <2>9. at[k] \in 0 .. N
    BY <1>3, <2>7, <2>8
  <2>. QED
    BY <2>3, <2>9
<1>12. IsWay(at, tree, v)
  BY <1>4, <1>9, <1>10, <1>11 DEF IsWay, N, a
<1>. QED
  BY <1>12

\* The nodes on the way, with p: a child of one of them is on it just when it is the
\* child on the way, and one of them is the last.
PathSound(tree, v, up, on) ==
    /\ on \subseteq 1 .. Len(tree)
    /\ Len(tree) > 0 => 1 \in on
    /\ \A p \in on : Kid(tree, v, p) # NULL => Kid(tree, v, p) \in on
    /\ \A q \in on : q # 1 => up[q] \in on /\ Kid(tree, v, up[q]) = q
    /\ \A p, q \in on : Kid(tree, v, p) = NULL /\ Kid(tree, v, q) = NULL => p = q

LEMMA PathIsSound ==
    ASSUME NEW tree, NEW sub, NEW up, TreeSound(tree, sub, up), NEW v
    PROVE  PathSound(tree, v, up, Path(tree, v))
<1>. DEFINE N == Len(tree)
            P == Path(tree, v)
            K(p) == Kid(tree, v, p)
<1>1. N \in Nat /\ NULL = 0
  BY DEF TreeSound, NULL
<1>2. PICK at : IsWay(at, tree, v)
  BY WayExists
<1>3. /\ at \in [0 .. N -> 0 .. N]
      /\ at[0] = IF N = 0 THEN 0 ELSE 1
      /\ \A k \in 1 .. N : at[k] = IF at[k - 1] = 0 THEN 0 ELSE K(at[k - 1])
      /\ P = {at[k] : k \in 0 .. N} \ {0}
  BY <1>1, <1>2 DEF IsWay
<1>4. \A p \in 1 .. N : K(p) \in {0} \cup (p + 1 .. N) /\ (K(p) # 0 => up[K(p)] = p)
  BY <1>1, KidInside
<1>. HIDE DEF N, P, K
<1>5. \A k \in 0 .. N : at[k] = 0 \/ at[k] > k
  <2>. DEFINE Off == {k \in 0 .. N : ~(at[k] = 0 \/ at[k] > k)}
  <2>1. SUFFICES ASSUME Off # {} PROVE FALSE
    OBVIOUS
  <2>2. PICK k \in Off : \A m \in Off : k <= m
    <3>1. Off \in SUBSET Nat
      OBVIOUS
    <3>. HIDE DEF Off
    <3>. QED
      BY <2>1, <3>1, LeastNumber, Zenon
  <2>3. k \in 0 .. N /\ ~(at[k] = 0 \/ at[k] > k) /\ at[k] \in 0 .. N
    BY <1>3, <2>2
  <2>4. k # 0
    BY <1>1, <1>3, <2>3
  <2>5. k - 1 \in 0 .. N /\ k \in 1 .. N /\ k - 1 < k
    BY <1>1, <2>3, <2>4
  <2>6. k - 1 \notin Off
    <3>. HIDE DEF Off
    <3>. QED
      BY <2>2, <2>3, <2>5
  <2>7. at[k - 1] \in 0 .. N /\ (at[k - 1] = 0 \/ at[k - 1] > k - 1)
    BY <1>3, <2>5, <2>6
  <2>8. at[k - 1] # 0 /\ at[k] = K(at[k - 1])
    BY <1>3, <2>3, <2>5
  <2>9. at[k] \in {0} \cup (at[k - 1] + 1 .. N)
    BY <1>1, <1>4, <2>7, <2>8
  <2>. QED
    BY <1>1, <2>3, <2>5, <2>7, <2>8, <2>9
<1>6. ASSUME NEW j \in 0 .. N, at[j] = 0, NEW l \in 0 .. N, j <= l
      PROVE  at[l] = 0
  <2>. DEFINE Off == {k \in j .. N : at[k] # 0}
  <2>1. SUFFICES ASSUME Off # {} PROVE FALSE
    <3>1. l \in j .. N
      BY <1>1, <1>6
    <3>. QED
      BY <3>1
  <2>2. PICK k \in Off : \A m \in Off : k <= m
    <3>1. Off \in SUBSET Nat
      BY <1>1
    <3>. HIDE DEF Off
    <3>. QED
      BY <2>1, <3>1, LeastNumber, Zenon
  <2>3. k \in j .. N /\ at[k] # 0 /\ k # j
    BY <1>6, <2>2
  <2>4. k - 1 \in j .. N /\ k \in 1 .. N /\ k - 1 < k
    BY <1>1, <2>3
  <2>5. k - 1 \notin Off
    <3>. HIDE DEF Off
    <3>. QED
      BY <2>2, <2>3, <2>4
  <2>6. at[k - 1] = 0
    BY <2>4, <2>5
  <2>. QED
    BY <1>3, <2>3, <2>4, <2>6
<1>7. \A p \in P : p \in 1 .. N /\ \E k \in 0 .. N : p = at[k]
  BY <1>1, <1>3
<1>8. N > 0 => 1 \in P
  <2>1. 0 \in 0 .. N
    BY <1>1
  <2>. QED
    BY <1>3, <2>1
<1>9. \A p \in P : K(p) # 0 => K(p) \in P
  <2>. SUFFICES ASSUME NEW p \in P, K(p) # 0 PROVE K(p) \in P
    OBVIOUS
  <2>1. PICK k \in 0 .. N : p = at[k]
    BY <1>7
  <2>2. p \in 1 .. N /\ p > k
    BY <1>5, <1>7, <2>1
  <2>3. K(p) \in p + 1 .. N
    BY <1>4, <2>2
  <2>4. k + 1 \in 1 .. N /\ k + 1 \in 0 .. N /\ (k + 1) - 1 = k
    BY <1>1, <2>1, <2>2, <2>3
  <2>5. at[k + 1] = K(p)
    BY <1>3, <2>1, <2>2, <2>4
  <2>. QED
    BY <1>3, <2>4, <2>5
<1>10. \A q \in P : q # 1 => up[q] \in P /\ K(up[q]) = q
  <2>. SUFFICES ASSUME NEW q \in P, q # 1 PROVE up[q] \in P /\ K(up[q]) = q
    OBVIOUS
  <2>1. PICK k \in 0 .. N : q = at[k]
    BY <1>7
  <2>2. q \in 1 .. N
    BY <1>7
  <2>3. k # 0
    BY <1>3, <2>1, <2>2
  <2>4. k \in 1 .. N /\ k - 1 \in 0 .. N
    BY <1>1, <2>3
  <2>5. at[k - 1] # 0 /\ at[k - 1] \in 0 .. N /\ q = K(at[k - 1])
    BY <1>3, <2>1, <2>2, <2>4
  <2>6. at[k - 1] \in 1 .. N
    BY <1>1, <2>5
  <2>7. up[q] = at[k - 1]
    BY <1>4, <2>2, <2>5, <2>6
  <2>8. at[k - 1] \in P
    BY <1>3, <2>4, <2>5
  <2>. QED
    BY <2>5, <2>7, <2>8
<1>11. ASSUME NEW j \in 0 .. N, NEW k \in 0 .. N, j < k, at[j] # 0, K(at[j]) = 0
       PROVE  at[k] = 0
  <2>1. j + 1 \in 1 .. N /\ j + 1 \in 0 .. N /\ (j + 1) - 1 = j /\ j + 1 <= k
    BY <1>1, <1>11
  <2>2. at[j + 1] = 0
    BY <1>3, <1>11, <2>1
  <2>. QED
    BY <1>6, <2>1, <2>2
<1>12. \A p, q \in P : K(p) = 0 /\ K(q) = 0 => p = q
  <2>. SUFFICES ASSUME NEW p \in P, NEW q \in P, K(p) = 0, K(q) = 0 PROVE p = q
    OBVIOUS
  <2>1. PICK j \in 0 .. N : p = at[j]
    BY <1>7
  <2>2. PICK k \in 0 .. N : q = at[k]
    BY <1>7
  <2>3. p \in 1 .. N /\ q \in 1 .. N
    BY <1>7
  <2>4. ~(j < k)
    BY <1>1, <1>11, <2>1, <2>2, <2>3
  <2>5. ~(k < j)
    BY <1>1, <1>11, <2>1, <2>2, <2>3
  <2>6. j = k
    BY <1>1, <2>4, <2>5
  <2>. QED
    BY <2>1, <2>2, <2>6
<1>13. P \subseteq 1 .. N
  BY <1>7
<1>. QED
  BY <1>1, <1>8, <1>9, <1>10, <1>12, <1>13 DEF PathSound, N, P, K

\* Of an old node, the insertion changes the count on the way to the left, and the child
\* where there is none.
Inserted(new, tree, v, p) ==
    LET on == p \in Path(tree, v)
        left == GoesLeft(v, tree[p])
    IN  /\ new[p].data_val = tree[p].data_val
        /\ new[p].lp = IF on /\ left /\ tree[p].lp = NULL THEN Len(tree) + 1 ELSE tree[p].lp
        /\ new[p].rp = IF on /\ ~left /\ tree[p].rp = NULL THEN Len(tree) + 1 ELSE tree[p].rp
        /\ new[p].count = IF on /\ left THEN tree[p].count + 1 ELSE tree[p].count

IsInserted(new, tree, v) ==
    /\ new \in Seq(Node) /\ Len(new) = Len(tree) + 1
    /\ \A p \in 1 .. Len(tree) : Inserted(new, tree, v, p)
    /\ new[Len(tree) + 1] = [data_val |-> v, lp |-> NULL, rp |-> NULL, count |-> 0]

LEMMA InsertSortIs ==
    ASSUME NEW tree \in Seq(Node), NEW v \in Nat
    PROVE  IsInserted(InsertSort(tree, v), tree, v)
<1>. DEFINE next == Len(tree) + 1
            passed(n) ==
              IF n \notin Path(tree, v) THEN tree[n]
              ELSE IF GoesLeft(v, tree[n])
                   THEN [tree[n] EXCEPT !.count = @ + 1, !.lp = IF @ = NULL THEN next ELSE @]
                   ELSE [tree[n] EXCEPT !.rp = IF @ = NULL THEN next ELSE @]
            last == [data_val |-> v, lp |-> NULL, rp |-> NULL, count |-> 0]
            old == [n \in DOMAIN tree |-> passed(n)]
            new == InsertSort(tree, v)
<1>1. Len(tree) \in Nat /\ DOMAIN tree = 1 .. Len(tree)
  OBVIOUS
<1>2. new = Append(old, last)
  BY DEF InsertSort
<1>3. new \in Seq(Node)
  BY InsertSortType
<1>4. ASSUME NEW p \in 1 .. Len(tree), tree[p] \in Node, new[p] = passed(p)
      PROVE  Inserted(new, tree, v, p)
  <2>1. DOMAIN tree[p] = {"data_val", "lp", "rp", "count"}
    BY <1>4 DEF Node
  <2>2. CASE p \notin Path(tree, v)
    BY <1>4, <2>2 DEF Inserted
  <2>3. CASE p \in Path(tree, v) /\ GoesLeft(v, tree[p])
    <3>1. new[p] = [tree[p] EXCEPT !.count = @ + 1, !.lp = IF @ = NULL THEN next ELSE @]
      BY <1>4, <2>3
    <3>2. /\ new[p].data_val = tree[p].data_val /\ new[p].rp = tree[p].rp
          /\ new[p].lp = IF tree[p].lp = NULL THEN next ELSE tree[p].lp
          /\ new[p].count = tree[p].count + 1
      BY <2>1, <3>1
    <3>. QED
      BY <2>3, <3>2 DEF Inserted
  <2>4. CASE p \in Path(tree, v) /\ ~GoesLeft(v, tree[p])
    <3>1. new[p] = [tree[p] EXCEPT !.rp = IF @ = NULL THEN next ELSE @]
      BY <1>4, <2>4
    <3>2. /\ new[p].data_val = tree[p].data_val /\ new[p].lp = tree[p].lp
          /\ new[p].rp = IF tree[p].rp = NULL THEN next ELSE tree[p].rp
          /\ new[p].count = tree[p].count
      BY <2>1, <3>1
    <3>. QED
      BY <2>4, <3>2 DEF Inserted
  <2>. QED
    BY <2>2, <2>3, <2>4
<1>. HIDE DEF passed, last
<1>5. old \in Seq({passed(n) : n \in 1 .. Len(tree)}) /\ Len(old) = Len(tree)
  BY <1>1
<1>. HIDE DEF new
<1>6. /\ Len(new) = Len(tree) + 1 /\ new[Len(tree) + 1] = last
      /\ \A p \in 1 .. Len(tree) : new[p] = passed(p) /\ tree[p] \in Node
  <2>1. \A p \in 1 .. Len(tree) : old[p] = passed(p) /\ tree[p] \in Node
    BY <1>1
  <2>. HIDE DEF old
  <2>2. /\ Len(new) = Len(tree) + 1 /\ new[Len(tree) + 1] = last
        /\ \A p \in 1 .. Len(tree) : new[p] = old[p]
    BY <1>1, <1>2, <1>5
  <2>. QED
    BY <2>1, <2>2
<1>. QED
  BY <1>3, <1>4, <1>6 DEF IsInserted, last, new

\* A tree stays one when a value is inserted.
LEMMA InsertKeepsTree ==
    ASSUME NEW tree, IsTree(tree), NEW v \in Nat
    PROVE  IsTree(InsertSort(tree, v))
<1>. DEFINE N == Len(tree)
            P == Path(tree, v)
            K(p) == Kid(tree, v, p)
            new == InsertSort(tree, v)
<1>1. PICK sub, up : TreeSound(tree, sub, up)
  BY DEF IsTree
<1>2. /\ tree \in Seq(Node) /\ N \in Nat /\ NULL = 0
      /\ sub \in [1 .. N -> SUBSET (1 .. N)] /\ up \in [1 .. N -> Nat]
      /\ \A p \in 1 .. N : NodeSound(tree, sub, up, p)
      /\ N > 0 => sub[1] = 1 .. N
  BY <1>1 DEF TreeSound, NULL
<1>3. /\ P \subseteq 1 .. N
      /\ N > 0 => 1 \in P
      /\ \A p \in P : K(p) # 0 => K(p) \in P
      /\ \A q \in P : q # 1 => up[q] \in P /\ K(up[q]) = q
      /\ \A p, q \in P : K(p) = 0 /\ K(q) = 0 => p = q
  BY <1>1, <1>2, PathIsSound DEF PathSound
<1>4. /\ new \in Seq(Node) /\ Len(new) = N + 1
      /\ \A p \in 1 .. N : Inserted(new, tree, v, p)
      /\ new[N + 1] = [data_val |-> v, lp |-> NULL, rp |-> NULL, count |-> 0]
  BY <1>2, InsertSortIs DEF IsInserted
<1>. DEFINE s2 == [q \in 1 .. N + 1 |-> IF q = N + 1 THEN {N + 1}
                                        ELSE IF q \in P THEN sub[q] \cup {N + 1} ELSE sub[q]]
            parent == IF \E p \in P : K(p) = 0 THEN CHOOSE p \in P : K(p) = 0 ELSE 0
            u2 == [q \in 1 .. N + 1 |-> IF q = N + 1 THEN parent ELSE up[q]]
<1>5. parent \in Nat /\ \A p \in P : K(p) = 0 => parent = p
  <2>1. CASE \E p \in P : K(p) = 0
    <3>1. parent \in P /\ K(parent) = 0
      BY <2>1
    <3>. HIDE DEF parent, P, K
    <3>2. parent \in Nat
      BY <1>2, <1>3, <3>1
    <3>. QED
      BY <1>3, <3>1, <3>2
  <2>2. CASE ~ \E p \in P : K(p) = 0
    BY <2>2
  <2>. QED
    BY <2>1, <2>2
<1>6. ASSUME NEW p \in 1 .. N
      PROVE  /\ p \in P => K(p) = IF GoesLeft(v, tree[p]) THEN tree[p].lp ELSE tree[p].rp
             /\ \A c \in {tree[p].lp, tree[p].rp} \ {0} :
                  /\ c \in p + 1 .. N /\ up[c] = p /\ c \in sub[c]
                  /\ c \in P => p \in P /\ c = K(p)
  <2>1. NodeSound(tree, sub, up, p)
    BY <1>2
  <2>2. ASSUME NEW c \in {tree[p].lp, tree[p].rp} \ {0}
        PROVE  /\ c \in p + 1 .. N /\ up[c] = p /\ c \in sub[c]
               /\ c \in P => p \in P /\ c = K(p)
    <3>1. c \in p + 1 .. N /\ up[c] = p
      BY <1>2, <2>1, <2>2 DEF NodeSound
    <3>2. c \in 1 .. N /\ c # 1
      BY <1>2, <3>1
    <3>3. NodeSound(tree, sub, up, c)
      BY <1>2, <3>2
    <3>4. c \in sub[c]
      BY <3>3 DEF NodeSound
    <3>5. c \in P => p \in P /\ c = K(p)
      BY <1>3, <3>1, <3>2
    <3>. QED
      BY <3>1, <3>4, <3>5
  <2>. QED
    BY <2>2 DEF Kid
<1>. HIDE DEF N, P, K, new, parent
<1>7. s2 \in [1 .. N + 1 -> SUBSET (1 .. N + 1)] /\ u2 \in [1 .. N + 1 -> Nat]
  <2>1. ASSUME NEW q \in 1 .. N + 1, q # N + 1 PROVE q \in 1 .. N
    BY <1>2, <2>1
  <2>2. \A q \in 1 .. N : sub[q] \subseteq 1 .. N + 1 /\ up[q] \in Nat
    <3>1. 1 .. N \subseteq 1 .. N + 1
      BY <1>2
    <3>. QED
      BY <1>2, <3>1
  <2>3. N + 1 \in 1 .. N + 1
    BY <1>2
  <2>. QED
    BY <1>5, <2>1, <2>2, <2>3
<1>8. /\ s2[N + 1] = {N + 1} /\ u2[N + 1] = parent
      /\ \A q \in 1 .. N : u2[q] = up[q] /\ s2[q] = IF q \in P THEN sub[q] \cup {N + 1} ELSE sub[q]
  <2>1. N + 1 \in 1 .. N + 1 /\ \A q \in 1 .. N : q # N + 1 /\ q \in 1 .. N + 1
    BY <1>2
  <2>. QED
    BY <2>1
<1>. HIDE DEF s2, u2
<1>9. N + 1 > 0 => s2[1] = 1 .. N + 1
  <2>1. CASE N = 0
    BY <1>8, <2>1
  <2>2. CASE N # 0
    <3>1. 1 \in 1 .. N /\ 1 .. N + 1 = (1 .. N) \cup {N + 1} /\ N > 0
      BY <1>2, <2>2
    <3>. QED
      BY <1>2, <1>3, <1>8, <3>1
  <2>. QED
    BY <2>1, <2>2
<1>10. NodeSound(new, s2, u2, N + 1)
  <2>1. new[N + 1].data_val = v /\ new[N + 1].lp = 0 /\ new[N + 1].rp = 0
        /\ new[N + 1].count = 0
    BY <1>2, <1>4
  <2>. QED
    BY <1>2, <1>8, <2>1, FS_EmptySet DEF NodeSound, Below
<1>11. ASSUME NEW p \in 1 .. N PROVE NodeSound(new, s2, u2, p)
  <2>. DEFINE left == p \in P /\ GoesLeft(v, tree[p])
              right == p \in P /\ ~GoesLeft(v, tree[p])
              l == tree[p].lp
              r == tree[p].rp
              L == Below(sub, l)
              R == Below(sub, r)
              l2 == new[p].lp
              r2 == new[p].rp
  <2>1. /\ l \in {0} \cup (p + 1 .. N) /\ r \in {0} \cup (p + 1 .. N)
        /\ sub[p] = {p} \cup L \cup R /\ p \notin L /\ p \notin R /\ L \cap R = {}
        /\ tree[p].count = Cardinality(L)
        /\ \A q \in L : tree[q].data_val <= tree[p].data_val
        /\ \A q \in R : tree[p].data_val <= tree[q].data_val
    BY <1>2 DEF NodeSound, N
  <2>2. L \subseteq 1 .. N /\ R \subseteq 1 .. N
    <3>1. \A c \in {0} \cup (p + 1 .. N) : Below(sub, c) \subseteq 1 .. N
      <4>1. p + 1 .. N \subseteq 1 .. N
        BY <1>2
      <4>. QED
        BY <1>2, <4>1 DEF Below
    <3>. QED
      BY <2>1, <3>1
  <2>3. /\ l2 = IF left /\ l = 0 THEN N + 1 ELSE l
        /\ r2 = IF right /\ r = 0 THEN N + 1 ELSE r
        /\ new[p].count = IF left THEN tree[p].count + 1 ELSE tree[p].count
        /\ new[p].data_val = tree[p].data_val
    BY <1>2, <1>4 DEF Inserted, N, P
  <2>4. /\ left => K(p) = l
        /\ right => K(p) = r
        /\ \A c \in {l, r} \ {0} : /\ c \in p + 1 .. N /\ up[c] = p /\ c \in sub[c]
                                   /\ c \in P => p \in P /\ c = K(p)
    BY <1>6
  <2>5. l # 0 /\ r # 0 => l # r
    BY <1>2, <2>1, <2>4 DEF Below
  <2>6. N + 1 # 0 /\ \A c \in {l, r} \ {0} : c \in 1 .. N
    BY <1>2, <2>4
  <2>7. Below(s2, l2) = IF left THEN L \cup {N + 1} ELSE L
    <3>1. CASE left /\ l = 0
      BY <1>2, <1>8, <2>3, <2>6, <3>1 DEF Below
    <3>2. CASE left /\ l # 0
      <4>1. l \in P /\ l2 = l
        BY <1>3, <2>3, <2>4, <3>2
      <4>. QED
        BY <1>2, <1>8, <2>6, <3>2, <4>1 DEF Below
    <3>3. CASE ~left /\ l = 0
      BY <1>2, <2>3, <3>3 DEF Below
    <3>4. CASE ~left /\ l # 0
      <4>1. l \notin P
        BY <2>4, <2>5, <3>4
      <4>2. l2 = l
        BY <2>3, <3>4
      <4>. QED
        BY <1>2, <1>8, <2>6, <3>4, <4>1, <4>2 DEF Below
    <3>. QED
      BY <3>1, <3>2, <3>3, <3>4
  <2>8. Below(s2, r2) = IF right THEN R \cup {N + 1} ELSE R
    <3>1. CASE right /\ r = 0
      BY <1>2, <1>8, <2>3, <2>6, <3>1 DEF Below
    <3>2. CASE right /\ r # 0
      <4>1. r \in P /\ r2 = r
        BY <1>3, <2>3, <2>4, <3>2
      <4>. QED
        BY <1>2, <1>8, <2>6, <3>2, <4>1 DEF Below
    <3>3. CASE ~right /\ r = 0
      BY <1>2, <2>3, <3>3 DEF Below
    <3>4. CASE ~right /\ r # 0
      <4>1. r \notin P
        BY <2>4, <2>5, <3>4
      <4>2. r2 = r
        BY <2>3, <3>4
      <4>. QED
        BY <1>2, <1>8, <2>6, <3>4, <4>1, <4>2 DEF Below
    <3>. QED
      BY <3>1, <3>2, <3>3, <3>4
  <2>9. /\ l2 \in {0} \cup (p + 1 .. N + 1) /\ r2 \in {0} \cup (p + 1 .. N + 1)
        /\ (l2 # 0 => u2[l2] = p) /\ (r2 # 0 => u2[r2] = p)
    <3>1. N + 1 \in p + 1 .. N + 1 /\ \A c \in p + 1 .. N : c \in p + 1 .. N + 1
      BY <1>2
    <3>2. ASSUME (left /\ l = 0) \/ (right /\ r = 0) PROVE parent = p
      BY <1>5, <2>4, <3>2
    <3>3. \A c \in {l, r} \ {0} : u2[c] = p
      BY <1>8, <2>4, <2>6
    <3>. HIDE DEF left, right
    <3>4. l2 \in {0} \cup (p + 1 .. N + 1) /\ (l2 # 0 => u2[l2] = p)
      <4>1. CASE left /\ l = 0
        <5>1. l2 = N + 1
          BY <2>3, <4>1
        <5>2. parent = p
          BY <3>2, <4>1
        <5>. QED
          BY <1>8, <3>1, <5>1, <5>2
      <4>2. CASE ~(left /\ l = 0)
        <5>1. l2 = l
          BY <2>3, <4>2
        <5>. QED
          BY <2>1, <3>1, <3>3, <5>1
      <4>. QED
        BY <4>1, <4>2
    <3>5. r2 \in {0} \cup (p + 1 .. N + 1) /\ (r2 # 0 => u2[r2] = p)
      <4>1. CASE right /\ r = 0
        <5>1. r2 = N + 1
          BY <2>3, <4>1
        <5>2. parent = p
          BY <3>2, <4>1
        <5>. QED
          BY <1>8, <3>1, <5>1, <5>2
      <4>2. CASE ~(right /\ r = 0)
        <5>1. r2 = r
          BY <2>3, <4>2
        <5>. QED
          BY <2>1, <3>1, <3>3, <5>1
      <4>. QED
        BY <4>1, <4>2
    <3>. QED
      BY <3>4, <3>5
  <2>10. N + 1 \notin L /\ N + 1 \notin R /\ N + 1 # p /\ ~(left /\ right)
    <3>1. N + 1 \notin 1 .. N
      BY <1>2
    <3>. QED
      BY <2>2, <3>1
  <2>11. s2[p] = {p} \cup Below(s2, l2) \cup Below(s2, r2)
    <3>1. s2[p] = IF left \/ right THEN sub[p] \cup {N + 1} ELSE sub[p]
      BY <1>8
    <3>. QED
      BY <2>1, <2>7, <2>8, <3>1
  <2>12. new[p].count = Cardinality(Below(s2, l2))
    <3>1. IsFiniteSet(L)
      <4>1. IsFiniteSet(1 .. N)
        BY <1>2, FS_Interval
      <4>. QED
        BY <2>2, <4>1, FS_Subset
    <3>2. Cardinality(L \cup {N + 1}) = Cardinality(L) + 1
      BY <2>10, <3>1, FS_AddElement
    <3>. QED
      BY <2>1, <2>3, <2>7, <3>2
  <2>13. /\ \A q \in 1 .. N : new[q].data_val = tree[q].data_val
         /\ new[N + 1].data_val = v
         /\ left => v <= tree[p].data_val
         /\ right => tree[p].data_val <= v
    <3>1. \A q \in 1 .. N : new[q].data_val = tree[q].data_val
      BY <1>4 DEF Inserted
    <3>2. tree[p].data_val \in Nat
      <4>1. tree[p] \in Node
        BY <1>2 DEF N
      <4>. QED
        BY <4>1 DEF Node
    <3>. QED
      BY <1>4, <3>1, <3>2 DEF GoesLeft
  <2>. HIDE DEF l2, r2, L, R, left, right, l, r
  <2>14. \A q \in Below(s2, l2) : new[q].data_val <= new[p].data_val
    BY <2>1, <2>2, <2>3, <2>7, <2>13
  <2>15. \A q \in Below(s2, r2) : new[p].data_val <= new[q].data_val
    BY <2>1, <2>2, <2>3, <2>8, <2>13
  <2>16. p \notin Below(s2, l2) /\ p \notin Below(s2, r2) /\ Below(s2, l2) \cap Below(s2, r2) = {}
    BY <2>1, <2>7, <2>8, <2>10
  <2>. QED
    BY <1>2, <1>4, <2>9, <2>11, <2>12, <2>14, <2>15, <2>16 DEF NodeSound, l2, r2
<1>12. \A p \in 1 .. N + 1 : NodeSound(new, s2, u2, p)
  <2>1. \A p \in 1 .. N + 1 : p = N + 1 \/ p \in 1 .. N
    BY <1>2
  <2>. QED
    BY <1>10, <1>11, <2>1
<1>13. TreeSound(new, s2, u2)
  BY <1>4, <1>7, <1>9, <1>12 DEF TreeSound
<1>. QED
  BY <1>13 DEF IsTree, new

\* Sets of nodes, counted.
LEMMA NodesCounted ==
    ASSUME NEW n \in Nat, NEW S \in SUBSET (1 .. n), NEW T \in SUBSET (1 .. n)
    PROVE  /\ Cardinality(S) \in Nat /\ Cardinality(T) \in Nat
           /\ S \subseteq T => Cardinality(S) <= Cardinality(T)
           /\ Cardinality(S) > 0 => S # {}
<1>1. IsFiniteSet(1 .. n)
  BY FS_Interval
<1>2. IsFiniteSet(S) /\ IsFiniteSet(T)
  BY <1>1, FS_Subset
<1>3. Cardinality(S) \in Nat /\ Cardinality(T) \in Nat
  BY <1>2, FS_CardinalityType
<1>5. S \subseteq T => Cardinality(S) <= Cardinality(T)
  BY <1>2, FS_Subset
<1>. QED
  BY <1>3, <1>5, FS_EmptySet

LEMMA DisjointCounted ==
    ASSUME NEW n \in Nat, NEW S \in SUBSET (1 .. n), NEW T \in SUBSET (1 .. n), S \cap T = {}
    PROVE  Cardinality(S \cup T) = Cardinality(S) + Cardinality(T)
<1>1. IsFiniteSet(S) /\ IsFiniteSet(T)
  <2>1. IsFiniteSet(1 .. n)
    BY FS_Interval
  <2>. QED
    BY <2>1, FS_Subset
<1>2. Cardinality(S \cup T) = Cardinality(S) + Cardinality(T) - Cardinality(S \cap T)
  BY <1>1, FS_Union
<1>3. Cardinality(S \cap T) = 0
  BY FS_EmptySet
<1>4. Cardinality(S) \in Nat /\ Cardinality(T) \in Nat
  BY NodesCounted
<1>. QED
  BY <1>2, <1>3, <1>4

\* The search for the value number m of a tree has come to node w.p: the values before
\* the subtree of this node are as many as are skipped, the others come behind it.
Upto(tree, j, q) == tree[j].data_val <= tree[q].data_val
Located(tree, sub, m, w) ==
    LET N == Len(tree)
    IN  /\ w.p \in 1 .. N /\ w.index \in Nat /\ w.index < Cardinality(sub[w.p])
        /\ \E B \in SUBSET (1 .. N) :
              /\ B \cap sub[w.p] = {} /\ Cardinality(B) + w.index = m
              /\ \A j \in B, q \in sub[w.p] : Upto(tree, j, q)
              /\ \A j \in (1 .. N) \ (B \cup sub[w.p]), q \in sub[w.p] : Upto(tree, q, j)

\* x is the value number m, from 0.
Numbered(tree, m, x) ==
    /\ Cardinality({j \in 1 .. Len(tree) : tree[j].data_val < x}) <= m
    /\ Cardinality({j \in 1 .. Len(tree) : tree[j].data_val <= x}) > m

\* The step of the search, and where it ends.
Down(tree, w) ==
    IF w.p = NULL \/ w.index = tree[w.p].count THEN w
    ELSE IF w.index < tree[w.p].count THEN [p |-> tree[w.p].lp, index |-> w.index]
    ELSE [p |-> tree[w.p].rp, index |-> w.index - tree[w.p].count - 1]

LEMMA LocatedStep ==
    ASSUME NEW tree, NEW sub, NEW up, TreeSound(tree, sub, up), NEW m \in Nat,
           NEW w, Located(tree, sub, m, w), w.index # tree[w.p].count
    PROVE  Located(tree, sub, m, Down(tree, w)) /\ Down(tree, w).p > w.p
<1>. DEFINE N == Len(tree)
            p == w.p
            n == w.index
            l == tree[p].lp
            r == tree[p].rp
            L == Below(sub, l)
            R == Below(sub, r)
            c == tree[p].count
<1>1. N \in Nat /\ NULL = 0 /\ p \in 1 .. N /\ n \in Nat /\ n < Cardinality(sub[p])
  BY DEF TreeSound, Located, NULL
<1>2. PICK B \in SUBSET (1 .. N) :
        /\ B \cap sub[p] = {} /\ Cardinality(B) + n = m
        /\ \A j \in B, q \in sub[p] : Upto(tree, j, q)
        /\ \A j \in (1 .. N) \ (B \cup sub[p]), q \in sub[p] : Upto(tree, q, j)
  BY DEF Located
<1>3. sub \in [1 .. N -> SUBSET (1 .. N)] /\ NodeSound(tree, sub, up, p)
  BY <1>1 DEF TreeSound
<1>4. /\ l \in {0} \cup (p + 1 .. N) /\ r \in {0} \cup (p + 1 .. N)
      /\ sub[p] = {p} \cup L \cup R /\ p \notin L /\ p \notin R /\ L \cap R = {}
      /\ c = Cardinality(L)
      /\ \A q \in L : Upto(tree, q, p)
      /\ \A q \in R : Upto(tree, p, q)
  BY <1>1, <1>3 DEF NodeSound, Upto
<1>5. L \in SUBSET (1 .. N) /\ R \in SUBSET (1 .. N) /\ {p} \in SUBSET (1 .. N)
  <2>1. \A q \in {0} \cup (p + 1 .. N) : Below(sub, q) \subseteq 1 .. N
    <3>1. p + 1 .. N \subseteq 1 .. N
      BY <1>1
    <3>. QED
      BY <1>1, <1>3, <3>1 DEF Below
  <2>. QED
    BY <1>1, <1>4, <2>1
<1>6. ASSUME NEW x \in L, NEW y \in R PROVE Upto(tree, x, y)
  <2>1. \A q \in 1 .. N : tree[q].data_val \in Nat
    <3>1. \A q \in 1 .. N : tree[q] \in Node
      BY DEF TreeSound
    <3>. QED
      BY <3>1 DEF Node
  <2>2. x \in 1 .. N /\ y \in 1 .. N /\ Upto(tree, x, p) /\ Upto(tree, p, y)
    BY <1>4, <1>5, <1>6
  <2>. QED
    BY <1>1, <2>1, <2>2 DEF Upto
<1>7. Cardinality({p}) = 1 /\ c \in Nat /\ Cardinality(R) \in Nat /\ Cardinality(B) \in Nat
      /\ Cardinality({p} \cup L) = c + 1 /\ Cardinality(sub[p]) = c + 1 + Cardinality(R)
  <2>. DEFINE O == {p}
              M == O \cup L
  <2>1. Cardinality(O) = 1
    BY FS_Singleton
  <2>2. c = Cardinality(L) /\ sub[p] = M \cup R /\ N \in Nat
    BY <1>1, <1>4
  <2>3. O \in SUBSET (1 .. N) /\ L \in SUBSET (1 .. N) /\ O \cap L = {}
    BY <1>4, <1>5
  <2>4. M \in SUBSET (1 .. N) /\ R \in SUBSET (1 .. N) /\ M \cap R = {}
    BY <1>4, <1>5
  <2>. HIDE DEF L, R, O, c, N
  <2>5. Cardinality(L) \in Nat /\ Cardinality(R) \in Nat
    BY <2>2, <2>3, <2>4, NodesCounted
  <2>6. Cardinality(B) \in Nat
    BY <1>2, <2>2, NodesCounted
  <2>7. Cardinality(M) = Cardinality(O) + Cardinality(L)
    BY <2>2, <2>3, DisjointCounted
  <2>. HIDE DEF M
  <2>8. Cardinality(M \cup R) = Cardinality(M) + Cardinality(R)
    BY <2>2, <2>4, DisjointCounted
  <2>9. Cardinality(M) = c + 1 /\ Cardinality(sub[p]) = c + 1 + Cardinality(R)
    BY <2>1, <2>2, <2>5, <2>7, <2>8
  <2>. QED
    BY <2>1, <2>2, <2>5, <2>6, <2>9 DEF M, O
<1>. HIDE DEF L, R, c, N, l, r
<1>8. CASE n < c
  <2>. DEFINE d == [p |-> l, index |-> n]
  <2>1. Down(tree, w) = d
    BY <1>1, <1>7, <1>8 DEF Down, l, c
  <2>2. L # {}
    BY <1>1, <1>4, <1>5, <1>7, <1>8, NodesCounted
  <2>3. l # 0 /\ l \in p + 1 .. N
    BY <1>1, <1>4, <2>2 DEF Below, L
  <2>4. L = sub[l]
    BY <1>1, <2>3 DEF Below, L
  <2>5. /\ B \cap L = {}
        /\ \A j \in B, q \in L : Upto(tree, j, q)
        /\ \A j \in (1 .. N) \ (B \cup L), q \in L : Upto(tree, q, j)
    BY <1>2, <1>4, <1>6
  <2>6. l \in 1 .. N /\ l > p
    BY <1>1, <2>3
  <2>7. Located(tree, sub, m, d)
    BY <1>1, <1>2, <1>4, <1>8, <2>4, <2>5, <2>6 DEF Located, N
  <2>. QED
    BY <2>1, <2>6, <2>7
<1>9. CASE ~(n < c)
  <2>. DEFINE k == n - c - 1
              d == [p |-> r, index |-> k]
              C == B \cup ({p} \cup L)
  <2>1. Down(tree, w) = d
    BY <1>1, <1>7, <1>9 DEF Down, r, c
  <2>2. n # c
    BY DEF c
  <2>3. k \in Nat /\ k < Cardinality(R)
    BY <1>1, <1>7, <1>9, <2>2
  <2>4. R # {}
    <3>. HIDE DEF k
    <3>. QED
      BY <1>1, <1>5, <1>7, <2>3, NodesCounted
  <2>5. r # 0 /\ r \in p + 1 .. N
    BY <1>1, <1>4, <2>4 DEF Below, R
  <2>6. R = sub[r]
    BY <1>1, <2>5 DEF Below, R
  <2>7. /\ C \cap R = {}
        /\ \A j \in C, q \in R : Upto(tree, j, q)
        /\ \A j \in (1 .. N) \ (C \cup R), q \in R : Upto(tree, q, j)
    BY <1>2, <1>4, <1>6
  <2>8. C \in SUBSET (1 .. N) /\ Cardinality(C) + k = m
    <3>1. B \cap ({p} \cup L) = {} /\ {p} \cup L \in SUBSET (1 .. N)
      BY <1>2, <1>4, <1>5
    <3>2. Cardinality(C) = Cardinality(B) + Cardinality({p} \cup L)
      <4>. DEFINE M == {p} \cup L
      <4>1. B \in SUBSET (1 .. N) /\ M \in SUBSET (1 .. N) /\ B \cap M = {}
        BY <1>2, <3>1
      <4>. HIDE DEF M
      <4>2. Cardinality(B \cup M) = Cardinality(B) + Cardinality(M)
        BY <1>1, <4>1, DisjointCounted
      <4>. QED
        BY <4>2 DEF M
    <3>. HIDE DEF C
    <3>3. Cardinality(C) + k = m
      BY <1>1, <1>2, <1>7, <3>2
    <3>. QED
      BY <1>2, <3>1, <3>3 DEF C
  <2>9. r \in 1 .. N /\ r > p
    BY <1>1, <2>5
  <2>. HIDE DEF C, k
  <2>10. Located(tree, sub, m, d)
    BY <2>3, <2>6, <2>7, <2>8, <2>9 DEF Located, N
  <2>. QED
    BY <2>1, <2>9, <2>10
<1>. QED
  BY <1>8, <1>9

LEMMA LocatedEnd ==
    ASSUME NEW tree, NEW sub, NEW up, TreeSound(tree, sub, up), NEW m \in Nat,
           NEW w, Located(tree, sub, m, w), w.index = tree[w.p].count
    PROVE  Numbered(tree, m, tree[w.p].data_val)
<1>. DEFINE N == Len(tree)
            p == w.p
            L == Below(sub, tree[p].lp)
            R == Below(sub, tree[p].rp)
            x == tree[p].data_val
            Less == {j \in 1 .. N : tree[j].data_val < x}
            NoMore == {j \in 1 .. N : tree[j].data_val <= x}
            n == Cardinality(L)
<1>1. N \in Nat /\ NULL = 0 /\ p \in 1 .. N /\ sub \in [1 .. N -> SUBSET (1 .. N)]
  BY DEF TreeSound, Located, NULL
<1>2. PICK B \in SUBSET (1 .. N) :
        /\ B \cap sub[p] = {} /\ Cardinality(B) + w.index = m
        /\ \A j \in B, q \in sub[p] : Upto(tree, j, q)
        /\ \A j \in (1 .. N) \ (B \cup sub[p]), q \in sub[p] : Upto(tree, q, j)
  BY DEF Located
<1>3. NodeSound(tree, sub, up, p)
  BY <1>1 DEF TreeSound
<1>4. /\ sub[p] = {p} \cup L \cup R /\ p \notin L
      /\ w.index = n
      /\ \A q \in L : Upto(tree, q, p)
      /\ \A q \in R : Upto(tree, p, q)
  BY <1>3 DEF NodeSound, Upto
<1>5. \A q \in 1 .. N : tree[q].data_val \in Nat
  <2>1. \A q \in 1 .. N : tree[q] \in Node
    BY DEF TreeSound
  <2>. QED
    BY <2>1 DEF Node
<1>6. L \in SUBSET (1 .. N) /\ R \in SUBSET (1 .. N) /\ x \in Nat
  BY <1>1, <1>4, <1>5
<1>. HIDE DEF L, R, N, p
<1>7. Less \subseteq B \cup L
  <2>. SUFFICES ASSUME NEW j \in 1 .. N, j \notin B, j \notin L
                PROVE  ~(tree[j].data_val < x)
    OBVIOUS
  <2>1. j \in R \/ j = p \/ j \in (1 .. N) \ (B \cup sub[p])
    BY <1>4
  <2>2. j = p \/ Upto(tree, p, j)
    BY <1>2, <1>4, <2>1
  <2>3. x <= tree[j].data_val
    BY <1>5, <1>6, <2>2 DEF Upto
  <2>. QED
    BY <1>5, <1>6, <2>3
<1>8. {p} \cup (B \cup L) \subseteq NoMore
  <2>. SUFFICES ASSUME NEW j \in {p} \cup (B \cup L) PROVE j \in NoMore
    OBVIOUS
  <2>1. j \in 1 .. N
    BY <1>1, <1>2, <1>6
  <2>2. j = p \/ Upto(tree, j, p)
    BY <1>2, <1>4
  <2>3. tree[j].data_val <= x
    BY <1>5, <1>6, <2>2 DEF Upto
  <2>. QED
    BY <2>1, <2>3
<1>9. Cardinality(B \cup L) = m /\ m \in Nat
  <2>1. B \cap L = {}
    BY <1>2, <1>4
  <2>2. N \in Nat /\ B \in SUBSET (1 .. N) /\ L \in SUBSET (1 .. N)
    BY <1>1, <1>2, <1>6
  <2>3. Cardinality(B \cup L) = Cardinality(B) + Cardinality(L)
    BY <2>1, <2>2, DisjointCounted
  <2>. QED
    BY <1>2, <1>4, <2>3
<1>10. Cardinality({p} \cup (B \cup L)) = m + 1
  <2>. DEFINE O == {p}
              M == B \cup L
  <2>1. N \in Nat /\ M \in SUBSET (1 .. N) /\ O \in SUBSET (1 .. N) /\ O \cap M = {}
    BY <1>1, <1>2, <1>4, <1>6
  <2>2. Cardinality(M) = m
    BY <1>9
  <2>3. Cardinality(O) = 1
    BY FS_Singleton
  <2>. HIDE DEF M, O
  <2>4. Cardinality(O \cup M) = Cardinality(O) + Cardinality(M)
    BY <2>1, DisjointCounted
  <2>5. Cardinality(O \cup M) = m + 1
    BY <1>9, <2>2, <2>3, <2>4
  <2>. QED
    BY <2>5 DEF M, O
<1>11. Less \in SUBSET (1 .. N) /\ NoMore \in SUBSET (1 .. N)
       /\ B \cup L \in SUBSET (1 .. N) /\ {p} \cup (B \cup L) \in SUBSET (1 .. N)
  BY <1>1, <1>2, <1>6
<1>. HIDE DEF Less, NoMore
<1>12. Cardinality(Less) <= m
  <2>. DEFINE M == B \cup L
  <2>1. M \in SUBSET (1 .. N) /\ Less \subseteq M /\ Cardinality(M) = m
    BY <1>7, <1>9, <1>11
  <2>. HIDE DEF M
  <2>2. Cardinality(Less) <= Cardinality(M)
    BY <1>1, <1>11, <2>1, NodesCounted
  <2>. QED
    BY <2>1, <2>2
<1>13. Cardinality(NoMore) >= m + 1 /\ Cardinality(NoMore) \in Nat
  <2>. DEFINE M == {p} \cup (B \cup L)
  <2>1. M \in SUBSET (1 .. N) /\ M \subseteq NoMore /\ Cardinality(M) = m + 1
    BY <1>8, <1>10, <1>11
  <2>. HIDE DEF M
  <2>2. Cardinality(M) <= Cardinality(NoMore) /\ Cardinality(NoMore) \in Nat
    BY <1>1, <1>11, <2>1, NodesCounted
  <2>. QED
    BY <2>1, <2>2
<1>14. Cardinality(NoMore) > m
  BY <1>9, <1>13
<1>. QED
  BY <1>12, <1>14 DEF Numbered, Less, NoMore, N, x, p

\* _get_list finds the value of any number there is.
LEMMA GetListFinds ==
    ASSUME NEW tree, IsTree(tree), NEW m \in Nat, m < Len(tree)
    PROVE  Numbered(tree, m, GetList(tree, m))
<1>. DEFINE N == Len(tree)
            S == [p : 0 .. N, index : Int]
            a == [p |-> 1, index |-> m]
            g == [w \in S |-> Down(tree, w)]
            IsAt(f) == f = [k \in 0 .. N |->
                              IF k = 0 THEN a
                              ELSE IF f[k - 1].p = NULL \/ f[k - 1].index = tree[f[k - 1].p].count
                                   THEN f[k - 1]
                              ELSE IF f[k - 1].index < tree[f[k - 1].p].count
                                   THEN [p |-> tree[f[k - 1].p].lp, index |-> f[k - 1].index]
                              ELSE [p |-> tree[f[k - 1].p].rp,
                                    index |-> f[k - 1].index - tree[f[k - 1].p].count - 1]]
            at == CHOOSE f : IsAt(f)
<1>1. PICK sub, up : TreeSound(tree, sub, up)
  BY DEF IsTree
<1>2. /\ N \in Nat /\ N > 0 /\ NULL = 0 /\ sub[1] = 1 .. N
      /\ sub \in [1 .. N -> SUBSET (1 .. N)]
  <2>1. Len(tree) \in Nat /\ Len(tree) > 0
    BY <1>1 DEF TreeSound
  <2>. QED
    BY <1>1, <2>1 DEF TreeSound, NULL
<1>3. GetList(tree, m) = tree[at[N].p].data_val
  BY DEF GetList
<1>4. a \in S
  BY <1>2
<1>5. ASSUME NEW w \in S PROVE Down(tree, w) \in S
  <2>1. CASE w.p = 0 \/ w.index = tree[w.p].count
    BY <1>2, <1>5, <2>1 DEF Down
  <2>2. CASE ~(w.p = 0 \/ w.index = tree[w.p].count)
    <3>1. w.p \in 1 .. N /\ w.index \in Int
      BY <1>2, <1>5, <2>2
    <3>2. tree[w.p] \in Node /\ NodeSound(tree, sub, up, w.p)
      BY <1>1, <3>1 DEF TreeSound
    <3>3. /\ tree[w.p].lp \in {0} \cup (w.p + 1 .. N) /\ tree[w.p].rp \in {0} \cup (w.p + 1 .. N)
          /\ tree[w.p].count \in Nat
      BY <1>2, <3>2 DEF NodeSound, Node
    <3>4. tree[w.p].lp \in 0 .. N /\ tree[w.p].rp \in 0 .. N
      BY <1>2, <3>1, <3>3
    <3>5. w.index - tree[w.p].count - 1 \in Int
      BY <3>1, <3>3
    <3>. QED
      BY <1>2, <2>2, <3>1, <3>4, <3>5 DEF Down
  <2>. QED
    BY <2>1, <2>2
<1>6. g \in [S -> S] /\ \A w \in S : g[w] = Down(tree, w)
  BY <1>5
<1>. HIDE DEF S, a, g, N
<1>7. PICK f \in [0 .. N -> S] : IsIterated(f, g, a, N)
  BY <1>2, <1>4, <1>6, IterateExists, Zenon
<1>8. IsAt(f)
  <2>1. \A k \in 1 .. N : k - 1 \in 0 .. N /\ f[k] = g[f[k - 1]]
    <3>1. \A k \in 1 .. N : f[k] = g[f[k - 1]]
      BY <1>7 DEF IsIterated
    <3>. QED
      BY <1>2, <3>1
  <2>2. \A k \in 1 .. N : f[k] = Down(tree, f[k - 1])
    BY <1>6, <1>7, <2>1
  <2>3. \A k \in 0 .. N : k = 0 \/ k \in 1 .. N
    BY <1>2
  <2>4. f[0] = a
    BY <1>7 DEF IsIterated
  <2>5. f = [k \in 0 .. N |-> f[k]]
    BY <1>7
  <2>. DEFINE F(k) == IF k = 0 THEN a
                      ELSE IF f[k - 1].p = NULL \/ f[k - 1].index = tree[f[k - 1].p].count
                           THEN f[k - 1]
                      ELSE IF f[k - 1].index < tree[f[k - 1].p].count
                           THEN [p |-> tree[f[k - 1].p].lp, index |-> f[k - 1].index]
                      ELSE [p |-> tree[f[k - 1].p].rp,
                            index |-> f[k - 1].index - tree[f[k - 1].p].count - 1]
  <2>6. ASSUME NEW k \in 0 .. N PROVE f[k] = F(k)
    <3>1. CASE k = 0
      BY <2>4, <3>1
    <3>2. CASE k # 0
      BY <2>2, <2>3, <3>2 DEF Down
    <3>. QED
      BY <3>1, <3>2
  <2>. HIDE DEF F
  <2>7. f = [k \in 0 .. N |-> F(k)]
    BY <2>5, <2>6
  <2>. QED
    BY <2>7 DEF F
<1>9. IsAt(at)
  <2>. HIDE DEF IsAt
  <2>. QED
    BY <1>8, Zenon
<1>. HIDE DEF at
<1>10. at[0] = a /\ \A k \in 1 .. N : at[k] = Down(tree, at[k - 1])
  <2>1. \A k \in 0 .. N :
          at[k] = IF k = 0 THEN a
                  ELSE IF at[k - 1].p = NULL \/ at[k - 1].index = tree[at[k - 1].p].count
                       THEN at[k - 1]
                  ELSE IF at[k - 1].index < tree[at[k - 1].p].count
                       THEN [p |-> tree[at[k - 1].p].lp, index |-> at[k - 1].index]
                  ELSE [p |-> tree[at[k - 1].p].rp,
                        index |-> at[k - 1].index - tree[at[k - 1].p].count - 1]
    BY <1>9, Zenon
  <2>2. 0 \in 0 .. N /\ \A k \in 1 .. N : k \in 0 .. N /\ k # 0
    BY <1>2
  <2>. QED
    BY <2>1, <2>2 DEF Down
<1>. DEFINE There(w) == w.index = tree[w.p].count
            Good(k) == Located(tree, sub, m, at[k]) /\ (There(at[k]) \/ at[k].p > k)
<1>11. Good(0)
  <2>1. Cardinality(sub[1]) = N
    <3>1. Cardinality(1 .. N) = N
      BY <1>2, FS_Interval
    <3>. QED
      BY <1>2, <3>1
  <2>2. at[0].p = 1 /\ at[0].index = m
    BY <1>10 DEF a
  <2>3. {} \in SUBSET (1 .. N) /\ Cardinality({}) = 0 /\ Cardinality({}) + m = m
    BY FS_EmptySet
  <2>4. 1 \in 1 .. N /\ m < N
    BY <1>2 DEF N
  <2>5. Located(tree, sub, m, at[0])
    BY <1>2, <2>1, <2>2, <2>3, <2>4 DEF Located, N
  <2>. QED
    BY <2>2, <2>5
<1>12. ASSUME NEW k \in 1 .. N, Good(k - 1) PROVE Good(k)
  <2>1. at[k] = Down(tree, at[k - 1])
    BY <1>10
  <2>2. Located(tree, sub, m, at[k - 1]) /\ at[k - 1].p \in 1 .. N
    BY <1>12 DEF Located, N
  <2>3. CASE There(at[k - 1])
    <3>1. at[k] = at[k - 1]
      BY <2>1, <2>3 DEF Down
    <3>. QED
      BY <2>2, <2>3, <3>1
  <2>4. CASE ~There(at[k - 1])
    <3>1. Located(tree, sub, m, at[k]) /\ at[k].p > at[k - 1].p
      BY <1>1, <2>1, <2>2, <2>4, LocatedStep
    <3>2. at[k].p \in 1 .. N
      BY <3>1 DEF Located, N
    <3>3. at[k - 1].p > k - 1
      BY <1>12, <2>4
    <3>4. at[k].p > k
      BY <1>2, <2>2, <3>1, <3>2, <3>3
    <3>. QED
      BY <3>1, <3>4
  <2>. QED
    BY <2>3, <2>4
<1>. HIDE DEF Good
<1>13. Good(N)
  <2>. DEFINE Off == {k \in 0 .. N : ~Good(k)}
  <2>1. SUFFICES ASSUME Off # {} PROVE FALSE
    <3>1. N \in 0 .. N
      BY <1>2
    <3>. QED
      BY <3>1
  <2>2. PICK k \in Off : \A j \in Off : k <= j
    <3>1. Off \in SUBSET Nat
      OBVIOUS
    <3>. HIDE DEF Off
    <3>. QED
      BY <2>1, <3>1, LeastNumber, Zenon
  <2>3. k \in 0 .. N /\ ~Good(k)
    BY <2>2
  <2>4. k # 0
    BY <1>11, <2>3
  <2>5. k - 1 \in 0 .. N /\ k \in 1 .. N /\ k - 1 < k
    BY <1>2, <2>3, <2>4
  <2>6. k - 1 \notin Off
    <3>. HIDE DEF Off
    <3>. QED
      BY <2>2, <2>3, <2>5
  <2>7. Good(k - 1)
    BY <2>5, <2>6
  <2>. QED
    BY <1>12, <2>3, <2>5, <2>7
<1>14. Located(tree, sub, m, at[N]) /\ There(at[N])
  <2>1. Located(tree, sub, m, at[N]) /\ (There(at[N]) \/ at[N].p > N)
    BY <1>13 DEF Good
  <2>2. at[N].p \in 1 .. N
    BY <2>1 DEF Located, N
  <2>. QED
    BY <1>2, <2>1, <2>2
<1>15. Numbered(tree, m, tree[at[N].p].data_val)
  BY <1>1, <1>14, LocatedEnd
<1>. QED
  BY <1>3, <1>15

-----------------------------------------------------------------------------
(* Every sample is counted                                                 *)

\* The total of a sequence is what its partial sums c come to.
LEMMA TotalIs ==
    ASSUME NEW s \in Seq(Nat), NEW c \in [0 .. Len(s) -> Int], c[0] = 0,
           \A m \in 1 .. Len(s) : c[m] = c[m - 1] + s[m]
    PROVE  FoldLeft(+, 0, s) = c[Len(s)]
<1>. DEFINE N == Len(s)
            g == [z \in Int \X Nat |-> z[1] + z[2]]
            IsSum(f) == f = [t \in SUBSET DOMAIN s |->
                               IF t = {} THEN 0 ELSE f[t \ {Max(t)}] + s[Max(t)]]
<1>1. g \in [Int \X Nat -> Int] /\ \A n \in Int, x \in Nat : g[<<n, x>>] = n + x
  OBVIOUS
<1>2. N \in Nat /\ DOMAIN s = 1 .. N /\ \A m \in 1 .. N : s[m] \in Nat
  OBVIOUS
<1>3. FoldLeft(+, 0, s) = (CHOOSE f : IsSum(f))[1 .. N]
  BY <1>2 DEF FoldLeft, MapThenFoldSet
<1>. HIDE DEF g, N
<1>4. PICK f \in [SUBSET (1 .. N) -> Int] : IsFold(f, g, 0, s, N)
  <2>1. g \in [Int \X Nat -> Int] /\ 0 \in Int
    BY <1>1
  <2>2. \E f \in [SUBSET (1 .. Len(s)) -> Int] : IsFold(f, g, 0, s, Len(s))
    BY <2>1, FoldExists, Zenon
  <2>. QED
    BY <2>2 DEF N
<1>5. IsSum(f)
  <2>1. ASSUME NEW t \in SUBSET (1 .. N)
        PROVE  f[t] = IF t = {} THEN 0 ELSE f[t \ {Max(t)}] + s[Max(t)]
    <3>1. f[t] = FoldStep(f, g, 0, s, t)
      BY <1>4 DEF IsFold
    <3>2. CASE t = {}
      BY <3>1, <3>2 DEF FoldStep
    <3>3. CASE t # {}
      <4>1. Max(t) \in 1 .. N /\ t \ {Max(t)} \in SUBSET (1 .. N)
        BY <1>2, <3>3, MaxInside
      <4>2. f[t \ {Max(t)}] \in Int /\ s[Max(t)] \in Nat
        BY <1>2, <1>4, <4>1
      <4>. QED
        BY <1>1, <3>1, <3>3, <4>2 DEF FoldStep
    <3>. QED
      BY <3>2, <3>3
  <2>2. f = [t \in SUBSET (1 .. N) |-> f[t]]
    BY <1>4
  <2>. QED
    BY <1>2, <2>1, <2>2
<1>. DEFINE h == CHOOSE e : IsSum(e)
<1>6. IsSum(h)
  <2>. HIDE DEF IsSum
  <2>. QED
    BY <1>5, Zenon
<1>. HIDE DEF h
<1>7. ASSUME NEW m \in 0 .. N PROVE h[1 .. m] = c[m]
  <2>. DEFINE Off == {n \in 0 .. N : h[1 .. n] # c[n]}
  <2>. SUFFICES ASSUME Off # {} PROVE FALSE
    OBVIOUS
  <2>1. PICK n \in Off : \A k \in Off : n <= k
    <3>1. Off \in SUBSET Nat
      OBVIOUS
    <3>. HIDE DEF Off
    <3>. QED
      BY <3>1, LeastNumber, Zenon
  <2>2. n \in 0 .. N /\ h[1 .. n] # c[n]
    BY <2>1
  <2>3. \A t \in SUBSET (1 .. N) : h[t] = IF t = {} THEN 0 ELSE h[t \ {Max(t)}] + s[Max(t)]
    BY <1>2, <1>6
  <2>4. 1 .. n \in SUBSET (1 .. N)
    BY <1>2, <2>2
  <2>5. n # 0
    <3>1. 1 .. 0 = {}
      OBVIOUS
    <3>. QED
      BY <2>2, <2>3, <2>4, <3>1
  <2>6. n \in Nat \ {0} /\ n \in 1 .. N /\ n - 1 \in 0 .. N /\ n - 1 < n
    BY <1>2, <2>2, <2>5
  <2>7. Max(1 .. n) = n /\ (1 .. n) \ {n} = 1 .. n - 1 /\ 1 .. n # {}
    <3>1. Max(1 .. n) = n /\ (1 .. n) \ {n} = 1 .. n - 1
      BY <2>6, MaxOfInterval
    <3>2. n \in 1 .. n
      BY <2>6
    <3>. QED
      BY <3>1, <3>2, Zenon
  <2>8. n - 1 \notin Off
    <3>. HIDE DEF Off
    <3>. QED
      BY <2>1, <2>2, <2>6
  <2>9. h[1 .. n - 1] = c[n - 1]
    BY <2>6, <2>8
  <2>10. h[1 .. n] = h[1 .. n - 1] + s[n]
    BY <2>3, <2>4, <2>7
  <2>11. c[n] = c[n - 1] + s[n]
    BY <2>6 DEF N
  <2>. QED
    BY <2>2, <2>9, <2>10, <2>11
<1>8. N \in 0 .. N
  BY <1>2
<1>. QED
  BY <1>3, <1>7, <1>8 DEF h, N

\* A value more adds to the total.
LEMMA TotalGrows ==
    ASSUME NEW s \in Seq(Nat), NEW t \in Seq(Nat), Len(t) = Len(s) + 1,
           \A k \in 1 .. Len(s) : t[k] = s[k]
    PROVE  FoldLeft(+, 0, t) = FoldLeft(+, 0, s) + t[Len(t)]
<1>. DEFINE N == Len(t)
            g == [z \in Int \X Nat |-> z[1] + z[2]]
<1>1. /\ N \in Nat /\ Len(s) = N - 1 /\ N > 0
      /\ \A m \in 1 .. N : t[m] \in Nat
      /\ \A m \in 1 .. N - 1 : t[m] = s[m]
  OBVIOUS
<1>2. g \in [Int \X Nat -> Int] /\ (\A n \in Int, x \in Nat : g[<<n, x>>] = n + x) /\ 0 \in Int
  OBVIOUS
<1>. HIDE DEF g, N
<1>3. PICK f \in [SUBSET (1 .. N) -> Int] : IsFold(f, g, 0, t, N)
  <2>1. \E f \in [SUBSET (1 .. Len(t)) -> Int] : IsFold(f, g, 0, t, Len(t))
    BY <1>2, FoldExists, Zenon
  <2>. QED
    BY <2>1 DEF N
<1>. DEFINE c == [m \in 0 .. N |-> f[1 .. m]]
<1>4. \A m \in 0 .. N : 1 .. m \in SUBSET (1 .. N)
  BY <1>1
<1>5. c \in [0 .. N -> Int] /\ \A m \in 0 .. N : c[m] = f[1 .. m]
  BY <1>3, <1>4
<1>. HIDE DEF c
<1>6. c[0] = 0
  <2>1. 0 \in 0 .. N /\ 1 .. 0 = {}
    BY <1>1
  <2>2. f[{}] = FoldStep(f, g, 0, t, {})
    BY <1>3 DEF IsFold
  <2>. QED
    BY <1>5, <2>1, <2>2 DEF FoldStep
<1>7. ASSUME NEW m \in 1 .. N PROVE c[m] = c[m - 1] + t[m]
  <2>1. m \in Nat \ {0} /\ m \in 0 .. N /\ m - 1 \in 0 .. N
    BY <1>1
  <2>2. Max(1 .. m) = m /\ (1 .. m) \ {m} = 1 .. m - 1
    BY <2>1, MaxOfInterval
  <2>3. m \in 1 .. m
    BY <2>1
  <2>4. f[1 .. m] = FoldStep(f, g, 0, t, 1 .. m)
    BY <1>3, <1>4, <2>1 DEF IsFold
  <2>5. f[1 .. m] = g[<<f[1 .. m - 1], t[m]>>]
    BY <2>2, <2>3, <2>4, Zenon DEF FoldStep
  <2>6. f[1 .. m - 1] \in Int
    BY <1>3, <1>4, <2>1
  <2>7. f[1 .. m] = f[1 .. m - 1] + t[m]
    BY <1>1, <1>2, <2>5, <2>6
  <2>. QED
    BY <1>5, <2>1, <2>7
<1>8. FoldLeft(+, 0, t) = c[N]
  <2>1. c \in [0 .. Len(t) -> Int] /\ \A m \in 1 .. Len(t) : c[m] = c[m - 1] + t[m]
    BY <1>5, <1>7 DEF N
  <2>2. FoldLeft(+, 0, t) = c[Len(t)]
    BY <1>6, <2>1, TotalIs
  <2>. QED
    BY <2>2 DEF N
<1>9. FoldLeft(+, 0, s) = c[N - 1]
  <2>. DEFINE d == [m \in 0 .. N - 1 |-> c[m]]
  <2>1. \A m \in 0 .. N - 1 : m \in 0 .. N
    BY <1>1
  <2>2. d \in [0 .. N - 1 -> Int] /\ \A m \in 0 .. N - 1 : d[m] = c[m]
    BY <1>5, <2>1
  <2>. HIDE DEF d
  <2>3. d[0] = 0
    BY <1>1, <1>6, <2>2
  <2>4. ASSUME NEW m \in 1 .. N - 1 PROVE d[m] = d[m - 1] + s[m]
    <3>1. m \in 1 .. N /\ m \in 0 .. N - 1 /\ m - 1 \in 0 .. N - 1
      BY <1>1
    <3>2. c[m] = c[m - 1] + t[m] /\ t[m] = s[m]
      BY <1>1, <1>7, <3>1
    <3>. QED
      BY <2>2, <3>1, <3>2
  <2>5. d \in [0 .. Len(s) -> Int] /\ \A m \in 1 .. Len(s) : d[m] = d[m - 1] + s[m]
    BY <1>1, <2>2, <2>4
  <2>6. FoldLeft(+, 0, s) = d[Len(s)]
    BY <2>3, <2>5, TotalIs
  <2>7. N - 1 \in 0 .. N - 1
    BY <1>1
  <2>. QED
    BY <1>1, <2>2, <2>6, <2>7
<1>10. c[N] = c[N - 1] + t[N]
  BY <1>1, <1>7
<1>. QED
  BY <1>8, <1>9, <1>10 DEF N

LEMMA TotalOfNothing == FoldLeft(+, 0, << >>) = 0
<1>. DEFINE s == << >>
            c == [m \in 0 .. 0 |-> 0]
<1>1. s \in Seq(Nat) /\ Len(s) = 0
  OBVIOUS
<1>2. c \in [0 .. 0 -> Int] /\ c[0] = 0
  OBVIOUS
<1>. HIDE DEF s, c
<1>3. c \in [0 .. Len(s) -> Int] /\ \A m \in 1 .. Len(s) : c[m] = c[m - 1] + s[m]
  BY <1>1, <1>2
<1>4. FoldLeft(+, 0, s) = c[Len(s)]
  BY <1>1, <1>2, <1>3, TotalIs
<1>. QED
  BY <1>1, <1>2, <1>4 DEF s

\* Values are counted: in a sum, and each in its own node of a tree.
CountedBy(sum, tree, values) ==
    /\ sum = FoldLeft(+, 0, values)
    /\ IsTree(tree) /\ Len(tree) = Len(values)
    /\ \A k \in 1 .. Len(values) : tree[k].data_val = values[k]

\* Of a column, the values of the first n outputs that were taken are.
Column(c, n) == [k \in 1 .. n |-> taken[k][c]]
ColumnCounted(c, n) == CountedBy(sum_total[c], data_sort[c], Column(c, n))

\* In the loop of save_data, the columns from c_index on still lack the last output.
InLoop == {t \in Jobs : pc[t] \in {"value", "insert"}}
Pending(c) == InLoop # {} /\ c > c_index
CountedOf(c) == IF Pending(c) THEN num_samples - 1 ELSE num_samples

Sums ==
    /\ num_samples = Len(taken)
    /\ \A k \in 1 .. num_samples : Len(taken[k]) = cols
    /\ \A t \in InLoop : num_samples > 0 /\ taken[num_samples] = drp[t]
    /\ \A t \in InLoop : pc[t] = "insert" => c_index < cols /\ c_value = drp[t][c_index + 1]
    /\ \A c \in 1 .. MAX_OUTPUT : (c <= cols \/ cols = -1) => ColumnCounted(c, CountedOf(c))

LEMMA SumsInit == Init => Sums
<1>. SUFFICES ASSUME Init PROVE Sums
  OBVIOUS
<1>1. /\ num_samples = 0 /\ taken = << >> /\ InLoop = {}
      /\ \A c \in 1 .. MAX_OUTPUT : sum_total[c] = 0 /\ data_sort[c] = << >>
  BY DEF Init, InLoop
<1>2. Len(<< >>) = 0 /\ 1 .. 0 = {}
  OBVIOUS
<1>3. IsTree(<< >>)
  <2>. DEFINE e == [p \in 1 .. 0 |-> {}]
              u == [p \in 1 .. 0 |-> 0]
              tree == << >>
  <2>1. /\ tree \in Seq(Node) /\ Len(tree) = 0
        /\ e \in [1 .. 0 -> SUBSET (1 .. 0)] /\ u \in [1 .. 0 -> Nat]
    OBVIOUS
  <2>. HIDE DEF e, u, tree
  <2>2. TreeSound(tree, e, u)
    BY <1>2, <2>1 DEF TreeSound
  <2>. QED
    BY <2>2 DEF IsTree, tree
<1>4. ASSUME NEW c \in 1 .. MAX_OUTPUT PROVE ColumnCounted(c, 0)
  <2>1. Column(c, 0) = << >>
    BY DEF Column
  <2>2. CountedBy(0, << >>, << >>)
    BY <1>2, <1>3, TotalOfNothing DEF CountedBy
  <2>. QED
    BY <1>1, <2>1, <2>2 DEF ColumnCounted
<1>5. \A c \in 1 .. MAX_OUTPUT : CountedOf(c) = 0
  BY <1>1 DEF CountedOf, Pending
<1>. QED
  BY <1>1, <1>2, <1>4, <1>5 DEF Sums

\* What is counted stays so, as long as no output is taken and no column changes.
LEMMA CountedSame ==
    ASSUME NEW c, NEW n, ColumnCounted(c, n), sum_total'[c] = sum_total[c],
           data_sort'[c] = data_sort[c], \A k \in 1 .. n : taken'[k] = taken[k]
    PROVE  ColumnCounted(c, n)'
<1>1. Column(c, n)' = Column(c, n)
  BY DEF Column
<1>. QED
  BY <1>1 DEF ColumnCounted

LEMMA SumsSame ==
    ASSUME Sums, UNCHANGED <<stats, taken, num_samples, c_index, c_value>>,
           cols' = cols \/ (num_samples = 0 /\ cols = -1),
           \A t \in InLoop' : t \in InLoop /\ pc'[t] = pc[t] /\ drp'[t] = drp[t],
           InLoop' = InLoop
    PROVE  Sums'
<1>1. InLoop # {} => num_samples > 0
  BY DEF Sums
<1>2. /\ num_samples' = Len(taken')
      /\ \A k \in 1 .. num_samples' : Len(taken'[k]) = cols'
  BY DEF Sums
<1>3. \A t \in InLoop' : num_samples' > 0 /\ taken'[num_samples'] = drp'[t]
  BY DEF Sums
<1>4. \A t \in InLoop' : pc'[t] = "insert" => c_index' < cols' /\ c_value' = drp'[t][c_index' + 1]
  BY <1>1 DEF Sums
<1>5. ASSUME NEW c \in 1 .. MAX_OUTPUT, c <= cols' \/ cols' = -1
      PROVE  ColumnCounted(c, CountedOf(c))'
  <2>1. CountedOf(c)' = CountedOf(c)
    BY DEF CountedOf, Pending
  <2>2. ColumnCounted(c, CountedOf(c))
    BY <1>5 DEF Sums
  <2>. DEFINE n == CountedOf(c)
  <2>3. n' = n /\ stats' = stats /\ taken' = taken
    BY <2>1
  <2>. HIDE DEF n
  <2>4. Column(c, n)' = Column(c, n)
    BY <2>3 DEF Column
  <2>5. ColumnCounted(c, n)
    BY <2>2 DEF n
  <2>6. ColumnCounted(c, n)'
    BY <2>3, <2>4, <2>5 DEF ColumnCounted, stats
  <2>. QED
    BY <2>6 DEF n
<1>. QED
  BY <1>2, <1>3, <1>4, <1>5 DEF Sums

LEMMA CountedGrows ==
    ASSUME NEW sum, NEW tree, NEW s \in Seq(Nat), CountedBy(sum, tree, s),
           NEW t \in Seq(Nat), Len(t) = Len(s) + 1, \A k \in 1 .. Len(s) : t[k] = s[k]
    PROVE  CountedBy(sum + t[Len(t)], InsertSort(tree, t[Len(t)]), t)
<1>. DEFINE v == t[Len(t)]
            new == InsertSort(tree, v)
<1>1. Len(s) \in Nat /\ Len(t) \in 1 .. Len(t) /\ v \in Nat
  OBVIOUS
<1>2. /\ sum = FoldLeft(+, 0, s) /\ IsTree(tree) /\ Len(tree) = Len(s)
      /\ \A k \in 1 .. Len(s) : tree[k].data_val = s[k]
  BY DEF CountedBy
<1>3. tree \in Seq(Node)
  BY <1>2 DEF IsTree, TreeSound
<1>4. FoldLeft(+, 0, t) = FoldLeft(+, 0, s) + v
  BY TotalGrows
<1>5. IsTree(new)
  BY <1>1, <1>2, InsertKeepsTree
<1>6. IsInserted(new, tree, v)
  BY <1>1, <1>3, InsertSortIs
<1>7. Len(new) = Len(t) /\ new[Len(t)].data_val = v
  <2>. HIDE DEF new, v
  <2>1. /\ Len(new) = Len(tree) + 1
        /\ new[Len(tree) + 1] = [data_val |-> v, lp |-> NULL, rp |-> NULL, count |-> 0]
    BY <1>6 DEF IsInserted
  <2>2. Len(tree) + 1 = Len(t)
    BY <1>2
  <2>. QED
    BY <2>1, <2>2
<1>8. ASSUME NEW k \in 1 .. Len(t) PROVE new[k].data_val = t[k]
  <2>1. CASE k = Len(t)
    BY <1>7, <2>1
  <2>2. CASE k # Len(t)
    <3>1. k \in 1 .. Len(s)
      BY <1>1, <2>2
    <3>2. Inserted(new, tree, v, k)
      BY <1>2, <1>6, <3>1 DEF IsInserted
    <3>. QED
      BY <1>2, <3>1, <3>2 DEF Inserted
  <2>. QED
    BY <2>1, <2>2
<1>. HIDE DEF new, v
<1>9. CountedBy(sum + v, new, t)
  BY <1>2, <1>4, <1>5, <1>7, <1>8 DEF CountedBy
<1>. QED
  BY <1>9 DEF new, v

\* The values of a column are those of outputs that have so many columns.
LEMMA ColumnIs ==
    ASSUME Types, Sums, NEW c \in 1 .. MAX_OUTPUT, c <= cols, NEW n \in 0 .. num_samples
    PROVE  Column(c, n) \in Seq(Nat) /\ Len(Column(c, n)) = n
<1>1. /\ taken \in Seq(Seq(Nat)) /\ num_samples = Len(taken) /\ num_samples \in Nat
      /\ \A k \in 1 .. num_samples : Len(taken[k]) = cols
  BY DEF Types, Sums
<1>2. cols \in -1 .. MAX_OUTPUT /\ MAX_OUTPUT \in Nat
  BY RunAssumption DEF Types
<1>3. ASSUME NEW k \in 1 .. n PROVE taken[k][c] \in Nat
  <2>1. k \in 1 .. num_samples
    BY <1>1
  <2>2. taken[k] \in Seq(Nat) /\ Len(taken[k]) = cols
    BY <1>1, <2>1
  <2>3. c \in 1 .. Len(taken[k])
    BY <1>2, <2>2
  <2>. QED
    BY <2>2, <2>3
<1>4. n \in Nat
  BY <1>1
<1>. QED
  BY <1>3, <1>4 DEF Column

LEMMA SumsSave ==
    ASSUME Types, Exclusion, Compared, Sums, NEW t \in Jobs, SaveData(t)
    PROVE  Sums'
<1>1. /\ pc[t] = "save" /\ mutex = {} /\ num_samples' = num_samples + 1 /\ c_index' = 0
      /\ taken' = Append(taken, drp[t]) /\ pc' = [pc EXCEPT ![t] = "value"]
      /\ UNCHANGED <<drp, cols, c_value, stats>>
  BY DEF SaveData, Enters, Goto
<1>2. /\ taken \in Seq(Seq(Nat)) /\ num_samples = Len(taken) /\ num_samples \in Nat
      /\ drp[t] \in Seq(Nat) /\ Len(drp[t]) = cols /\ cols \in Nat /\ pc \in [Jobs -> Label]
      /\ \A k \in 1 .. num_samples : Len(taken[k]) = cols
  <2>1. taken \in Seq(Seq(Nat)) /\ num_samples \in Nat /\ drp[t] \in Seq(Nat) /\ pc \in [Jobs -> Label]
    BY DEF Types
  <2>2. Len(drp[t]) = cols
    BY <1>1 DEF Compared
  <2>. QED
    BY <2>1, <2>2 DEF Sums
<1>3. InLoop = {} /\ InLoop' = {t}
  <2>1. Saving = {}
    BY <1>1 DEF Exclusion
  <2>. QED
    BY <1>1, <1>2, <2>1 DEF Saving, InLoop
<1>4. /\ Len(taken') = num_samples' /\ taken'[num_samples'] = drp[t]
      /\ \A k \in 1 .. num_samples : taken'[k] = taken[k]
  BY <1>1, <1>2
<1>5. \A k \in 1 .. num_samples' : Len(taken'[k]) = cols'
  <2>1. \A k \in 1 .. num_samples' : k \in 1 .. num_samples \/ k = num_samples'
    BY <1>1, <1>2
  <2>. QED
    BY <1>1, <1>2, <1>4, <2>1
<1>6. \A u \in InLoop' : /\ num_samples' > 0 /\ taken'[num_samples'] = drp'[u]
                         /\ pc'[u] # "insert"
  BY <1>1, <1>2, <1>3, <1>4
<1>7. ASSUME NEW c \in 1 .. MAX_OUTPUT, c <= cols' \/ cols' = -1
      PROVE  ColumnCounted(c, CountedOf(c))'
  <2>. DEFINE n == num_samples
  <2>1. CountedOf(c) = n /\ c > 0
    BY <1>3 DEF CountedOf, Pending
  <2>2. ColumnCounted(c, n)
    BY <1>1, <1>7, <2>1 DEF Sums
  <2>3. CountedOf(c)' = n
    BY <1>1, <1>2, <1>3, <2>1 DEF CountedOf, Pending
  <2>. DEFINE m == CountedOf(c)'
  <2>4. [k \in 1 .. m |-> taken'[k][c]] = Column(c, n)
    BY <1>4, <2>3 DEF Column
  <2>5. CountedBy(sum_total'[c], data_sort'[c], [k \in 1 .. m |-> taken'[k][c]])
    BY <1>1, <2>2, <2>4 DEF ColumnCounted, stats
  <2>. QED
    BY <2>5 DEF ColumnCounted, Column
<1>. QED
  BY <1>4, <1>5, <1>6, <1>7 DEF Sums

LEMMA SumsValue ==
    ASSUME Types, Exclusion, Compared, Sums, NEW t \in Jobs, Value(t)
    PROVE  Sums'
<1>1. /\ pc[t] = "value" /\ c_index < cols /\ c_value' = drp[t][c_index + 1]
      /\ pc' = [pc EXCEPT ![t] = "insert"]
      /\ UNCHANGED <<drp, cols, num_samples, c_index, stats, taken>>
  BY DEF Value, Goto
<1>2. InLoop = {t} /\ InLoop' = {t} /\ pc'[t] = "insert"
  <2>1. \A u \in InLoop : u = t
    BY <1>1 DEF Exclusion, Saving, InLoop
  <2>. QED
    BY <1>1, <2>1 DEF Types, InLoop
<1>3. num_samples' = Len(taken') /\ \A k \in 1 .. num_samples' : Len(taken'[k]) = cols'
  BY <1>1 DEF Sums
<1>4. \A u \in InLoop' : num_samples' > 0 /\ taken'[num_samples'] = drp'[u]
  BY <1>1, <1>2 DEF Sums
<1>5. \A u \in InLoop' : pc'[u] = "insert" => c_index' < cols' /\ c_value' = drp'[u][c_index' + 1]
  BY <1>1, <1>2
<1>6. ASSUME NEW c \in 1 .. MAX_OUTPUT, c <= cols' \/ cols' = -1
      PROVE  ColumnCounted(c, CountedOf(c))'
  <2>. DEFINE n == CountedOf(c)
  <2>1. n' = n
    BY <1>1, <1>2 DEF CountedOf, Pending
  <2>2. ColumnCounted(c, n)
    BY <1>1, <1>6 DEF Sums
  <2>. HIDE DEF n
  <2>3. Column(c, n)' = Column(c, n)
    BY <1>1, <2>1 DEF Column
  <2>4. ColumnCounted(c, n)'
    BY <1>1, <2>2, <2>3 DEF ColumnCounted, stats
  <2>. QED
    BY <2>4 DEF n
<1>. QED
  BY <1>3, <1>4, <1>5, <1>6 DEF Sums

LEMMA SumsInsert ==
    ASSUME Types, Exclusion, Compared, Sums, NEW t \in Jobs, InsertValue(t)
    PROVE  Sums'
<1>. DEFINE d == c_index + 1
            N == num_samples
<1>1. /\ pc[t] = "insert" /\ d \in 1 .. MAX_OUTPUT /\ c_index' = d
      /\ sum_total' = [sum_total EXCEPT ![d] = @ + c_value]
      /\ data_sort' = [data_sort EXCEPT ![d] = InsertSort(@, c_value)]
      /\ pc' = [pc EXCEPT ![t] = "value"]
      /\ UNCHANGED <<drp, cols, num_samples, taken>>
  BY DEF InsertValue, Goto
<1>2. InLoop = {t} /\ InLoop' = {t} /\ pc'[t] = "value"
  <2>1. \A u \in InLoop : u = t
    BY <1>1 DEF Exclusion, Saving, InLoop
  <2>. QED
    BY <1>1, <2>1 DEF Types, InLoop
<1>3. /\ N \in Nat /\ N > 0 /\ taken[N] = drp[t]
      /\ c_index \in Nat /\ c_index < cols /\ c_value = drp[t][d]
      /\ sum_total \in [1 .. MAX_OUTPUT -> Nat]
      /\ data_sort \in [1 .. MAX_OUTPUT -> Seq(Node)]
      /\ cols \in -1 .. MAX_OUTPUT /\ MAX_OUTPUT \in Nat
  BY <1>1, <1>2, RunAssumption DEF Types, Sums
<1>4. num_samples' = Len(taken') /\ \A k \in 1 .. num_samples' : Len(taken'[k]) = cols'
  BY <1>1 DEF Sums
<1>5. \A u \in InLoop' : num_samples' > 0 /\ taken'[num_samples'] = drp'[u] /\ pc'[u] # "insert"
  BY <1>1, <1>2, <1>3
<1>6. ASSUME NEW c \in 1 .. MAX_OUTPUT, c <= cols' \/ cols' = -1
      PROVE  ColumnCounted(c, CountedOf(c))'
  <2>1. c <= cols /\ ColumnCounted(c, CountedOf(c))
    BY <1>1, <1>3, <1>6 DEF Sums
  <2>2. CASE c = d
    <3>. DEFINE s == Column(c, N - 1)
                u == Column(c, N)
    <3>1. CountedOf(c) = N - 1 /\ CountedOf(c)' = N
      BY <1>1, <1>2, <1>3, <2>2 DEF CountedOf, Pending
    <3>2. N - 1 \in 0 .. num_samples /\ N \in 0 .. num_samples
      BY <1>3
    <3>3. s \in Seq(Nat) /\ Len(s) = N - 1 /\ u \in Seq(Nat) /\ Len(u) = N
      BY <2>1, <3>2, ColumnIs
    <3>4. /\ \A k \in 1 .. N - 1 : u[k] = s[k]
          /\ u[N] = c_value
      <4>1. N \in 1 .. N /\ \A k \in 1 .. N - 1 : k \in 1 .. N
        BY <1>3
      <4>. QED
        BY <1>3, <2>2, <4>1 DEF Column
    <3>5. CountedBy(sum_total[c], data_sort[c], s)
      BY <2>1, <3>1 DEF ColumnCounted
    <3>. HIDE DEF s, u
    <3>6. CountedBy(sum_total[c] + u[Len(u)], InsertSort(data_sort[c], u[Len(u)]), u)
      <4>1. Len(u) = Len(s) + 1 /\ \A k \in 1 .. Len(s) : u[k] = s[k]
        BY <1>3, <3>3, <3>4
      <4>. QED
        BY <3>3, <3>5, <4>1, CountedGrows
    <3>7. sum_total'[c] = sum_total[c] + c_value /\ data_sort'[c] = InsertSort(data_sort[c], c_value)
      BY <1>1, <1>3, <2>2
    <3>8. CountedBy(sum_total'[c], data_sort'[c], u)
      BY <3>3, <3>4, <3>6, <3>7
    <3>9. [k \in 1 .. CountedOf(c)' |-> taken'[k][c]] = u
      BY <1>1, <3>1 DEF Column, u
    <3>. QED
      BY <3>8, <3>9 DEF ColumnCounted, Column
  <2>3. CASE c # d
    <3>. DEFINE n == CountedOf(c)
    <3>1. n' = n
      BY <1>1, <1>2, <1>3, <2>3 DEF CountedOf, Pending
    <3>2. sum_total'[c] = sum_total[c] /\ data_sort'[c] = data_sort[c]
      BY <1>1, <1>3, <2>3
    <3>3. ColumnCounted(c, n)
      BY <2>1
    <3>. HIDE DEF n
    <3>4. Column(c, n)' = Column(c, n)
      BY <1>1, <3>1 DEF Column
    <3>5. ColumnCounted(c, n)'
      BY <3>2, <3>3, <3>4 DEF ColumnCounted
    <3>. QED
      BY <3>5 DEF n
  <2>. QED
    BY <2>2, <2>3
<1>. QED
  BY <1>4, <1>5, <1>6 DEF Sums

LEMMA SumsFinish ==
    ASSUME Types, Exclusion, Compared, Sums, NEW t \in Jobs, Finish(t)
    PROVE  Sums'
<1>1. /\ pc[t] = "value" /\ c_index >= cols
      /\ pc' = [pc EXCEPT ![t] = "update"] \/ pc' = [pc EXCEPT ![t] = "loop"]
      /\ UNCHANGED <<drp, cols, num_samples, c_index, stats, taken>>
  BY DEF Finish, Goto
<1>2. InLoop = {t} /\ InLoop' = {}
  <2>1. \A u \in InLoop : u = t
    BY <1>1 DEF Exclusion, Saving, InLoop
  <2>. QED
    BY <1>1, <2>1 DEF Types, InLoop
<1>3. cols \in Nat /\ c_index \in Nat /\ cols # -1 /\ MAX_OUTPUT \in Nat
  <2>1. Len(drp[t]) = cols /\ drp[t] \in Seq(Nat)
    BY <1>1 DEF Compared, Saving, Types
  <2>. QED
    BY <2>1, RunAssumption DEF Types
<1>4. num_samples' = Len(taken') /\ \A k \in 1 .. num_samples' : Len(taken'[k]) = cols'
  BY <1>1 DEF Sums
<1>5. ASSUME NEW c \in 1 .. MAX_OUTPUT, c <= cols' \/ cols' = -1
      PROVE  ColumnCounted(c, CountedOf(c))'
  <2>. DEFINE n == CountedOf(c)
  <2>1. n' = n
    <3>1. ~(c > c_index)
      BY <1>1, <1>3, <1>5
    <3>. QED
      BY <1>1, <1>2, <3>1 DEF CountedOf, Pending
  <2>2. ColumnCounted(c, n)
    BY <1>1, <1>5 DEF Sums
  <2>. HIDE DEF n
  <2>3. Column(c, n)' = Column(c, n)
    BY <1>1, <2>1 DEF Column
  <2>4. ColumnCounted(c, n)'
    BY <1>1, <2>2, <2>3 DEF ColumnCounted, stats
  <2>. QED
    BY <2>4 DEF n
<1>. QED
  BY <1>2, <1>4, <1>5 DEF Sums

LEMMA SumsStep == Types /\ Exclusion /\ Compared /\ Sums /\ [Next]_vars => Sums'
<1>. SUFFICES ASSUME Types, Exclusion, Compared, Sums, [Next]_vars PROVE Sums'
  OBVIOUS
<1>1. ASSUME UNCHANGED <<pc, drp, stats, taken, num_samples, c_index, c_value, cols>>
      PROVE  Sums'
  <2>1. InLoop' = InLoop
    BY <1>1 DEF InLoop
  <2>. QED
    BY <1>1, <2>1, SumsSame
\* A thread outside the loop stays outside.
<1>2. ASSUME NEW t \in Jobs, NEW l \in Label, Goto(t, l), t \notin InLoop,
             l \notin {"value", "insert"}, \A u \in Jobs \ {t} : drp'[u] = drp[u],
             UNCHANGED <<stats, taken, num_samples, c_index, c_value>>,
             cols' = cols \/ (num_samples = 0 /\ cols = -1)
      PROVE  Sums'
  <2>1. InLoop' = InLoop /\ \A u \in InLoop : u # t /\ u \in Jobs /\ pc'[u] = pc[u] /\ drp'[u] = drp[u]
    BY <1>2 DEF Goto, Types, InLoop
  <2>. QED
    BY <1>2, <2>1, SumsSame
<1>3. ASSUME NEW t \in Jobs, Loop(t) PROVE Sums'
  BY <1>2, <1>3 DEF Loop, Label, InLoop
<1>4. ASSUME NEW t \in Jobs, Simulate(t) PROVE Sums'
  BY <1>2, <1>4 DEF Simulate, Label, InLoop, Types
<1>5. ASSUME NEW t \in Jobs, ExecFails(t) PROVE Sums'
  BY <1>2, <1>5 DEF ExecFails, Label, InLoop, Types
<1>6. ASSUME NEW t \in Jobs, Columns(t) PROVE Sums'
  <2>1. /\ pc[t] = "cols" /\ (cols' = cols \/ cols = -1) /\ drp' = drp
        /\ UNCHANGED pc \/ Goto(t, "save")
        /\ UNCHANGED <<stats, taken, num_samples, c_index, c_value>>
    BY <1>6 DEF Columns
  <2>2. cols' = cols \/ (num_samples = 0 /\ cols = -1)
    BY <2>1 DEF Compared
  <2>3. CASE UNCHANGED pc
    <3>1. InLoop' = InLoop
      BY <2>3 DEF InLoop
    <3>. QED
      BY <2>1, <2>2, <2>3, <3>1, SumsSame
  <2>4. CASE Goto(t, "save")
    BY <1>2, <2>1, <2>2, <2>4 DEF Label, InLoop
  <2>. QED
    BY <2>1, <2>3, <2>4
<1>7. ASSUME NEW t \in Jobs, SaveData(t) PROVE Sums'
  BY <1>7, SumsSave
<1>8. ASSUME NEW t \in Jobs, Value(t) PROVE Sums'
  BY <1>8, SumsValue
<1>9. ASSUME NEW t \in Jobs, InsertValue(t) PROVE Sums'
  BY <1>9, SumsInsert
<1>10. ASSUME NEW t \in Jobs, Finish(t) PROVE Sums'
  BY <1>10, SumsFinish
<1>11. ASSUME NEW t \in Jobs, UpdateStats(t) PROVE Sums'
  BY <1>1, <1>11 DEF UpdateStats
<1>12. ASSUME NEW t \in Jobs, Decide(t) PROVE Sums'
  BY <1>2, <1>12 DEF Decide, Label, InLoop
<1>13. CASE SigQuit \/ OutputResults
  BY <1>1, <1>13 DEF SigQuit, OutputResults, thread
<1>14. CASE UNCHANGED vars
  BY <1>1, <1>14 DEF vars, thread
<1>. QED
  BY <1>3, <1>4, <1>5, <1>6, <1>7, <1>8, <1>9, <1>10, <1>11, <1>12, <1>13, <1>14
     DEF Next, SchedRun

\* Between two calls of save_data, whatever the outputs and however the threads take
\* turns: num_samples is the number of outputs, the sum of a column that of its values,
\* and get_list finds the value of every number, from the tree that insert_sort has made.
THEOREM EverySampleCounted == Spec => []SamplesCounted
<1>1. Init => Sums
  BY SumsInit
<1>2. RunInv /\ Sums /\ [Next]_vars => Sums'
  BY SumsStep DEF RunInv
<1>3. RunInv /\ Sums => SamplesCounted
  <2>. SUFFICES ASSUME Types, Sums, Saving = {} PROVE
         /\ num_samples = Len(taken)
         /\ \A c \in 1 .. MAX_OUTPUT : (c <= cols) =>
              LET values == [k \in DOMAIN taken |-> taken[k][c]]
              IN  /\ sum_total[c] = FoldLeft(+, 0, values)
                  /\ \A k \in DOMAIN values : IsNumber(k, values, GetList(data_sort[c], k - 1))
    BY DEF RunInv, SamplesCounted
  <2>1. num_samples = Len(taken) /\ InLoop = {} /\ num_samples \in Nat
        /\ DOMAIN taken = 1 .. num_samples
    BY DEF Sums, Saving, InLoop, Types
  <2>2. ASSUME NEW c \in 1 .. MAX_OUTPUT, c <= cols
        PROVE  LET values == [k \in DOMAIN taken |-> taken[k][c]]
               IN  /\ sum_total[c] = FoldLeft(+, 0, values)
                   /\ \A k \in DOMAIN values : IsNumber(k, values, GetList(data_sort[c], k - 1))
    <3>. DEFINE values == [k \in DOMAIN taken |-> taken[k][c]]
                tree == data_sort[c]
    <3>1. CountedOf(c) = num_samples
      BY <2>1 DEF CountedOf, Pending
    <3>2. CountedBy(sum_total[c], tree, values)
      BY <2>1, <2>2, <3>1 DEF Sums, ColumnCounted, Column
    <3>3. values \in Seq(Nat) /\ Len(values) = num_samples /\ DOMAIN values = 1 .. num_samples
      <4>1. num_samples \in 0 .. num_samples
        BY <2>1
      <4>2. Column(c, num_samples) \in Seq(Nat) /\ Len(Column(c, num_samples)) = num_samples
        BY <2>2, <4>1, ColumnIs
      <4>. QED
        BY <2>1, <4>2 DEF Column
    <3>. HIDE DEF values, tree
    <3>4. /\ sum_total[c] = FoldLeft(+, 0, values) /\ IsTree(tree) /\ Len(tree) = num_samples
          /\ \A k \in 1 .. num_samples : tree[k].data_val = values[k]
      BY <3>2, <3>3 DEF CountedBy
    <3>5. ASSUME NEW k \in DOMAIN values PROVE IsNumber(k, values, GetList(tree, k - 1))
      <4>. DEFINE x == GetList(tree, k - 1)
                  Less == {j \in DOMAIN values : values[j] < x}
                  NoMore == {j \in DOMAIN values : values[j] <= x}
      <4>1. k \in 1 .. num_samples /\ k - 1 \in Nat /\ k - 1 < Len(tree)
        <5>1. k \in 1 .. num_samples
          BY <3>3, <3>5
        <5>2. k - 1 \in Nat /\ k - 1 < num_samples
          BY <2>1, <5>1
        <5>3. num_samples = Len(tree)
          BY <3>4
        <5>. QED
          BY <5>1, <5>2, <5>3
      <4>2. Numbered(tree, k - 1, x)
        BY <3>4, <4>1, GetListFinds
      <4>. HIDE DEF x
      <4>3. /\ Less = {j \in 1 .. Len(tree) : tree[j].data_val < x}
            /\ NoMore = {j \in 1 .. Len(tree) : tree[j].data_val <= x}
        BY <3>3, <3>4
      <4>4. Less \in SUBSET (1 .. num_samples) /\ NoMore \in SUBSET (1 .. num_samples)
        BY <3>3
      <4>. HIDE DEF Less, NoMore
      <4>5. Cardinality(Less) <= k - 1 /\ Cardinality(NoMore) > k - 1
        BY <4>2, <4>3 DEF Numbered
      <4>6. Cardinality(Less) \in Nat /\ Cardinality(NoMore) \in Nat
        BY <2>1, <4>4, NodesCounted
      <4>7. Cardinality(Less) < k /\ Cardinality(NoMore) >= k
        BY <4>1, <4>5, <4>6
      <4>. QED
        BY <4>7 DEF IsNumber, Less, NoMore, x
    <3>. QED
      BY <3>4, <3>5 DEF values, tree
  <2>. QED
    BY <2>1, <2>2
<1>4. QED
  BY <1>1, <1>2, <1>3, RunInvariant, PTL DEF Spec

-----------------------------------------------------------------------------
(* analy: the rows                                                         *)

Intervals == 1 .. Interval(MaxTime)
Entry == [busy : {0, 1}, ts : 0 .. MaxTime, pktID : Packets \cup UninitIDs]
Row == [time : Int, input : Int, output : Int, drop : Int, delay : Int, queuesize : Int]
Main == [timestamp : Nat, input : Nat, output : Nat, drop : Nat, delay : Int, queuesize : Int,
         i : 0 .. DIM - 1, rows : Seq(Row), backlog : [0 .. DIM - 1 -> Entry]]
Tally == [input : Nat, output : Nat, drop : Nat, delay : Int]

\* What tr says of the packets that wait after interval n.
Net(tr) == [k \in DOMAIN tr |-> (tr[k].input - tr[k].output) - tr[k].drop]
StillIn(tr, n) == SumFunctionOnSet(Net(tr), 1 .. n)

RowIs(row, n, tr) ==
    /\ row.time = n * smp
    /\ row.input = tr[n].input /\ row.output = tr[n].output /\ row.drop = tr[n].drop
    /\ row.queuesize = StillIn(tr, n)
    /\ (n > 1) => row.delay = tr[n].delay

\* The rows agree with tr, the counters with the interval after the last row, and
\* nothing has happened later.
Current(a, tr) ==
    LET k == Len(a.rows) + 1
    IN  /\ k \in DOMAIN tr
        /\ a.timestamp = Len(a.rows) * smp
        /\ \A n \in 1 .. Len(a.rows) : RowIs(a.rows[n], n, tr)
        /\ a.input = tr[k].input /\ a.output = tr[k].output /\ a.drop = tr[k].drop
        /\ (k > 1) => a.delay = tr[k].delay
        /\ a.queuesize = StillIn(tr, k)
        /\ \A n \in DOMAIN tr : n > k => tr[n] = Nothing

\* Interval n has ended for a record at time t.
Ended(n, t) == n * smp < t \/ (n * smp = t /\ n \in RoundedUp)

\* The last row is of an interval that has ended.
Behind(a, t) == a.rows # << >> => Ended(Len(a.rows), t)

\* The packets of the flow that wait, and what is known of packets.
InFlow == Range(arrival) \cap Flow
ArrivalsSound ==
    /\ arrival \in Seq(Packets)
    /\ \A j, k \in 1 .. Len(arrival) : arrival[j] = arrival[k] => j = k
    /\ time \in 0 .. MaxTime
    /\ came \in [Packets -> {Never, Gone} \cup (0 .. time)]
    /\ \A p \in Range(arrival) : came[p] \in 0 .. time
    /\ served \in Packets => came[served] = Gone

\* Busy entries are of packets that came, one for each that waits.
Sound(a, cm, waiting) ==
    /\ \A j \in 0 .. DIM - 1 :
          a.backlog[j].busy = 1 => a.backlog[j].pktID \in Packets /\ cm[a.backlog[j].pktID] # Never
    /\ \A p \in waiting :
         \E j \in 0 .. DIM - 1 : /\ a.backlog[j] = [busy |-> 1, ts |-> cm[p], pktID |-> p]
                                 /\ Holds(a, p) = {j}
EntriesSound == Sound(analy, came, InFlow)

TraceInv ==
    /\ ArrivalsSound /\ EntriesSound
    /\ analy \in Main /\ truth \in [Intervals -> Tally]
    /\ analy.queuesize = Cardinality(InFlow)
    /\ Current(analy, truth) /\ Behind(analy, time)

\* The intervals of smp ticks: where they end, and how many rows are due.
LEMMA Rounded ==
    ASSUME NEW t \in Nat, NEW s \in Nat \ {0}
    PROVE  LET q == (t + s - 1) \div s
           IN  q \in Nat /\ t <= q * s /\ q * s < t + s
<1> DEFINE q == (t + s - 1) \div s
           r == (t + s - 1) % s
<1>1. t + s - 1 \in Nat
  OBVIOUS
<1>2. q \in Int /\ r \in 0 .. s - 1 /\ t + s - 1 = s * q + r
  BY <1>1, SMT
<1>3. s * q = q * s /\ q * s \in Int
  BY <1>2
<1>4. q \in Nat
  BY <1>1, <1>2, SMT
<1> HIDE DEF q, r
<1>5. t <= q * s /\ q * s < t + s
  BY <1>2, <1>3
<1> QED
  BY <1>4, <1>5 DEF q

\* Multiples are in the order of their factors.
LEMMA TimesOrder ==
    ASSUME NEW s \in Nat \ {0}, NEW a \in Int, NEW b \in Int, a < b
    PROVE  a * s <= b * s - s /\ a * s \in Int /\ b * s \in Int
<1>1. (b - a) - 1 \in Nat
  OBVIOUS
<1>2. ((b - a) - 1) * s >= 0
  BY <1>1
<1>3. ((b - a) - 1) * s = (b * s - a * s) - s
  OBVIOUS
<1> QED
  BY <1>2, <1>3

\* Which records are late.
LEMMA LateIs ==
    ASSUME NEW t \in Nat
    PROVE  /\ Late(t) => t \div smp \in RoundedUp /\ t = (t \div smp) * smp
           /\ \A n \in Nat : n * smp = t /\ n \in RoundedUp => Late(t) /\ t \div smp = n
<1> DEFINE q == t \div smp
           r == t % smp
<1>1. smp \in Nat \ {0}
  BY TraceAssumption
<1>2. q \in Int /\ r \in 0 .. smp - 1 /\ t = smp * q + r
  BY <1>1, SMT
<1>3. smp * q = q * smp /\ q * smp \in Int
  BY <1>2, <1>1
<1>4. Late(t) <=> r = 0 /\ q \in RoundedUp
  BY DEF Late
<1> HIDE DEF q, r
<1>5. ASSUME NEW n \in Nat, n * smp = t PROVE r = 0 /\ q = n
  <2>1. ~(n < q)
    <3> SUFFICES ASSUME n < q PROVE FALSE
      OBVIOUS
    <3>1. n * smp <= q * smp - smp /\ n * smp \in Int
      BY <1>1, <1>2, TimesOrder
    <3> QED
      BY <1>1, <1>2, <1>3, <1>5, <3>1
  <2>2. ~(q < n)
    <3> SUFFICES ASSUME q < n PROVE FALSE
      OBVIOUS
    <3>1. q * smp <= n * smp - smp /\ n * smp \in Int
      BY <1>1, <1>2, TimesOrder
    <3> QED
      BY <1>1, <1>2, <1>3, <1>5, <3>1
  <2>3. q = n
    BY <1>2, <2>1, <2>2
  <2> QED
    BY <1>1, <1>2, <1>3, <1>5, <2>3
<1> QED
  BY <1>2, <1>3, <1>4, <1>5 DEF q

\* The intervals before one that has ended have ended, and it stays so.
LEMMA EndedOrder ==
    ASSUME NEW t \in Nat, NEW u \in Nat, t <= u, NEW n \in Nat, Ended(n, t), NEW k \in 0 .. n
    PROVE  Ended(k, u)
<1>1. smp \in Nat \ {0}
  BY TraceAssumption
<1>2. n * smp \in Int /\ n * smp <= t
  BY <1>1 DEF Ended
<1>3. CASE k = n
  <2>1. n * smp < u \/ (n * smp = u /\ n \in RoundedUp)
    BY <1>2 DEF Ended
  <2> QED
    BY <1>3, <2>1 DEF Ended
<1>4. CASE k < n
  <2>1. k * smp <= n * smp - smp /\ k * smp \in Int
    BY <1>1, <1>4, TimesOrder
  <2>2. k * smp < u
    BY <1>1, <1>2, <2>1
  <2> QED
    BY <2>2 DEF Ended
<1> QED
  BY <1>3, <1>4

\* A record belongs to the first interval that has not ended.
LEMMA IntervalEnds ==
    ASSUME NEW t \in Nat
    PROVE  /\ Interval(t) \in Nat \ {0}
           /\ ~Ended(Interval(t), t)
           /\ Interval(t) = 1 \/ Ended(Interval(t) - 1, t)
<1>1. smp \in Nat \ {0} /\ RoundedUp \subseteq Nat \ 0 .. 2
  BY TraceAssumption
<1>2. CASE t = 0
  <2>1. Interval(t) = 1
    BY <1>2 DEF Interval
  <2> QED
    BY <1>1, <1>2, <2>1 DEF Ended
<1>3. CASE t # 0 /\ Late(t)
  <2> DEFINE q == t \div smp
  <2>1. q \in RoundedUp /\ t = q * smp
    BY <1>3, LateIs
  <2>2. Interval(t) = q + 1
    BY <1>3 DEF Interval
  <2> HIDE DEF q
  <2>3. q \in Nat /\ q < q + 1 /\ q + 1 \in Nat \ {0} /\ (q + 1) - 1 = q
    BY <1>1, <2>1
  <2>4. q * smp <= (q + 1) * smp - smp /\ (q + 1) * smp \in Int
    BY <1>1, <2>3, TimesOrder
  <2>5. ~Ended(q + 1, t)
    BY <1>1, <2>1, <2>4 DEF Ended
  <2>6. Ended(q, t)
    BY <2>1 DEF Ended
  <2> QED
    BY <2>2, <2>3, <2>5, <2>6
<1>4. CASE t # 0 /\ ~Late(t)
  <2> DEFINE q == (t + smp - 1) \div smp
  <2>1. q \in Nat /\ t <= q * smp /\ q * smp < t + smp
    BY <1>1, Rounded
  <2>2. Interval(t) = q
    BY <1>4 DEF Interval
  <2> HIDE DEF q
  <2>3. q # 0
    BY <1>1, <1>4, <2>1
  <2>4. ~Ended(q, t)
    <3>1. ~(q * smp = t /\ q \in RoundedUp)
      BY <1>4, <2>1, LateIs
    <3>2. ~(q * smp < t)
      BY <1>1, <2>1
    <3> QED
      BY <3>1, <3>2 DEF Ended
  <2>5. Ended(q - 1, t)
    <3>1. q - 1 \in Int /\ q - 1 < q
      BY <2>1
    <3>2. (q - 1) * smp <= q * smp - smp /\ (q - 1) * smp \in Int /\ q * smp \in Int
      BY <1>1, <2>1, <3>1, TimesOrder
    <3>3. (q - 1) * smp < t
      BY <1>1, <2>1, <3>2
    <3> QED
      BY <3>3 DEF Ended
  <2> QED
    BY <2>1, <2>2, <2>3, <2>4, <2>5
<1> QED
  BY <1>2, <1>3, <1>4

\* That interval is the only one.
LEMMA IntervalIs ==
    ASSUME NEW t \in Nat, NEW k \in Nat \ {0}, ~Ended(k, t), k = 1 \/ Ended(k - 1, t)
    PROVE  Interval(t) = k
<1> DEFINE q == Interval(t)
<1>1. q \in Nat \ {0} /\ ~Ended(q, t) /\ (q = 1 \/ Ended(q - 1, t))
  BY IntervalEnds
<1> HIDE DEF q
<1>2. ~(q < k)
  <2> SUFFICES ASSUME q < k PROVE FALSE
    OBVIOUS
  <2>1. k - 1 \in Nat /\ q \in 0 .. k - 1 /\ k # 1 /\ t <= t
    BY <1>1
  <2> QED
    BY <1>1, <2>1, EndedOrder
<1>3. ~(k < q)
  <2> SUFFICES ASSUME k < q PROVE FALSE
    OBVIOUS
  <2>1. q - 1 \in Nat /\ k \in 0 .. q - 1 /\ q # 1 /\ t <= t
    BY <1>1
  <2> QED
    BY <1>1, <2>1, EndedOrder
<1> QED
  BY <1>1, <1>2, <1>3 DEF q

\* A record has its place among the intervals.
LEMMA IntervalInside ==
    /\ Interval(MaxTime) \in Nat \ {0}
    /\ \A t \in 0 .. MaxTime : Interval(t) \in Intervals
<1>1. MaxTime \in Nat
  BY TraceAssumption
<1>2. ASSUME NEW t \in 0 .. MaxTime PROVE Interval(t) <= Interval(MaxTime)
  <2> DEFINE p == Interval(t)
             q == Interval(MaxTime)
  <2>1. t \in Nat /\ t <= MaxTime
    BY <1>1
  <2>2. /\ p \in Nat \ {0} /\ (p = 1 \/ Ended(p - 1, t))
        /\ q \in Nat \ {0} /\ ~Ended(q, MaxTime)
    BY <1>1, <2>1, IntervalEnds
  <2> HIDE DEF p, q
  <2>3. ~(q < p)
    <3> SUFFICES ASSUME q < p PROVE FALSE
      OBVIOUS
    <3>1. p - 1 \in Nat /\ q \in 0 .. p - 1 /\ p # 1
      BY <2>2
    <3> QED
      BY <1>1, <2>1, <2>2, <3>1, EndedOrder
  <2> QED
    BY <2>2, <2>3 DEF p, q
<1>3. \A t \in 0 .. MaxTime : Interval(t) \in Nat \ {0}
  BY <1>1, IntervalEnds
<1> QED
  BY <1>1, <1>2, <1>3, IntervalEnds DEF Intervals

\* The sums of what waits.
LEMMA StillInGrows ==
    ASSUME NEW tr \in [Intervals -> Tally]
    PROVE  /\ StillIn(tr, 0) = 0
           /\ \A n \in Intervals : /\ StillIn(tr, n) = StillIn(tr, n - 1) + Net(tr)[n]
                                   /\ StillIn(tr, n) \in Int /\ StillIn(tr, n - 1) \in Int
                                   /\ Net(tr)[n] = (tr[n].input - tr[n].output) - tr[n].drop
<1> DEFINE w == Net(tr)
<1>1. Interval(MaxTime) \in Nat
  BY IntervalInside
<1>2. \A k \in Intervals : w[k] \in Int /\ w[k] = (tr[k].input - tr[k].output) - tr[k].drop
  BY DEF Net, Tally
<1>3. StillIn(tr, 0) = 0
  <2>1. 1 .. 0 = {}
    OBVIOUS
  <2> QED
    BY <2>1, SumOfNothing DEF StillIn
<1> HIDE DEF w
<1>4. ASSUME NEW n \in Intervals
      PROVE  StillIn(tr, n) = StillIn(tr, n - 1) + w[n] /\ StillIn(tr, n - 1) \in Int
  <2>1. n \in Nat \ {0} /\ n \in 1 .. n /\ \A x \in 1 .. n : x \in Intervals
    BY <1>1 DEF Intervals
  <2>2. 1 \in Int /\ n \in Int
    BY <2>1
  <2>3. IsFiniteSet(1 .. n)
    BY <2>2, FS_Interval, Zenon
  <2>4. (1 .. n) \ {n} = 1 .. n - 1
    BY <2>1, MaxOfInterval
  <2>5. \A x \in 1 .. n : w[x] \in Int
    BY <1>2, <2>1
  <2>6. /\ SumFunctionOnSet(w, (1 .. n) \ {n}) \in Int
        /\ SumFunctionOnSet(w, 1 .. n) = SumFunctionOnSet(w, (1 .. n) \ {n}) + w[n]
    BY <2>1, <2>3, <2>5, SumGrows, Zenon
  <2> QED
    BY <2>4, <2>6 DEF StillIn, w
<1>5. \A n \in Intervals : StillIn(tr, n) \in Int
  BY <1>2, <1>4
<1> QED
  BY <1>2, <1>3, <1>4, <1>5 DEF w

\* They do not depend on later intervals.
LEMMA StillInSame ==
    ASSUME NEW tr \in [Intervals -> Tally], NEW ts \in [Intervals -> Tally],
           NEW n \in 0 .. Interval(MaxTime), \A k \in 1 .. n : ts[k] = tr[k]
    PROVE  StillIn(ts, n) = StillIn(tr, n)
<1>1. Interval(MaxTime) \in Nat /\ n \in Nat
  BY IntervalInside
<1>2. 1 \in Int /\ n \in Int
  BY <1>1
<1>3. IsFiniteSet(1 .. n)
  BY <1>2, FS_Interval, Zenon
<1>4. \A x \in 1 .. n : Net(tr)[x] \in Int /\ Net(ts)[x] = Net(tr)[x]
  <2> SUFFICES ASSUME NEW x \in 1 .. n PROVE Net(tr)[x] \in Int /\ Net(ts)[x] = Net(tr)[x]
    OBVIOUS
  <2>1. x \in Intervals
    BY <1>1 DEF Intervals
  <2>2. ts[x] = tr[x] /\ tr[x] \in Tally
    BY <2>1
  <2>3. Net(tr)[x] = (tr[x].input - tr[x].output) - tr[x].drop
        /\ Net(ts)[x] = (ts[x].input - ts[x].output) - ts[x].drop
    BY <2>1 DEF Net
  <2>4. (tr[x].input - tr[x].output) - tr[x].drop \in Int
    BY <2>2 DEF Tally
  <2> QED
    BY <2>2, <2>3, <2>4
<1> QED
  BY <1>3, <1>4, SumSame, Zenon DEF StillIn

\* WaitingAfter is that sum.
LEMMA WaitingIsSum ==
    ASSUME truth \in [Intervals -> Tally], NEW n \in Intervals
    PROVE  WaitingAfter(n) = StillIn(truth, n)
<1> DEFINE S == 1 .. n
           w == Net(truth)
           Iter(H) == H = [s \in SUBSET S |->
                             IF s = {} THEN 0
                             ELSE (truth[Pick(s)].input - truth[Pick(s)].output - truth[Pick(s)].drop)
                                  + H[s \ {Pick(s)}]]
           G == CHOOSE H : Iter(H)
<1>1. IsFiniteSet(S) /\ S \in SUBSET Intervals
  <2>1. n \in Nat /\ Interval(MaxTime) \in Nat /\ n <= Interval(MaxTime)
    BY IntervalInside DEF Intervals
  <2>2. 1 \in Int /\ n \in Int
    BY <2>1
  <2> QED
    BY <2>1, <2>2, FS_Interval DEF Intervals
<1>2. \A k \in S : w[k] \in Int /\ w[k] = truth[k].input - truth[k].output - truth[k].drop
  <2> SUFFICES ASSUME NEW k \in S
               PROVE  w[k] \in Int /\ w[k] = truth[k].input - truth[k].output - truth[k].drop
    OBVIOUS
  <2>1. k \in Intervals /\ truth[k] \in Tally
    BY <1>1
  <2>2. w[k] = (truth[k].input - truth[k].output) - truth[k].drop
    BY <2>1 DEF Net
  <2>3. truth[k].input \in Nat /\ truth[k].output \in Nat /\ truth[k].drop \in Nat
    BY <2>1 DEF Tally
  <2> QED
    BY <2>2, <2>3
<1>3. \A s \in SUBSET S : s # {} =>
         Pick(s) \in S /\ w[Pick(s)]
            = truth[Pick(s)].input - truth[Pick(s)].output - truth[Pick(s)].drop
  BY <1>2, PickInside
<1> HIDE DEF w, S
<1>4. \E H : Iter(H)
  <2>1. PICK F \in [SUBSET S -> Int] : Adds(F, w, SUBSET S)
    BY <1>1, <1>2, SumExists
  <2>2. ASSUME NEW s \in SUBSET S
        PROVE  F[s] = IF s = {} THEN 0
                      ELSE (truth[Pick(s)].input - truth[Pick(s)].output - truth[Pick(s)].drop)
                           + F[s \ {Pick(s)}]
    <3>1. F[s] = IF s = {} THEN 0 ELSE w[Pick(s)] + F[s \ {Pick(s)}]
      BY <2>1 DEF Adds, SumStep
    <3> QED
      BY <1>3, <3>1
  <2>3. Iter(F)
    BY <2>1, <2>2
  <2> QED
    BY <2>3
<1>5. Iter(G)
  <2> HIDE DEF Iter
  <2> QED
    BY <1>4, Zenon
<1>6. WaitingAfter(n) = G[S]
  BY Zenon DEF WaitingAfter, MapThenSumSet, MapThenFoldSet, Pick, S
<1> HIDE DEF G
<1>7. Adds(G, w, SUBSET S)
  BY <1>3, <1>5 DEF Adds, SumStep
<1>8. SumFunctionOnSet(w, S) = G[S]
  BY <1>1, <1>2, <1>7, SumIs
<1> QED
  BY <1>6, <1>8 DEF StillIn, w, S

-----------------------------------------------------------------------------
\* How many rows are due: their intervals have ended at time t, the next one has not.
LEMMA DueIs ==
    ASSUME NEW a, NEW k \in Nat, a.timestamp = k * smp, NEW t \in Nat
    PROVE  /\ Due(a, t) \in Nat
           /\ ~Ended(k + Due(a, t) + 1, t)
           /\ Due(a, t) # 0 => Ended(k + Due(a, t), t)
<1>1. smp \in Nat \ {0} /\ RoundedUp \subseteq Nat
  BY TraceAssumption
<1> DEFINE n == Due(a, t)
<1>2. k * smp \in Nat /\ (k + 1) * smp = k * smp + smp
  BY <1>1
<1>3. CASE Late(t)
  <2> DEFINE m == t \div smp
  <2>1. m \in RoundedUp /\ t = m * smp /\ m \in Nat
    BY <1>1, <1>3, LateIs
  <2>2. n = IF t <= k * smp THEN 0 ELSE (t - k * smp) \div smp
    BY <1>3 DEF Due
  <2> HIDE DEF m, n
  <2>3. ASSUME NEW x \in Nat, m < x PROVE ~Ended(x, t)
    <3>1. m * smp <= x * smp - smp /\ x * smp \in Int /\ m * smp \in Int
      BY <1>1, <2>1, <2>3, TimesOrder
    <3> QED
      BY <1>1, <2>1, <3>1 DEF Ended
  <2>4. CASE t <= k * smp
    <3>1. ~(k < m)
      <4> SUFFICES ASSUME k < m PROVE FALSE
        OBVIOUS
      <4>1. k * smp <= m * smp - smp /\ m * smp \in Int
        BY <1>1, <2>1, TimesOrder
      <4> QED
        BY <1>1, <1>2, <2>1, <2>4, <4>1
    <3>2. n = 0 /\ k + n + 1 \in Nat /\ m < k + n + 1
      BY <2>1, <2>2, <2>4, <3>1
    <3>3. ~Ended(k + n + 1, t)
      BY <2>3, <3>2
    <3> QED
      BY <3>2, <3>3 DEF n
  <2>5. CASE ~(t <= k * smp)
    <3>1. ~(m < k) /\ m # k
      <4>1. m < k => m * smp <= k * smp - smp
        BY <1>1, <2>1, TimesOrder
      <4> QED
        BY <1>1, <1>2, <2>1, <2>5, <4>1
    <3>2. m - k \in Nat \ {0}
      BY <2>1, <3>1
    <3> DEFINE rest == t - k * smp
               q == rest \div smp
    <3>3. rest \in Nat /\ rest = (m - k) * smp
      BY <1>1, <1>2, <2>1, <2>5
    <3>4. q \in Int /\ rest % smp \in 0 .. smp - 1 /\ rest = smp * q + (rest % smp)
      <4> HIDE DEF rest
      <4> QED
        BY <1>1, <3>3, SMT
    <3>5. n = q
      BY <2>2, <2>5
    <3> HIDE DEF q, rest
    <3>6. smp * q = q * smp /\ q * smp \in Int
      BY <1>1, <3>4
    <3>7. q = m - k
      <4>1. q < m - k => q * smp <= (m - k) * smp - smp
        BY <1>1, <3>2, <3>4, TimesOrder
      <4>2. m - k < q => (m - k) * smp <= q * smp - smp
        BY <1>1, <3>2, <3>4, TimesOrder
      <4> DEFINE qs == q * smp
                 ms == (m - k) * smp
                 x == rest % smp
      <4>3. ms = qs + x /\ qs \in Int /\ ms \in Int /\ x \in Int /\ x < smp /\ 0 <= x
        <5>1. x \in 0 .. smp - 1 /\ ms = qs + x
          BY <3>3, <3>4, <3>6
        <5>2. qs \in Int /\ x \in Int /\ x < smp /\ 0 <= x
          BY <1>1, <3>6, <5>1
        <5> QED
          BY <5>1, <5>2
      <4>4. q < m - k => qs <= ms - smp
        BY <4>1
      <4>5. m - k < q => ms <= qs - smp
        BY <4>2
      <4> HIDE DEF qs, ms, x
      <4>6. ~(q < m - k)
        BY <1>1, <4>3, <4>4
      <4>7. ~(m - k < q)
        BY <1>1, <4>3, <4>5
      <4>8. q \in Int /\ m - k \in Int
        BY <3>2, <3>4
      <4> QED
        BY <4>6, <4>7, <4>8
    <3>8. n \in Nat /\ k + n = m /\ k + n + 1 \in Nat /\ m < k + n + 1
      BY <2>1, <3>2, <3>5, <3>7
    <3>9. Ended(m, t)
      BY <2>1 DEF Ended
    <3>10. Ended(k + n, t) /\ ~Ended(k + n + 1, t)
      BY <2>3, <3>8, <3>9
    <3> QED
      BY <3>8, <3>10 DEF n
  <2> QED
    BY <2>4, <2>5
<1>4. CASE ~Late(t)
  <2> DEFINE rest == t - smp - a.timestamp
  <2>1. \A x \in Nat : Ended(x, t) <=> x * smp < t
    BY <1>4, LateIs DEF Ended
  <2>2. CASE t - smp <= a.timestamp
    <3>1. n = 0
      BY <1>4, <2>2 DEF Due
    <3>2. ~((k + 1) * smp < t) /\ k + n + 1 = k + 1 /\ k + 1 \in Nat
      BY <1>1, <1>2, <2>2, <3>1
    <3> QED
      BY <2>1, <3>1, <3>2
  <2>3. CASE ~(t - smp <= a.timestamp)
    <3> DEFINE q == (rest + smp - 1) \div smp
    <3>1. rest \in Nat /\ rest > 0
      BY <1>1, <1>2, <2>3
    <3>2. n = q
      BY <1>4, <2>3 DEF Due
    <3>3. q \in Nat /\ rest <= q * smp /\ q * smp < rest + smp
      BY <1>1, <3>1, Rounded
    <3>4. rest = (t - smp) - k * smp
      BY <1>1, <1>2
    <3> HIDE DEF q, rest
    <3>5. (k + q) * smp = k * smp + q * smp /\ (k + q + 1) * smp = (k * smp + q * smp) + smp
          /\ q * smp \in Nat
      BY <1>1, <3>3
    <3>6. (k + q) * smp < t /\ ~((k + q + 1) * smp < t) /\ k + q \in Nat /\ k + q + 1 \in Nat
      BY <1>1, <1>2, <3>3, <3>4, <3>5
    <3>7. Ended(k + q, t) /\ ~Ended(k + q + 1, t)
      BY <2>1, <3>6
    <3> HIDE DEF n
    <3> QED
      BY <3>2, <3>3, <3>7 DEF n
  <2> QED
    BY <2>2, <2>3
<1> QED
  BY <1>3, <1>4

\* Writing a row changes the rows and the counters of the interval.
LEMMA RowTyped ==
    ASSUME NEW a \in Main
    PROVE  LET b == WriteRow(a)
           IN  /\ b \in Main
               /\ b.timestamp = a.timestamp + smp
               /\ b.input = 0 /\ b.output = 0 /\ b.drop = 0 /\ b.delay = 0
               /\ b.rows = Append(a.rows, [time |-> a.timestamp + smp, input |-> a.input,
                                           output |-> a.output, drop |-> a.drop,
                                           delay |-> a.delay, queuesize |-> a.queuesize])
               /\ b.backlog = a.backlog /\ b.i = a.i /\ b.queuesize = a.queuesize
<1> DEFINE b == WriteRow(a)
           k == Len(a.rows) + 1
           row == [time |-> a.timestamp + smp, input |-> a.input, output |-> a.output,
                   drop |-> a.drop, delay |-> a.delay, queuesize |-> a.queuesize]
<1>1. smp \in Nat \ {0} 
  BY TraceAssumption
<1>2. a.rows \in Seq(Row) /\ k \in Nat \ {0} /\ Len(a.rows) \in Nat /\ Len(a.rows) = k - 1
  BY DEF Main
<1>3. /\ a.timestamp \in Nat /\ a.input \in Nat /\ a.output \in Nat /\ a.drop \in Nat
      /\ a.delay \in Int /\ a.queuesize \in Int /\ a.i \in 0 .. DIM - 1
      /\ a.backlog \in [0 .. DIM - 1 -> Entry]
  BY DEF Main
<1>4. row \in Row
  BY <1>1, <1>3 DEF Row
<1>5. /\ b.timestamp = a.timestamp + smp /\ b.input = 0 /\ b.output = 0 /\ b.drop = 0 /\ b.delay = 0
      /\ b.rows = Append(a.rows, row) /\ b.backlog = a.backlog /\ b.i = a.i
      /\ b.queuesize = a.queuesize
  BY DEF WriteRow, Main
<1>6. b \in Main
  <2>1. Append(a.rows, row) \in Seq(Row)
    BY <1>2, <1>4
  <2>2. a.timestamp + smp \in Nat
    BY <1>1, <1>3
  <2> DEFINE rs == Append(a.rows, row)
  <2>3. b = [timestamp |-> a.timestamp + smp, input |-> 0, output |-> 0, drop |-> 0, delay |-> 0,
             queuesize |-> a.queuesize, i |-> a.i, rows |-> rs, backlog |-> a.backlog]
    <3> DEFINE Parts == {"timestamp", "input", "output", "drop", "delay", "queuesize", "i",
                         "rows", "backlog"}
               c == [timestamp |-> a.timestamp + smp, input |-> 0, output |-> 0, drop |-> 0,
                     delay |-> 0, queuesize |-> a.queuesize, i |-> a.i, rows |-> rs,
                     backlog |-> a.backlog]
    <3>1. DOMAIN a = Parts /\ a = [f \in Parts |-> a[f]]
      BY DEF Main
    <3>2. DOMAIN b = Parts /\ b = [f \in Parts |-> b[f]]
      <4> HIDE DEF Parts
      <4> QED
        BY <3>1 DEF WriteRow
    <3>3. DOMAIN c = Parts /\ c = [f \in Parts |-> c[f]]
      OBVIOUS
    <3>4. ASSUME NEW f \in Parts PROVE b[f] = c[f]
      <4> HIDE DEF b, row
      <4>1. rs = b.rows
        BY <1>5
      <4> QED
        BY <1>5, <4>1
    <3> HIDE DEF b, c, Parts
    <3>5. b = c
      BY <3>2, <3>3, <3>4
    <3> QED
      BY <3>5 DEF c
  <2>4. rs \in Seq(Row)
    BY <2>1
  <2> HIDE DEF row, b, rs
  <2> QED
    BY <1>3, <2>2, <2>3, <2>4 DEF Main
<1> HIDE DEF b
<1> QED
  BY <1>5, <1>6 DEF b

\* A row is written.
LEMMA OneRow ==
    ASSUME NEW a \in Main, NEW tr \in [Intervals -> Tally], Current(a, tr),
           Len(a.rows) + 2 \in Intervals
    PROVE  LET b == WriteRow(a)
           IN  /\ b \in Main /\ Current(b, tr) /\ Len(b.rows) = Len(a.rows) + 1
               /\ b.backlog = a.backlog /\ b.i = a.i /\ b.queuesize = a.queuesize
<1> DEFINE b == WriteRow(a)
           k == Len(a.rows) + 1
           row == [time |-> a.timestamp + smp, input |-> a.input, output |-> a.output,
                   drop |-> a.drop, delay |-> a.delay, queuesize |-> a.queuesize]
<1>1. smp \in Nat \ {0} /\ DOMAIN tr = Intervals
  BY TraceAssumption
<1>2. a.rows \in Seq(Row) /\ k \in Nat \ {0} /\ Len(a.rows) \in Nat /\ Len(a.rows) = k - 1
  BY DEF Main
<1>3. /\ a.timestamp \in Nat /\ a.input \in Nat /\ a.output \in Nat /\ a.drop \in Nat
      /\ a.delay \in Int /\ a.queuesize \in Int /\ a.i \in 0 .. DIM - 1
      /\ a.backlog \in [0 .. DIM - 1 -> Entry]
  BY DEF Main
<1>4. row \in Row
  BY <1>1, <1>3 DEF Row
<1>5. /\ b.timestamp = a.timestamp + smp /\ b.input = 0 /\ b.output = 0 /\ b.drop = 0 /\ b.delay = 0
      /\ b.rows = Append(a.rows, row) /\ b.backlog = a.backlog /\ b.i = a.i
      /\ b.queuesize = a.queuesize
  BY RowTyped
<1>6. b \in Main
  BY RowTyped
<1>7. Len(b.rows) = k /\ b.rows[k] = row /\ \A n \in 1 .. k - 1 : b.rows[n] = a.rows[n]
  <2> HIDE DEF row, b
  <2> QED
    BY <1>2, <1>4, <1>5
<1>8. /\ k \in Intervals /\ a.timestamp = (k - 1) * smp
      /\ \A n \in 1 .. k - 1 : RowIs(a.rows[n], n, tr)
      /\ a.input = tr[k].input /\ a.output = tr[k].output /\ a.drop = tr[k].drop
      /\ (k > 1) => a.delay = tr[k].delay
      /\ a.queuesize = StillIn(tr, k)
      /\ \A n \in Intervals : n > k => tr[n] = Nothing
  BY <1>1, <1>2 DEF Current
<1>9. RowIs(row, k, tr)
  <2>1. a.timestamp + smp = k * smp
    BY <1>1, <1>2, <1>8
  <2> QED
    BY <1>8, <2>1 DEF RowIs
<1>10. k + 1 \in Intervals /\ tr[k + 1] = Nothing
  <2>1. k + 1 \in Intervals /\ k + 1 > k
    BY <1>2
  <2> QED
    BY <1>8, <2>1
<1>11. StillIn(tr, k + 1) = StillIn(tr, k)
  <2>1. StillIn(tr, k + 1) = StillIn(tr, (k + 1) - 1) + Net(tr)[k + 1]
        /\ StillIn(tr, k) \in Int
        /\ Net(tr)[k + 1] = (tr[k + 1].input - tr[k + 1].output) - tr[k + 1].drop
    BY <1>8, <1>10, StillInGrows
  <2>2. (k + 1) - 1 = k
    BY <1>2
  <2>3. Net(tr)[k + 1] = 0
    BY <1>10, <2>1 DEF Nothing
  <2> QED
    BY <2>1, <2>2, <2>3
<1>12. a.timestamp + smp = k * smp
  BY <1>1, <1>2, <1>8
<1> HIDE DEF b, row, k
<1>13. \A n \in 1 .. k : RowIs(b.rows[n], n, tr)
  <2> SUFFICES ASSUME NEW n \in 1 .. k PROVE RowIs(b.rows[n], n, tr)
    OBVIOUS
  <2>1. CASE n = k
    BY <1>7, <1>9, <2>1
  <2>2. CASE n # k
    <3>1. n \in 1 .. k - 1
      BY <1>2, <2>2
    <3> QED
      BY <1>7, <1>8, <3>1
  <2> QED
    BY <2>1, <2>2
<1>14. Current(b, tr)
  <2>1. \A n \in Intervals : n > k + 1 => tr[n] = Nothing
    <3>1. \A n \in Intervals : n > k + 1 => n > k
      BY <1>2 DEF Intervals
    <3> QED
      BY <1>8, <3>1
  <2>2. b.delay = tr[k + 1].delay /\ b.input = tr[k + 1].input /\ b.output = tr[k + 1].output
        /\ b.drop = tr[k + 1].drop
    BY <1>5, <1>10 DEF Nothing
  <2>3. b.timestamp = Len(b.rows) * smp /\ b.queuesize = StillIn(tr, k + 1)
    BY <1>5, <1>7, <1>8, <1>11, <1>12
  <2> QED
    BY <1>1, <1>7, <1>10, <1>13, <2>1, <2>2, <2>3, Zenon DEF Current
<1> QED
  BY <1>2, <1>5, <1>6, <1>7, <1>14 DEF b, k

-----------------------------------------------------------------------------
(* analy: folds over rows and records                                      *)

\* The rows due are written one after the other.
LEMMA RowSteps ==
    ASSUME NEW a \in Main, NEW t, NEW N \in Nat, N = Due(a, t)
    PROVE  \E h : /\ h[0] = a
                  /\ \A m \in 1 .. N : h[m] = WriteRow(h[m - 1])
                  /\ WriteRows(a, t) = h[N]
<1> DEFINE T == Main
           s == [n \in 1 .. N |-> n]
           g == [z \in T \X Nat |-> WriteRow(z[1])]
           IsPass(f) == f = [u \in SUBSET DOMAIN s |->
                               IF u = {} THEN a ELSE WriteRow(f[u \ {Max(u)}])]
<1>1. \A x \in T : WriteRow(x) \in T
  BY RowTyped
<1>2. g \in [T \X Nat -> T] /\ \A x \in T, c \in Nat : g[<<x, c>>] = WriteRow(x)
  <2> HIDE DEF T
  <2> QED
    BY <1>1
<1>3. /\ Len(s) = N /\ s \in Seq(Nat) /\ DOMAIN s = 1 .. N /\ (\A m \in 1 .. N : s[m] \in Nat)
      /\ a \in T
  OBVIOUS
<1> HIDE DEF T
<1>4. WriteRows(a, t) = (CHOOSE f : IsPass(f))[1 .. N]
  <2>1. WriteRows(a, t) = FoldLeft(LAMBDA b, n : WriteRow(b), a, s)
    BY DEF WriteRows
  <2> QED
    BY <2>1, <1>3 DEF FoldLeft, MapThenFoldSet
<1> HIDE DEF g, s
<1>5. PICK f \in [SUBSET (1 .. N) -> T] : IsFold(f, g, a, s, N)
  <2>1. \E f \in [SUBSET (1 .. Len(s)) -> T] : IsFold(f, g, a, s, Len(s))
    BY <1>2, <1>3, FoldExists, Zenon
  <2> QED
    BY <1>3, <2>1
<1>6. IsPass(f)
  <2>1. ASSUME NEW u \in SUBSET (1 .. N)
        PROVE  f[u] = IF u = {} THEN a ELSE WriteRow(f[u \ {Max(u)}])
    <3>1. f[u] = FoldStep(f, g, a, s, u)
      BY <1>5 DEF IsFold
    <3>2. CASE u = {}
      BY <3>1, <3>2 DEF FoldStep
    <3>3. CASE u # {}
      <4>1. Max(u) \in 1 .. N /\ u \ {Max(u)} \in SUBSET (1 .. N)
        BY <3>3, MaxInside
      <4>2. f[u \ {Max(u)}] \in T /\ s[Max(u)] \in Nat
        BY <1>3, <1>5, <4>1
      <4> QED
        BY <1>2, <3>1, <3>3, <4>2 DEF FoldStep
    <3> QED
      BY <3>2, <3>3
  <2>2. f = [u \in SUBSET (1 .. N) |-> f[u]]
    BY <1>5
  <2> QED
    BY <1>3, <2>1, <2>2
<1> DEFINE e == CHOOSE x : IsPass(x)
           h == [m \in 0 .. N |-> e[1 .. m]]
<1>7. IsPass(e)
  <2> HIDE DEF IsPass
  <2> QED
    BY <1>6, Zenon
<1> HIDE DEF e
<1>8. h[0] = a
  <2>1. 1 .. 0 = {} /\ {} \in SUBSET (1 .. N) /\ 0 \in 0 .. N
    OBVIOUS
  <2>2. e[{}] = a
    BY <1>3, <1>7, <2>1
  <2> QED
    BY <2>1, <2>2
<1>9. ASSUME NEW m \in 1 .. N PROVE h[m] = WriteRow(h[m - 1])
  <2>1. m \in Nat \ {0} /\ m \in 0 .. N /\ m - 1 \in 0 .. N
    OBVIOUS
  <2>2. Max(1 .. m) = m /\ (1 .. m) \ {m} = 1 .. m - 1
    BY <2>1, MaxOfInterval
  <2>3. (1 .. m) \in SUBSET (1 .. N) /\ 1 .. m # {}
    <3>1. m \in 1 .. m /\ \A x \in 1 .. m : x \in 1 .. N
      OBVIOUS
    <3> QED
      BY <3>1, Zenon
  <2>4. e[1 .. m] = WriteRow(e[(1 .. m) \ {Max(1 .. m)}])
    BY <1>3, <1>7, <2>3
  <2>5. h[m] = e[1 .. m] /\ h[m - 1] = e[1 .. m - 1]
    BY <2>1
  <2> QED
    BY <2>2, <2>4, <2>5
<1>10. WriteRows(a, t) = h[N]
  BY <1>4 DEF e
<1> HIDE DEF h
<1> QED
  BY <1>8, <1>9, <1>10

\* Before a record at time t is counted, the rows of all intervals before its own are
\* written, and nothing else has changed.
LEMMA RowsWritten ==
    ASSUME NEW a \in Main, NEW tr \in [Intervals -> Tally], Current(a, tr),
           NEW t \in 0 .. MaxTime, a.rows = << >> \/ Ended(Len(a.rows), t)
    PROVE  LET b == WriteRows(a, t)
           IN  /\ b \in Main /\ Current(b, tr) /\ Len(b.rows) + 1 = Interval(t)
               /\ b.rows = << >> \/ Ended(Len(b.rows), t)
               /\ b.backlog = a.backlog /\ b.i = a.i /\ b.queuesize = a.queuesize
<1> DEFINE N == Due(a, t)
           K == Len(a.rows)
           b == WriteRows(a, t)
<1>1. smp \in Nat \ {0} /\ MaxTime \in Nat /\ t \in Nat
  BY TraceAssumption
<1>2. K \in Nat /\ a.timestamp = K * smp /\ (a.rows = << >> <=> K = 0)
  BY DEF Main, Current
<1>3. /\ N \in Nat
      /\ ~Ended(K + N + 1, t)
      /\ N # 0 => Ended(K + N, t)
  <2> HIDE DEF K
  <2> QED
    BY <1>1, <1>2, DueIs
<1> HIDE DEF N, K
<1>4. K + N \in Nat /\ (K + N = 0 \/ Ended(K + N, t))
  <2>1. CASE N = 0
    <3>1. K + N = K
      BY <1>2, <2>1
    <3>2. K = 0 \/ Ended(K, t)
      BY <1>2 DEF K
    <3> QED
      BY <1>2, <3>1, <3>2
  <2>2. CASE N # 0
    BY <1>2, <1>3, <2>2
  <2> QED
    BY <2>1, <2>2
<1>5. Interval(t) = K + N + 1 /\ K + N + 1 \in Intervals
  <2>1. K + N + 1 \in Nat \ {0} /\ (K + N + 1) - 1 = K + N
    BY <1>4
  <2>2. K + N + 1 = 1 \/ Ended((K + N + 1) - 1, t)
    <3>1. CASE K + N = 0
      BY <3>1
    <3>2. CASE K + N # 0
      BY <1>4, <2>1, <3>2
    <3> QED
      BY <3>1, <3>2
  <2>3. Interval(t) = K + N + 1
    BY <1>1, <1>3, <2>1, <2>2, IntervalIs, Zenon
  <2> QED
    BY <2>3, IntervalInside
<1>6. PICK h : /\ h[0] = a
               /\ \A m \in 1 .. N : h[m] = WriteRow(h[m - 1])
               /\ b = h[N]
  BY <1>3, RowSteps DEF N
<1> DEFINE Fine(m) == /\ h[m] \in Main /\ Current(h[m], tr) /\ Len(h[m].rows) = K + m
                      /\ h[m].backlog = a.backlog /\ h[m].i = a.i
                      /\ h[m].queuesize = a.queuesize
           Bad == {m \in 0 .. N : ~Fine(m)}
<1>7. Fine(0)
  BY <1>2, <1>6 DEF K
<1>8. ASSUME NEW m \in 1 .. N, Fine(m - 1) PROVE Fine(m)
  <2>1. h[m] = WriteRow(h[m - 1])
    BY <1>6
  <2>2. Len(h[m - 1].rows) + 2 \in Intervals
    <3>1. Len(h[m - 1].rows) = K + (m - 1)
      BY <1>8
    <3>2. K + (m - 1) + 2 \in Nat \ {0} /\ K + (m - 1) + 2 <= K + N + 1
      BY <1>2, <1>3
    <3> QED
      BY <1>5, <3>1, <3>2, IntervalInside DEF Intervals
  <2> DEFINE c == h[m - 1]
  <2>3. c \in Main /\ Current(c, tr) /\ Len(c.rows) + 2 \in Intervals
    BY <1>8, <2>2
  <2>4. Len(c.rows) = K + (m - 1) /\ c.backlog = a.backlog /\ c.i = a.i /\ c.queuesize = a.queuesize
    BY <1>8
  <2> HIDE DEF c
  <2>5. LET d == WriteRow(c)
        IN  /\ d \in Main /\ Current(d, tr) /\ Len(d.rows) = Len(c.rows) + 1
            /\ d.backlog = c.backlog /\ d.i = c.i /\ d.queuesize = c.queuesize
    BY <2>3, OneRow
  <2>6. h[m] = WriteRow(c)
    BY <2>1 DEF c
  <2>7. Len(c.rows) + 1 = K + m
    BY <1>2, <2>4
  <2> QED
    BY <2>4, <2>5, <2>6, <2>7
<1> HIDE DEF Fine
<1>9. Bad = {}
  <2> SUFFICES ASSUME Bad # {} PROVE FALSE
    OBVIOUS
  <2>1. Bad \in SUBSET Nat
    OBVIOUS
  <2>2. PICK m \in Bad : \A x \in Bad : m <= x
    BY <2>1, LeastNumber
  <2>3. m # 0 /\ m \in 0 .. N
    BY <1>7
  <2>4. m \in 1 .. N /\ m - 1 \in 0 .. N /\ ~(m <= m - 1)
    BY <1>3, <2>3
  <2>5. Fine(m - 1)
    BY <2>2, <2>4
  <2>6. Fine(m)
    BY <1>8, <2>4, <2>5
  <2> QED
    BY <2>6
<1>10. Fine(N)
  BY <1>3, <1>9
<1>11. /\ b \in Main /\ Current(b, tr) /\ Len(b.rows) = K + N
       /\ b.backlog = a.backlog /\ b.i = a.i /\ b.queuesize = a.queuesize
  BY <1>6, <1>10 DEF Fine
<1> HIDE DEF b
<1>12. b.rows = << >> \/ Ended(Len(b.rows), t)
  <2>1. K + N = 0 => b.rows = << >>
    <3>1. b.rows \in Seq(Row)
      BY <1>11 DEF Main
    <3> QED
      BY <1>11, <3>1
  <2> QED
    BY <1>4, <1>11, <2>1
<1> QED
  BY <1>4, <1>5, <1>11, <1>12 DEF b

\* One record is read, or two.
LEMMA ReadOne ==
    ASSUME NEW a, NEW s, DOMAIN s = 1 .. 1
    PROVE  FoldLeft(Read, a, s) = Read(a, s[1])
<1> DEFINE IsPass(f) == f = [u \in SUBSET DOMAIN s |->
                               IF u = {} THEN a ELSE Read(f[u \ {Max(u)}], s[Max(u)])]
           e == CHOOSE f : IsPass(f)
           f1 == [u \in SUBSET (1 .. 1) |-> IF u = {} THEN a ELSE Read(a, s[1])]
<1>1. FoldLeft(Read, a, s) = e[DOMAIN s]
  BY Zenon DEF FoldLeft, MapThenFoldSet
<1>2. Max(1 .. 1) = 1 /\ (1 .. 1) \ {1} = {} /\ (1 .. 1) # {} /\ {} \in SUBSET (1 .. 1)
  <2>1. 1 \in Nat \ {0} /\ 1 \in 1 .. 1 /\ 1 .. 1 - 1 = {}
    OBVIOUS
  <2> QED
    BY <2>1, MaxOfInterval
<1>3. \A u \in SUBSET (1 .. 1) : u # {} => u = 1 .. 1
  <2>1. 1 .. 1 = {1}
    OBVIOUS
  <2> QED
    BY <2>1, Zenon
<1>4. IsPass(f1)
  <2>1. ASSUME NEW u \in SUBSET (1 .. 1)
        PROVE  f1[u] = IF u = {} THEN a ELSE Read(f1[u \ {Max(u)}], s[Max(u)])
    <3>1. CASE u = {}
      BY <3>1
    <3>2. CASE u # {}
      <4>1. u = 1 .. 1
        BY <1>3, <3>2
      <4>2. Max(u) = 1 /\ u \ {Max(u)} = {} /\ f1[{}] = a
        BY <1>2, <4>1
      <4>3. f1[u] = Read(a, s[1])
        BY <3>2
      <4> QED
        BY <3>2, <4>2, <4>3, Zenon
    <3> QED
      BY <3>1, <3>2
  <2>2. f1 = [u \in SUBSET (1 .. 1) |-> f1[u]]
    OBVIOUS
  <2> HIDE DEF f1
  <2> QED
    BY <2>1, <2>2
<1>5. IsPass(e)
  <2> HIDE DEF IsPass, f1
  <2> QED
    BY <1>4, Zenon
<1> HIDE DEF e
<1>6. e[{}] = a
  BY <1>2, <1>5
<1>7. e[1 .. 1] = Read(e[(1 .. 1) \ {Max(1 .. 1)}], s[Max(1 .. 1)])
  <2>1. (1 .. 1) \in SUBSET DOMAIN s
    OBVIOUS
  <2> QED
    BY <1>2, <1>5, <2>1
<1> QED
  BY <1>1, <1>2, <1>6, <1>7, Zenon

LEMMA ReadTwo ==
    ASSUME NEW a, NEW s, DOMAIN s = 1 .. 2
    PROVE  FoldLeft(Read, a, s) = Read(Read(a, s[1]), s[2])
<1> DEFINE IsPass(f) == f = [u \in SUBSET DOMAIN s |->
                               IF u = {} THEN a ELSE Read(f[u \ {Max(u)}], s[Max(u)])]
           e == CHOOSE f : IsPass(f)
           f2 == [u \in SUBSET (1 .. 2) |->
                    IF u = {} THEN a
                    ELSE IF u = {1} THEN Read(a, s[1])
                    ELSE IF u = {2} THEN Read(a, s[2])
                    ELSE Read(Read(a, s[1]), s[2])]
<1>1. FoldLeft(Read, a, s) = e[DOMAIN s]
  BY Zenon DEF FoldLeft, MapThenFoldSet
<1>2. Max(1 .. 2) = 2 /\ (1 .. 2) \ {2} = {1} /\ Max({1}) = 1 /\ Max({2}) = 2
  <2>1. 2 \in Nat \ {0} /\ 1 \in Nat \ {0} /\ 1 .. 1 = {1} /\ 1 .. 2 - 1 = {1}
    OBVIOUS
  <2>2. {2} \in SUBSET (1 .. 2) /\ {2} # {} /\ 2 \in Nat
    OBVIOUS
  <2>3. Max({2}) \in {2}
    BY <2>2, MaxInside, Zenon
  <2> QED
    BY <2>1, <2>3, MaxOfInterval
<1>3. \A u \in SUBSET (1 .. 2) : u = {} \/ u = {1} \/ u = {2} \/ u = 1 .. 2
  <2>1. 1 .. 2 = {1, 2}
    OBVIOUS
  <2> QED
    BY <2>1
<1>4. /\ {} \in SUBSET (1 .. 2) /\ {1} \in SUBSET (1 .. 2) /\ {2} \in SUBSET (1 .. 2)
      /\ (1 .. 2) \in SUBSET (1 .. 2)
      /\ {1} # {} /\ {2} # {} /\ {2} # {1} /\ 1 .. 2 # {} /\ 1 .. 2 # {1} /\ 1 .. 2 # {2}
  <2>1. 1 \in 1 .. 2 /\ 2 \in 1 .. 2 /\ 1 # 2
    OBVIOUS
  <2> QED
    BY <2>1
<1>5. /\ f2[{}] = a /\ f2[{1}] = Read(a, s[1]) /\ f2[{2}] = Read(a, s[2])
      /\ f2[1 .. 2] = Read(Read(a, s[1]), s[2])
  BY <1>4
<1>6. IsPass(f2)
  <2>1. f2 = [u \in SUBSET (1 .. 2) |-> f2[u]]
    OBVIOUS
  <2> HIDE DEF f2
  <2>2. ASSUME NEW u \in SUBSET (1 .. 2)
        PROVE  f2[u] = IF u = {} THEN a ELSE Read(f2[u \ {Max(u)}], s[Max(u)])
    <3>1. CASE u = {}
      BY <1>5, <3>1
    <3>2. CASE u = {1}
      <4>1. Max(u) = 1 /\ u \ {Max(u)} = {} /\ u # {}
        BY <1>2, <3>2
      <4> QED
        BY <1>5, <3>2, <4>1
    <3>3. CASE u = {2}
      <4>1. Max(u) = 2 /\ u \ {Max(u)} = {} /\ u # {}
        BY <1>2, <3>3
      <4> QED
        BY <1>5, <3>3, <4>1
    <3>4. CASE u = 1 .. 2
      <4>1. Max(u) = 2 /\ u \ {Max(u)} = {1} /\ u # {}
        BY <1>2, <1>4, <3>4
      <4> QED
        BY <1>5, <3>4, <4>1
    <3> QED
      BY <1>3, <3>1, <3>2, <3>3, <3>4
  <2> QED
    BY <2>1, <2>2
<1>7. IsPass(e)
  <2> HIDE DEF IsPass, f2
  <2> QED
    BY <1>6, Zenon
<1> HIDE DEF e, f2
<1>8. e[{}] = a
  BY <1>4, <1>7
<1>9. e[{1}] = Read(e[{1} \ {Max({1})}], s[Max({1})])
  BY <1>4, <1>7
<1>10. e[1 .. 2] = Read(e[(1 .. 2) \ {Max(1 .. 2)}], s[Max(1 .. 2)])
  BY <1>4, <1>7
<1>11. {1} \ {1} = {}
  OBVIOUS
<1> HIDE DEF IsPass
<1> QED
  BY <1>1, <1>2, <1>8, <1>9, <1>10, <1>11, Zenon

-----------------------------------------------------------------------------
(* analy: the backlog                                                      *)

\* A search ends at one of the entries that stop it.
LEMMA SearchFinds ==
    ASSUME NEW a, a.i \in 0 .. DIM - 1, NEW stops \in SUBSET (0 .. DIM - 1), stops # {}
    PROVE  SearchFrom(a, stops) \in stops
<1> DEFINE distance(j) == (j - a.i + DIM) % DIM
           Reached == {distance(j) : j \in stops}
<1>1. DIM \in Nat \ {0}
  BY TraceAssumption
<1>2. \A j \in stops : distance(j) \in Nat
  <2> SUFFICES ASSUME NEW j \in stops PROVE distance(j) \in Nat
    OBVIOUS
  <2>1. j - a.i + DIM \in Int
    BY <1>1
  <2> QED
    BY <1>1, <2>1
<1> HIDE DEF distance
<1>3. Reached \in SUBSET Nat /\ Reached # {}
  BY <1>2
<1>4. PICK n \in Reached : \A m \in Reached : n <= m
  BY <1>3, LeastNumber
<1>5. PICK j \in stops : distance(j) = n
  OBVIOUS
<1>6. \A k \in stops : distance(j) <= distance(k)
  BY <1>4, <1>5
<1>7. (CHOOSE x \in stops : \A k \in stops : distance(x) <= distance(k)) \in stops
  <2> HIDE DEF Reached
  <2> QED
    BY <1>5, <1>6, Zenon
<1> QED
  BY <1>7 DEF SearchFrom, distance

Fields == {"timestamp", "input", "output", "drop", "delay", "queuesize", "i", "rows", "backlog"}

LEMMA MainFields ==
    /\ \A a \in Main : DOMAIN a = Fields
    /\ \A b : (/\ b = [f \in Fields |-> b[f]]
               /\ b.timestamp \in Nat /\ b.input \in Nat /\ b.output \in Nat /\ b.drop \in Nat
               /\ b.delay \in Int /\ b.queuesize \in Int /\ b.i \in 0 .. DIM - 1
               /\ b.rows \in Seq(Row) /\ b.backlog \in [0 .. DIM - 1 -> Entry]) => b \in Main
<1>1. \A a \in Main : DOMAIN a = Fields
  BY DEF Main, Fields
<1>2. ASSUME NEW b, b = [f \in Fields |-> b[f]],
             b.timestamp \in Nat, b.input \in Nat, b.output \in Nat, b.drop \in Nat,
             b.delay \in Int, b.queuesize \in Int, b.i \in 0 .. DIM - 1,
             b.rows \in Seq(Row), b.backlog \in [0 .. DIM - 1 -> Entry]
      PROVE  b \in Main
  <2> DEFINE c == [timestamp |-> b.timestamp, input |-> b.input, output |-> b.output,
                   drop |-> b.drop, delay |-> b.delay, queuesize |-> b.queuesize, i |-> b.i,
                   rows |-> b.rows, backlog |-> b.backlog]
  <2>1. c = [f \in Fields |-> c[f]] /\ \A f \in Fields : c[f] = b[f]
    BY DEF Fields
  <2>2. c \in Main
    BY <1>2 DEF Main
  <2> HIDE DEF c
  <2>3. c = b
    BY <1>2, <2>1
  <2> QED
    BY <2>2, <2>3
<1> QED
  BY <1>1, <1>2

\* The types of a record with the fields of Main.
FieldsTyped(b) ==
    /\ b = [f \in Fields |-> b[f]]
    /\ b.timestamp \in Nat /\ b.input \in Nat /\ b.output \in Nat /\ b.drop \in Nat
    /\ b.delay \in Int /\ b.queuesize \in Int /\ b.i \in 0 .. DIM - 1
    /\ b.rows \in Seq(Row) /\ b.backlog \in [0 .. DIM - 1 -> Entry]

LEMMA IsMain == \A b : FieldsTyped(b) => b \in Main
  BY MainFields, Zenon DEF FieldsTyped

\* A free entry of a is taken in b for packet p that comes at time t.
Taken(a, b, p, t) ==
    \E j \in Free(a) : b.backlog = [a.backlog EXCEPT ![j] = [busy |-> 1, ts |-> t, pktID |-> p]]

\* What the records do to the state of main().
LEMMA PlusTyped ==
    ASSUME NEW a \in Main, NEW p \in Packets, NEW t \in 0 .. MaxTime, Free(a) # {}
    PROVE  LET b == Plus(a, p, t)
           IN  /\ b \in Main
               /\ b.timestamp = a.timestamp /\ b.rows = a.rows
               /\ b.input = a.input + 1 /\ b.output = a.output /\ b.drop = a.drop
               /\ b.delay = a.delay /\ b.queuesize = a.queuesize + 1
               /\ Taken(a, b, p, t)
<1> DEFINE b == Plus(a, p, t)
           j == SearchFrom(a, Free(a))
           new == [busy |-> 1, ts |-> t, pktID |-> p]
<1>1. /\ DOMAIN a = Fields /\ a.timestamp \in Nat /\ a.input \in Nat /\ a.output \in Nat
      /\ a.drop \in Nat /\ a.delay \in Int /\ a.queuesize \in Int /\ a.i \in 0 .. DIM - 1
      /\ a.rows \in Seq(Row) /\ a.backlog \in [0 .. DIM - 1 -> Entry]
  BY MainFields DEF Main
<1>2. Free(a) \in SUBSET (0 .. DIM - 1)
  BY <1>1 DEF Free
<1>3. j \in Free(a) /\ j \in 0 .. DIM - 1
  BY <1>1, <1>2, SearchFinds
<1>4. new \in Entry
  BY DEF Entry
<1> HIDE DEF j, new
<1>5. b = [a EXCEPT !.input = a.input + 1, !.queuesize = a.queuesize + 1, !.i = j,
                    !.backlog = [a.backlog EXCEPT ![j] = new]]
  BY <1>1 DEF Plus, j, new, Fields
<1> HIDE DEF b
<1>6. b = [f \in Fields |-> b[f]]
  BY <1>1, <1>5
<1>7. /\ b.timestamp = a.timestamp /\ b.rows = a.rows
      /\ b.input = a.input + 1 /\ b.output = a.output /\ b.drop = a.drop
      /\ b.delay = a.delay /\ b.queuesize = a.queuesize + 1 /\ b.i = j
      /\ b.backlog = [a.backlog EXCEPT ![j] = new]
  BY <1>1, <1>5 DEF Fields
<1>8. b.backlog \in [0 .. DIM - 1 -> Entry]
  BY <1>1, <1>3, <1>4, <1>7
<1>9. b \in Main
  <2>0. a.input + 1 \in Nat /\ a.queuesize + 1 \in Int
    BY <1>1
  <2>1. FieldsTyped(b)
    BY <1>1, <1>3, <1>6, <1>7, <1>8, <2>0, Zenon DEF FieldsTyped
  <2> QED
    BY <2>1, IsMain, Zenon
<1> QED
  BY <1>3, <1>7, <1>9 DEF b, new, Taken

\* Entry j is free again.
Freed(e, j) == [e EXCEPT ![j] = [e[j] EXCEPT !.busy = 0]]

LEMMA FreedTyped ==
    ASSUME NEW e \in [0 .. DIM - 1 -> Entry], NEW j \in 0 .. DIM - 1
    PROVE  /\ Freed(e, j) \in [0 .. DIM - 1 -> Entry]
           /\ \A k \in 0 .. DIM - 1 : k # j => Freed(e, j)[k] = e[k]
           /\ Freed(e, j)[j].busy = 0
  BY DEF Freed, Entry

LEMMA MinusTyped ==
    ASSUME NEW a \in Main, NEW p \in Packets, NEW t \in 0 .. MaxTime, Holds(a, p) # {}
    PROVE  LET b == Minus(a, p, t)
           IN  /\ b \in Main
               /\ b.timestamp = a.timestamp /\ b.rows = a.rows
               /\ b.input = a.input /\ b.output = a.output + 1 /\ b.drop = a.drop
               /\ b.queuesize = a.queuesize - 1
               /\ \E j \in Holds(a, p) : /\ b.backlog = Freed(a.backlog, j)
                                         /\ b.delay = a.delay + (t - a.backlog[j].ts)
<1> DEFINE b == Minus(a, p, t)
           j == SearchFrom(a, Holds(a, p))
<1>1. /\ DOMAIN a = Fields /\ a.timestamp \in Nat /\ a.input \in Nat /\ a.output \in Nat
      /\ a.drop \in Nat /\ a.delay \in Int /\ a.queuesize \in Int /\ a.i \in 0 .. DIM - 1
      /\ a.rows \in Seq(Row) /\ a.backlog \in [0 .. DIM - 1 -> Entry]
  BY MainFields DEF Main
<1>2. Holds(a, p) \in SUBSET (0 .. DIM - 1)
  BY <1>1 DEF Holds
<1>3. j \in Holds(a, p) /\ j \in 0 .. DIM - 1
  BY <1>1, <1>2, SearchFinds
<1>4. a.backlog[j].ts \in Int /\ t \in Int /\ MaxTime \in Int
  BY <1>1, <1>3, TraceAssumption, SMTT(30) DEF Entry
<1> HIDE DEF j
<1>5. b = [a EXCEPT !.output = a.output + 1, !.queuesize = a.queuesize - 1, !.i = j,
                    !.delay = a.delay + t - a.backlog[j].ts,
                    !.backlog = Freed(a.backlog, j)]
  BY <1>1 DEF Minus, j, Freed, Fields
<1> HIDE DEF b
<1>6. b = [f \in Fields |-> b[f]]
  BY <1>1, <1>5
<1>7. /\ b.timestamp = a.timestamp /\ b.rows = a.rows
      /\ b.input = a.input /\ b.output = a.output + 1 /\ b.drop = a.drop
      /\ b.queuesize = a.queuesize - 1 /\ b.i = j
      /\ b.backlog = Freed(a.backlog, j) /\ b.delay = a.delay + t - a.backlog[j].ts
  BY <1>1, <1>5 DEF Fields
<1>8. b.backlog \in [0 .. DIM - 1 -> Entry]
  BY <1>1, <1>3, <1>7, FreedTyped
<1>9. b.delay = a.delay + (t - a.backlog[j].ts) /\ b.delay \in Int
  BY <1>1, <1>4, <1>7, SMTT(30)
<1>10. b \in Main
  <2>0. a.output + 1 \in Nat /\ a.queuesize - 1 \in Int
    BY <1>1
  <2>1. FieldsTyped(b)
    BY <1>1, <1>3, <1>6, <1>7, <1>8, <1>9, <2>0, Zenon DEF FieldsTyped
  <2> QED
    BY <2>1, IsMain, Zenon
<1> QED
  BY <1>3, <1>7, <1>9, <1>10 DEF b

LEMMA DropTyped ==
    ASSUME NEW a \in Main, NEW p \in Packets, Names(a, p) # {}
    PROVE  LET b == Drop(a, p)
           IN  /\ b \in Main
               /\ b.timestamp = a.timestamp /\ b.rows = a.rows
               /\ b.input = a.input /\ b.output = a.output /\ b.drop = a.drop + 1
               /\ b.delay = a.delay /\ b.queuesize = a.queuesize - 1
               /\ \E j \in Names(a, p) : b.backlog = Freed(a.backlog, j)
<1> DEFINE b == Drop(a, p)
           j == SearchFrom(a, Names(a, p))
<1>1. /\ DOMAIN a = Fields /\ a.timestamp \in Nat /\ a.input \in Nat /\ a.output \in Nat
      /\ a.drop \in Nat /\ a.delay \in Int /\ a.queuesize \in Int /\ a.i \in 0 .. DIM - 1
      /\ a.rows \in Seq(Row) /\ a.backlog \in [0 .. DIM - 1 -> Entry]
  BY MainFields DEF Main
<1>2. Names(a, p) \in SUBSET (0 .. DIM - 1)
  BY <1>1 DEF Names
<1>3. j \in Names(a, p) /\ j \in 0 .. DIM - 1
  BY <1>1, <1>2, SearchFinds
<1> HIDE DEF j
<1>4. b = [a EXCEPT !.drop = a.drop + 1, !.queuesize = a.queuesize - 1, !.i = j,
                    !.backlog = Freed(a.backlog, j)]
  BY <1>1 DEF Drop, j, Freed, Fields
<1> HIDE DEF b
<1>5. b = [f \in Fields |-> b[f]]
  BY <1>1, <1>4
<1>6. /\ b.timestamp = a.timestamp /\ b.rows = a.rows
      /\ b.input = a.input /\ b.output = a.output /\ b.drop = a.drop + 1
      /\ b.delay = a.delay /\ b.queuesize = a.queuesize - 1 /\ b.i = j
      /\ b.backlog = Freed(a.backlog, j)
  BY <1>1, <1>4 DEF Fields
<1>7. b.backlog \in [0 .. DIM - 1 -> Entry]
  BY <1>1, <1>3, <1>6, FreedTyped
<1>8. b \in Main
  <2>1. FieldsTyped(b)
    BY <1>1, <1>3, <1>5, <1>6, <1>7, SMTT(30) DEF FieldsTyped
  <2> QED
    BY <2>1, IsMain, Zenon
<1> QED
  BY <1>3, <1>6, <1>8 DEF b

\* An entry is taken for a packet that comes.
LEMMA SoundPlus ==
    ASSUME NEW a \in Main, NEW cm \in [Packets -> Int], NEW waiting \in SUBSET Packets,
           Sound(a, cm, waiting), NEW p \in Packets, cm[p] = Never, p \notin waiting,
           NEW t \in Nat, NEW b, NEW j \in Free(a),
           b.backlog = [a.backlog EXCEPT ![j] = [busy |-> 1, ts |-> t, pktID |-> p]]
    PROVE  /\ Sound(b, [cm EXCEPT ![p] = t], waiting \cup {p})
           /\ j \in Names(b, p)
<1> DEFINE B == a.backlog
           C == b.backlog
           cn == [cm EXCEPT ![p] = t]
           new == [busy |-> 1, ts |-> t, pktID |-> p]
           D == 0 .. DIM - 1
<1>1. /\ B \in [D -> Entry] /\ j \in D /\ B[j].busy = 0 /\ DOMAIN B = D
  BY DEF Main, Free
<1>2. /\ DOMAIN C = D /\ C[j] = new /\ \A k \in D : k # j => C[k] = B[k]
  BY <1>1
<1>3. new.busy = 1 /\ new.pktID = p /\ new.ts = t
  OBVIOUS
<1>4. cn[p] = t /\ (\A q \in Packets : q # p => cn[q] = cm[q]) /\ t # Never
  BY DEF Never
<1> HIDE DEF B, C, cn, new, D
<1>5. /\ \A k \in D : B[k].busy = 1 => B[k].pktID \in Packets /\ cm[B[k].pktID] # Never
      /\ \A q \in waiting : \E k \in D : /\ B[k] = [busy |-> 1, ts |-> cm[q], pktID |-> q]
                                         /\ Holds(a, q) = {k}
  BY DEF Sound, B, D
<1>6. /\ \A q : Holds(a, q) = {k \in D : B[k].busy = 1 /\ B[k].pktID = q}
      /\ \A q : Holds(b, q) = {k \in D : C[k].busy = 1 /\ C[k].pktID = q}
  BY <1>1, <1>2 DEF Holds, B, C
<1>7. ASSUME NEW k \in D, C[k].busy = 1 PROVE C[k].pktID \in Packets /\ cn[C[k].pktID] # Never
  <2>1. CASE k = j
    BY <1>2, <1>3, <1>4, <2>1
  <2>2. CASE k # j
    <3>1. B[k].pktID \in Packets /\ cm[B[k].pktID] # Never /\ C[k] = B[k]
      BY <1>2, <1>5, <1>7, <2>2
    <3> QED
      BY <1>4, <3>1
  <2> QED
    BY <2>1, <2>2
<1>8. Holds(a, p) = {}
  BY <1>5, <1>6
<1>9. Holds(b, p) = {j}
  BY <1>1, <1>2, <1>3, <1>6, <1>8
<1>10. ASSUME NEW q \in waiting
       PROVE  \E k \in D : C[k] = [busy |-> 1, ts |-> cn[q], pktID |-> q] /\ Holds(b, q) = {k}
  <2>1. q # p /\ q \in Packets /\ cn[q] = cm[q]
    BY <1>4
  <2>2. PICK k \in D : B[k] = [busy |-> 1, ts |-> cm[q], pktID |-> q] /\ Holds(a, q) = {k}
    BY <1>5
  <2>3. k # j
    BY <1>1, <2>2
  <2>4. C[k] = B[k]
    BY <1>2, <2>3
  <2>5. \A l \in D : (C[l].busy = 1 /\ C[l].pktID = q) <=> (B[l].busy = 1 /\ B[l].pktID = q)
    <3> SUFFICES ASSUME NEW l \in D
                 PROVE  (C[l].busy = 1 /\ C[l].pktID = q) <=> (B[l].busy = 1 /\ B[l].pktID = q)
      OBVIOUS
    <3>1. CASE l = j
      BY <1>1, <1>2, <1>3, <2>1, <3>1
    <3>2. CASE l # j
      BY <1>2, <3>2
    <3> QED
      BY <3>1, <3>2
  <2>6. Holds(b, q) = Holds(a, q)
    BY <1>6, <2>5
  <2> QED
    BY <2>1, <2>2, <2>4, <2>6
<1>11. C[j] = [busy |-> 1, ts |-> cn[p], pktID |-> p] /\ j \in D
  BY <1>1, <1>2, <1>4 DEF new
<1>12. Sound(b, cn, waiting \cup {p})
  BY <1>7, <1>9, <1>10, <1>11 DEF Sound, C, D
<1>13. j \in Names(b, p)
  BY <1>1, <1>2, <1>3 DEF Names, C
<1> QED
  BY <1>12, <1>13 DEF cn

\* An entry with the number of a packet that leaves becomes free.
LEMMA SoundFreed ==
    ASSUME NEW a \in Main, NEW cm \in [Packets -> Int], NEW waiting \in SUBSET Packets,
           Sound(a, cm, waiting), NEW p \in Packets,
           NEW j \in Names(a, p), NEW b, b.backlog = Freed(a.backlog, j)
    PROVE  Sound(b, [cm EXCEPT ![p] = Gone], waiting \ {p})
<1> DEFINE B == a.backlog
           C == b.backlog
           cn == [cm EXCEPT ![p] = Gone]
           D == 0 .. DIM - 1
<1>1. /\ B \in [D -> Entry] /\ j \in D /\ DOMAIN B = D /\ B[j].pktID = p
  BY DEF Main, Names
<1>2. /\ C \in [D -> Entry] /\ DOMAIN C = D /\ C[j].busy = 0 /\ \A k \in D : k # j => C[k] = B[k]
  BY <1>1, FreedTyped
<1>3. cn[p] = Gone /\ (\A q \in Packets : q # p => cn[q] = cm[q]) /\ Gone # Never
  BY DEF Gone, Never
<1> HIDE DEF B, C, cn, D
<1>4. /\ \A k \in D : B[k].busy = 1 => B[k].pktID \in Packets /\ cm[B[k].pktID] # Never
      /\ \A q \in waiting : \E k \in D : /\ B[k] = [busy |-> 1, ts |-> cm[q], pktID |-> q]
                                         /\ Holds(a, q) = {k}
  BY DEF Sound, B, D
<1>5. /\ \A q : Holds(a, q) = {k \in D : B[k].busy = 1 /\ B[k].pktID = q}
      /\ \A q : Holds(b, q) = {k \in D : C[k].busy = 1 /\ C[k].pktID = q}
  BY <1>1, <1>2 DEF Holds, B, C
<1>6. ASSUME NEW k \in D, C[k].busy = 1 PROVE C[k].pktID \in Packets /\ cn[C[k].pktID] # Never
  <2>1. k # j /\ C[k] = B[k]
    BY <1>2, <1>6
  <2>2. B[k].pktID \in Packets /\ cm[B[k].pktID] # Never
    BY <1>4, <1>6, <2>1
  <2> QED
    BY <1>3, <2>1, <2>2
<1>7. ASSUME NEW q \in waiting \ {p}
      PROVE  \E k \in D : C[k] = [busy |-> 1, ts |-> cn[q], pktID |-> q] /\ Holds(b, q) = {k}
  <2>1. q # p /\ q \in Packets /\ cn[q] = cm[q]
    BY <1>3
  <2>2. PICK k \in D : B[k] = [busy |-> 1, ts |-> cm[q], pktID |-> q] /\ Holds(a, q) = {k}
    BY <1>4
  <2>3. B[k].pktID = q
    BY <2>2
  <2>4. k # j /\ C[k] = B[k]
    BY <1>1, <1>2, <2>1, <2>3
  <2>5. \A l \in D : (C[l].busy = 1 /\ C[l].pktID = q) <=> (B[l].busy = 1 /\ B[l].pktID = q)
    <3> SUFFICES ASSUME NEW l \in D
                 PROVE  (C[l].busy = 1 /\ C[l].pktID = q) <=> (B[l].busy = 1 /\ B[l].pktID = q)
      OBVIOUS
    <3>1. CASE l = j
      BY <1>1, <1>2, <2>1, <3>1
    <3>2. CASE l # j
      BY <1>2, <3>2
    <3> QED
      BY <3>1, <3>2
  <2>6. Holds(b, q) = Holds(a, q)
    BY <1>5, <2>5
  <2> QED
    BY <2>1, <2>2, <2>4, <2>6
<1>8. Sound(b, cn, waiting \ {p})
  BY <1>6, <1>7 DEF Sound, C, D
<1> QED
  BY <1>8 DEF cn

\* Something becomes known of a packet that does not wait.
LEMMA SoundOther ==
    ASSUME NEW a, NEW b, NEW cm \in [Packets -> Int], NEW waiting \in SUBSET Packets,
           Sound(a, cm, waiting), NEW p \in Packets \ waiting, NEW x, x # Never,
           b.backlog = a.backlog
    PROVE  Sound(b, [cm EXCEPT ![p] = x], waiting)
<1> DEFINE cn == [cm EXCEPT ![p] = x]
<1>1. /\ \A q \in waiting : cn[q] = cm[q] /\ Holds(b, q) = Holds(a, q)
      /\ \A q \in Packets : cm[q] # Never => cn[q] # Never
  BY DEF Holds
<1> HIDE DEF cn
<1>2. Sound(b, cn, waiting)
  BY <1>1 DEF Sound
<1> QED
  BY <1>2 DEF cn

\* A record is counted in the interval after the last row.
LEMMA CountedIn ==
    ASSUME NEW a \in Main, NEW tr \in [Intervals -> Tally], Current(a, tr),
           NEW b \in Main, b.rows = a.rows, b.timestamp = a.timestamp,
           NEW x \in Tally, NEW k, k = Len(a.rows) + 1,
           b.input = x.input, b.output = x.output, b.drop = x.drop,
           k > 1 => b.delay = x.delay,
           b.queuesize = a.queuesize + (((x.input - x.output) - x.drop) - Net(tr)[k])
    PROVE  Current(b, [tr EXCEPT ![k] = x]) /\ [tr EXCEPT ![k] = x] \in [Intervals -> Tally]
<1> DEFINE ts == [tr EXCEPT ![k] = x]
<1>1. DOMAIN tr = Intervals /\ Interval(MaxTime) \in Nat
  BY IntervalInside
<1>2. /\ k \in Intervals /\ k \in Nat \ {0} /\ Len(a.rows) = k - 1 /\ Len(a.rows) \in Nat
      /\ a.timestamp = Len(a.rows) * smp
      /\ \A n \in 1 .. Len(a.rows) : RowIs(a.rows[n], n, tr)
      /\ a.queuesize = StillIn(tr, k)
      /\ \A n \in Intervals : n > k => tr[n] = Nothing
  BY <1>1, SMTT(30) DEF Current, Main
<1>3. /\ ts \in [Intervals -> Tally] /\ DOMAIN ts = Intervals /\ ts[k] = x
      /\ \A n \in Intervals : n # k => ts[n] = tr[n]
  BY <1>2
<1> HIDE DEF ts
<1>4. \A n \in 0 .. k - 1 : StillIn(ts, n) = StillIn(tr, n)
  <2> SUFFICES ASSUME NEW n \in 0 .. k - 1 PROVE StillIn(ts, n) = StillIn(tr, n)
    OBVIOUS
  <2>1. n \in 0 .. Interval(MaxTime) /\ \A m \in 1 .. n : m \in Intervals /\ m # k
    BY <1>1, <1>2 DEF Intervals
  <2>2. \A m \in 1 .. n : ts[m] = tr[m]
    BY <1>3, <2>1
  <2> QED
    BY <1>3, <2>1, <2>2, StillInSame
<1>5. \A n \in 1 .. Len(a.rows) : RowIs(b.rows[n], n, ts)
  <2> SUFFICES ASSUME NEW n \in 1 .. Len(a.rows) PROVE RowIs(b.rows[n], n, ts)
    OBVIOUS
  <2>1. n \in Intervals /\ n # k /\ n \in 0 .. k - 1
    BY <1>1, <1>2 DEF Intervals
  <2>2. ts[n] = tr[n] /\ StillIn(ts, n) = StillIn(tr, n) /\ b.rows[n] = a.rows[n]
    BY <1>3, <1>4, <2>1
  <2>3. RowIs(a.rows[n], n, tr)
    BY <1>2
  <2> QED
    BY <2>2, <2>3 DEF RowIs
<1>6. b.queuesize = StillIn(ts, k)
  <2>1. /\ StillIn(ts, k) = StillIn(ts, k - 1) + Net(ts)[k]
        /\ Net(ts)[k] = (ts[k].input - ts[k].output) - ts[k].drop
    BY <1>2, <1>3, StillInGrows
  <2>2. /\ StillIn(tr, k) = StillIn(tr, k - 1) + Net(tr)[k] /\ StillIn(tr, k - 1) \in Int
        /\ Net(tr)[k] = (tr[k].input - tr[k].output) - tr[k].drop
    BY <1>2, StillInGrows
  <2>3. k - 1 \in 0 .. k - 1
    BY <1>2
  <2>4. StillIn(ts, k - 1) = StillIn(tr, k - 1)
    BY <1>4, <2>3
  <2>5. Net(tr)[k] \in Int
    <3>1. tr[k].input \in Nat /\ tr[k].output \in Nat /\ tr[k].drop \in Nat
      BY <1>2 DEF Tally
    <3> QED
      BY <2>2, <3>1, SMTT(30)
  <2>6. (x.input - x.output) - x.drop \in Int
    BY DEF Tally
  <2>7. Net(ts)[k] = (x.input - x.output) - x.drop
    BY <1>3, <2>1
  <2> DEFINE u == (x.input - x.output) - x.drop
             v == Net(tr)[k]
             w == StillIn(tr, k - 1)
  <2>8. StillIn(ts, k) = w + u /\ a.queuesize = w + v /\ b.queuesize = a.queuesize + (u - v)
    BY <1>2, <2>1, <2>2, <2>4, <2>7
  <2>9. u \in Int /\ v \in Int /\ w \in Int
    BY <2>2, <2>5, <2>6
  <2> HIDE DEF u, v, w
  <2> QED
    BY <2>8, <2>9
<1>7. \A n \in Intervals : n > k => ts[n] = Nothing
  <2>1. \A n \in Intervals : n > k => n # k
    BY <1>2 DEF Intervals
  <2> QED
    BY <1>2, <1>3, <2>1
<1>8. Len(b.rows) + 1 = k /\ Len(b.rows) = Len(a.rows)
  OBVIOUS
<1>9. b.timestamp = Len(b.rows) * smp
  BY <1>2
<1>10. b.input = ts[k].input /\ b.output = ts[k].output /\ b.drop = ts[k].drop
       /\ (k > 1 => b.delay = ts[k].delay)
  BY <1>3
<1>11. Current(b, ts)
  BY <1>2, <1>3, <1>5, <1>6, <1>7, <1>8, <1>9, <1>10 DEF Current
<1> QED
  BY <1>3, <1>11 DEF ts

\* Rows written change nothing of it.
LEMMA SoundSame ==
    ASSUME NEW a, NEW b, NEW cm, NEW waiting, Sound(a, cm, waiting), b.backlog = a.backlog
    PROVE  Sound(b, cm, waiting) /\ \A p : Names(b, p) = Names(a, p) /\ Holds(b, p) = Holds(a, p)
<1>1. \A p : Names(b, p) = Names(a, p) /\ Holds(b, p) = Holds(a, p)
  BY DEF Names, Holds
<1> QED
  BY <1>1 DEF Sound

-----------------------------------------------------------------------------
(* analy: a record is counted                                              *)

LEMMA CountOne ==
    ASSUME NEW c, NEW d
    PROVE  Count(<<c>>, d) = IF c = d THEN 1 ELSE 0
<1> DEFINE S == {k \in DOMAIN <<c>> : <<c>>[k] = d}
<1>1. CASE c = d
  <2>1. S = {1}
    BY <1>1
  <2> QED
    BY <1>1, <2>1, FS_Singleton DEF Count
<1>2. CASE c # d
  <2>1. S = {}
    BY <1>2
  <2> QED
    BY <1>2, <2>1, FS_EmptySet DEF Count
<1> QED
  BY <1>1, <1>2

LEMMA CountTwo ==
    ASSUME NEW c, NEW e, c # e, NEW d
    PROVE  Count(<<c, e>>, d) = IF d \in {c, e} THEN 1 ELSE 0
<1> DEFINE S == {k \in DOMAIN <<c, e>> : <<c, e>>[k] = d}
<1>0. /\ DOMAIN <<c, e>> = {1, 2} /\ <<c, e>>[1] = c /\ <<c, e>>[2] = e
  OBVIOUS
<1>1. CASE d = c
  <2>1. S = {1}
    BY <1>0, <1>1
  <2> QED
    BY <1>1, <2>1, FS_Singleton DEF Count
<1>2. CASE d = e
  <2>1. S = {2}
    BY <1>0, <1>2
  <2> QED
    BY <1>2, <2>1, FS_Singleton DEF Count
<1>3. CASE d \notin {c, e}
  <2>1. S = {}
    BY <1>0, <1>3
  <2> QED
    BY <1>3, <2>1, FS_EmptySet DEF Count
<1> QED
  BY <1>1, <1>2, <1>3

\* What a record adds to its interval.
LEMMA CountedIs ==
    ASSUME NEW x \in Tally, NEW w \in Int
    PROVE  /\ Counted(x, <<"+">>, w) = [input |-> x.input + 1, output |-> x.output,
                                        drop |-> x.drop, delay |-> x.delay + w]
           /\ Counted(x, <<"-">>, w) = [input |-> x.input, output |-> x.output + 1,
                                        drop |-> x.drop, delay |-> x.delay + w]
           /\ Counted(x, <<"d">>, w) = [input |-> x.input, output |-> x.output,
                                        drop |-> x.drop + 1, delay |-> x.delay + w]
           /\ Counted(x, <<"r">>, w) = [input |-> x.input, output |-> x.output,
                                        drop |-> x.drop, delay |-> x.delay + w]
           /\ Counted(x, <<"+", "d">>, w) = [input |-> x.input + 1, output |-> x.output,
                                             drop |-> x.drop + 1, delay |-> x.delay + w]
           /\ \A codes \in {<<"+">>, <<"-">>, <<"d">>, <<"r">>, <<"+", "d">>} :
                Counted(x, codes, w) \in Tally
<1>1. x.input \in Nat /\ x.output \in Nat /\ x.drop \in Nat /\ x.delay \in Int
  BY DEF Tally
<1>2. /\ Count(<<"+">>, "+") = 1 /\ Count(<<"+">>, "-") = 0 /\ Count(<<"+">>, "d") = 0
      /\ Count(<<"-">>, "+") = 0 /\ Count(<<"-">>, "-") = 1 /\ Count(<<"-">>, "d") = 0
      /\ Count(<<"d">>, "+") = 0 /\ Count(<<"d">>, "-") = 0 /\ Count(<<"d">>, "d") = 1
      /\ Count(<<"r">>, "+") = 0 /\ Count(<<"r">>, "-") = 0 /\ Count(<<"r">>, "d") = 0
  BY CountOne
<1>3. /\ Count(<<"+", "d">>, "+") = 1 /\ Count(<<"+", "d">>, "-") = 0
      /\ Count(<<"+", "d">>, "d") = 1
  BY CountTwo
<1>4. /\ Counted(x, <<"+">>, w) = [input |-> x.input + 1, output |-> x.output,
                                   drop |-> x.drop, delay |-> x.delay + w]
      /\ Counted(x, <<"-">>, w) = [input |-> x.input, output |-> x.output + 1,
                                   drop |-> x.drop, delay |-> x.delay + w]
      /\ Counted(x, <<"d">>, w) = [input |-> x.input, output |-> x.output,
                                   drop |-> x.drop + 1, delay |-> x.delay + w]
      /\ Counted(x, <<"r">>, w) = [input |-> x.input, output |-> x.output,
                                   drop |-> x.drop, delay |-> x.delay + w]
  BY <1>1, <1>2 DEF Counted
<1>5. Counted(x, <<"+", "d">>, w) = [input |-> x.input + 1, output |-> x.output,
                                     drop |-> x.drop + 1, delay |-> x.delay + w]
  BY <1>1, <1>3 DEF Counted
<1>6. \A codes \in {<<"+">>, <<"-">>, <<"d">>, <<"r">>, <<"+", "d">>} :
        Counted(x, codes, w) \in Tally
  BY <1>1, <1>4, <1>5 DEF Tally
<1> QED
  BY <1>4, <1>5, <1>6

\* The state b of main() agrees with what is counted for these records in interval k.
CountedFor(b, tr, k, codes, w) ==
    LET ts == [tr EXCEPT ![k] = Counted(@, codes, w)]
    IN  ts \in [Intervals -> Tally] /\ Current(b, ts)

LEMMA PlusCounted ==
    ASSUME NEW a \in Main, NEW tr \in [Intervals -> Tally], Current(a, tr),
           NEW k, k = Len(a.rows) + 1, NEW p \in Packets, NEW t \in 0 .. MaxTime, Free(a) # {}
    PROVE  CountedFor(Plus(a, p, t), tr, k, <<"+">>, 0)
<1> DEFINE b == Plus(a, p, t)
           x == Counted(tr[k], <<"+">>, 0)
<1>0. 0 \in Int
  OBVIOUS
<1>1. /\ b \in Main /\ b.timestamp = a.timestamp /\ b.rows = a.rows
      /\ b.input = a.input + 1 /\ b.output = a.output /\ b.drop = a.drop
      /\ b.delay = a.delay /\ b.queuesize = a.queuesize + 1
  BY PlusTyped
<1>2. k \in Intervals /\ DOMAIN tr = Intervals /\ tr[k] \in Tally
  BY DEF Current
<1>3. /\ tr[k].input \in Nat /\ tr[k].output \in Nat /\ tr[k].drop \in Nat /\ tr[k].delay \in Int
  BY <1>2 DEF Tally
<1>4. /\ a.input = tr[k].input /\ a.output = tr[k].output /\ a.drop = tr[k].drop
      /\ (k > 1 => a.delay = tr[k].delay) /\ a.queuesize \in Int
  BY DEF Current, Main
<1>5. /\ x \in Tally /\ x.input = tr[k].input + 1 /\ x.output = tr[k].output
      /\ x.drop = tr[k].drop /\ x.delay = tr[k].delay
  <2>1. x = [input |-> tr[k].input + 1, output |-> tr[k].output,
             drop |-> tr[k].drop, delay |-> tr[k].delay + 0]
    BY <1>0, <1>2, CountedIs, Zenon
  <2>2. x \in Tally
    BY <1>0, <1>2, CountedIs, Zenon
  <2> HIDE DEF x
  <2> QED
    BY <1>3, <2>1, <2>2
<1>6. Net(tr)[k] = (tr[k].input - tr[k].output) - tr[k].drop
  BY <1>2, StillInGrows
<1> HIDE DEF b, x
<1>7. ((x.input - x.output) - x.drop) - Net(tr)[k] = 1
  <2> DEFINE n == tr[k].input
             o == tr[k].output
             d == tr[k].drop
  <2>1. n \in Int /\ o \in Int /\ d \in Int
    BY <1>3
  <2>2. ((x.input - x.output) - x.drop) - Net(tr)[k] = (((n + 1) - o) - d) - ((n - o) - d)
    BY <1>5, <1>6, Zenon
  <2> HIDE DEF n, o, d
  <2>3. (((n + 1) - o) - d) - ((n - o) - d) = 1
    BY <2>1
  <2> QED
    BY <2>2, <2>3
<1>8. b.queuesize = a.queuesize + (((x.input - x.output) - x.drop) - Net(tr)[k])
  BY <1>1, <1>7
<1>9. /\ b.input = x.input /\ b.output = x.output /\ b.drop = x.drop
      /\ (k > 1 => b.delay = x.delay)
  BY <1>1, <1>4, <1>5
<1>10. Current(b, [tr EXCEPT ![k] = x]) /\ [tr EXCEPT ![k] = x] \in [Intervals -> Tally]
  BY <1>1, <1>5, <1>8, <1>9, CountedIn
<1> QED
  BY <1>10 DEF CountedFor, b, x

LEMMA MinusCounted ==
    ASSUME NEW a \in Main, NEW tr \in [Intervals -> Tally], Current(a, tr),
           NEW k, k = Len(a.rows) + 1, NEW p \in Packets, NEW t \in 0 .. MaxTime,
           NEW e \in 0 .. MaxTime, Holds(a, p) # {}, \A j \in Holds(a, p) : a.backlog[j].ts = e
    PROVE  CountedFor(Minus(a, p, t), tr, k, <<"-">>, t - e)
<1> DEFINE b == Minus(a, p, t)
           x == Counted(tr[k], <<"-">>, t - e)
<1>0. t \in Int /\ e \in Int /\ t - e \in Int
  BY TraceAssumption
<1>1. /\ b \in Main /\ b.timestamp = a.timestamp /\ b.rows = a.rows
      /\ b.input = a.input /\ b.output = a.output + 1 /\ b.drop = a.drop
      /\ b.queuesize = a.queuesize - 1
      /\ \E j \in Holds(a, p) : /\ b.backlog = Freed(a.backlog, j)
                                /\ b.delay = a.delay + (t - a.backlog[j].ts)
  BY MinusTyped
<1>2. k \in Intervals /\ DOMAIN tr = Intervals /\ tr[k] \in Tally
  BY DEF Current
<1>3. /\ tr[k].input \in Nat /\ tr[k].output \in Nat /\ tr[k].drop \in Nat /\ tr[k].delay \in Int
  BY <1>2 DEF Tally
<1>4. /\ a.input = tr[k].input /\ a.output = tr[k].output /\ a.drop = tr[k].drop
      /\ (k > 1 => a.delay = tr[k].delay) /\ a.queuesize \in Int
  BY DEF Current, Main
<1>5. /\ x \in Tally /\ x.input = tr[k].input /\ x.output = tr[k].output + 1
      /\ x.drop = tr[k].drop /\ x.delay = tr[k].delay + (t - e)
  <2>1. x = [input |-> tr[k].input, output |-> tr[k].output + 1,
             drop |-> tr[k].drop, delay |-> tr[k].delay + (t - e)]
    BY <1>0, <1>2, CountedIs, Zenon
  <2>2. x \in Tally
    BY <1>0, <1>2, CountedIs, Zenon
  <2> HIDE DEF x
  <2> QED
    BY <1>3, <2>1, <2>2
<1>6. Net(tr)[k] = (tr[k].input - tr[k].output) - tr[k].drop
  BY <1>2, StillInGrows
<1> HIDE DEF b, x
<1>7. ((x.input - x.output) - x.drop) - Net(tr)[k] = 0 - 1
  <2> DEFINE n == tr[k].input
             o == tr[k].output
             d == tr[k].drop
  <2>1. n \in Int /\ o \in Int /\ d \in Int
    BY <1>3
  <2>2. ((x.input - x.output) - x.drop) - Net(tr)[k] = ((n - (o + 1)) - d) - ((n - o) - d)
    BY <1>5, <1>6, Zenon
  <2> HIDE DEF n, o, d
  <2>3. ((n - (o + 1)) - d) - ((n - o) - d) = 0 - 1
    BY <2>1
  <2> QED
    BY <2>2, <2>3
<1>8. b.queuesize = a.queuesize + (((x.input - x.output) - x.drop) - Net(tr)[k])
  BY <1>1, <1>4, <1>7
<1>9. /\ b.input = x.input /\ b.output = x.output /\ b.drop = x.drop
      /\ (k > 1 => b.delay = x.delay)
  BY <1>1, <1>4, <1>5
<1>10. Current(b, [tr EXCEPT ![k] = x]) /\ [tr EXCEPT ![k] = x] \in [Intervals -> Tally]
  BY <1>1, <1>5, <1>8, <1>9, CountedIn
<1> QED
  BY <1>10 DEF CountedFor, b, x

LEMMA DropCounted ==
    ASSUME NEW a \in Main, NEW tr \in [Intervals -> Tally], Current(a, tr),
           NEW k, k = Len(a.rows) + 1, NEW p \in Packets, Names(a, p) # {}
    PROVE  CountedFor(Drop(a, p), tr, k, <<"d">>, 0)
<1> DEFINE b == Drop(a, p)
           x == Counted(tr[k], <<"d">>, 0)
<1>0. 0 \in Int
  OBVIOUS
<1>1. /\ b \in Main /\ b.timestamp = a.timestamp /\ b.rows = a.rows
      /\ b.input = a.input /\ b.output = a.output /\ b.drop = a.drop + 1
      /\ b.delay = a.delay /\ b.queuesize = a.queuesize - 1
  BY DropTyped
<1>2. k \in Intervals /\ DOMAIN tr = Intervals /\ tr[k] \in Tally
  BY DEF Current
<1>3. /\ tr[k].input \in Nat /\ tr[k].output \in Nat /\ tr[k].drop \in Nat /\ tr[k].delay \in Int
  BY <1>2 DEF Tally
<1>4. /\ a.input = tr[k].input /\ a.output = tr[k].output /\ a.drop = tr[k].drop
      /\ (k > 1 => a.delay = tr[k].delay) /\ a.queuesize \in Int
  BY DEF Current, Main
<1>5. /\ x \in Tally /\ x.input = tr[k].input /\ x.output = tr[k].output
      /\ x.drop = tr[k].drop + 1 /\ x.delay = tr[k].delay
  <2>1. x = [input |-> tr[k].input, output |-> tr[k].output,
             drop |-> tr[k].drop + 1, delay |-> tr[k].delay + 0]
    BY <1>0, <1>2, CountedIs, Zenon
  <2>2. x \in Tally
    BY <1>0, <1>2, CountedIs, Zenon
  <2> HIDE DEF x
  <2> QED
    BY <1>3, <2>1, <2>2
<1>6. Net(tr)[k] = (tr[k].input - tr[k].output) - tr[k].drop
  BY <1>2, StillInGrows
<1> HIDE DEF b, x
<1>7. ((x.input - x.output) - x.drop) - Net(tr)[k] = 0 - 1
  <2> DEFINE n == tr[k].input
             o == tr[k].output
             d == tr[k].drop
  <2>1. n \in Int /\ o \in Int /\ d \in Int
    BY <1>3
  <2>2. ((x.input - x.output) - x.drop) - Net(tr)[k] = ((n - o) - (d + 1)) - ((n - o) - d)
    BY <1>5, <1>6, Zenon
  <2> HIDE DEF n, o, d
  <2>3. ((n - o) - (d + 1)) - ((n - o) - d) = 0 - 1
    BY <2>1
  <2> QED
    BY <2>2, <2>3
<1>8. b.queuesize = a.queuesize + (((x.input - x.output) - x.drop) - Net(tr)[k])
  BY <1>1, <1>4, <1>7
<1>9. /\ b.input = x.input /\ b.output = x.output /\ b.drop = x.drop
      /\ (k > 1 => b.delay = x.delay)
  BY <1>1, <1>4, <1>5
<1>10. Current(b, [tr EXCEPT ![k] = x]) /\ [tr EXCEPT ![k] = x] \in [Intervals -> Tally]
  BY <1>1, <1>5, <1>8, <1>9, CountedIn
<1> QED
  BY <1>10 DEF CountedFor, b, x

LEMMA ReceiptCounted ==
    ASSUME NEW a \in Main, NEW tr \in [Intervals -> Tally], Current(a, tr),
           NEW k, k = Len(a.rows) + 1
    PROVE  CountedFor(a, tr, k, <<"r">>, 0)
<1> DEFINE x == Counted(tr[k], <<"r">>, 0)
<1>1. k \in Intervals /\ DOMAIN tr = Intervals /\ tr[k] \in Tally
  BY DEF Current
<1>2. x = tr[k]
  <2>1. /\ tr[k].input \in Nat /\ tr[k].output \in Nat /\ tr[k].drop \in Nat
        /\ tr[k].delay \in Int
        /\ tr[k] = [input |-> tr[k].input, output |-> tr[k].output, drop |-> tr[k].drop,
                    delay |-> tr[k].delay]
    BY <1>1 DEF Tally
  <2>2. x = [input |-> tr[k].input, output |-> tr[k].output, drop |-> tr[k].drop,
             delay |-> tr[k].delay + 0]
    <3>1. 0 \in Int
      OBVIOUS
    <3> QED
      BY <1>1, <3>1, CountedIs, Zenon
  <2> QED
    BY <2>1, <2>2
<1>3. [tr EXCEPT ![k] = x] = tr
  <2> HIDE DEF x
  <2> QED
    BY <1>1, <1>2
<1> QED
  BY <1>3 DEF CountedFor, x

-----------------------------------------------------------------------------
(* analy: the steps                                                        *)

\* What a record leaves behind, and what it finds.
Recorded(p, k, codes, waited) ==
    truth' = [truth EXCEPT ![k] = Counted(@, codes, waited)]

LEMMA TraceOne ==
    ASSUME NEW p \in Packets, NEW c \in {"+", "-", "d", "r"}, time \in 0 .. MaxTime,
           Trace(<<c>>, p)
    PROVE  /\ time' \in 0 .. MaxTime /\ time <= time'
           /\ came' = [came EXCEPT ![p] = IF c = "+" THEN time' ELSE Gone]
           /\ p \notin Flow => analy' = analy /\ truth' = truth
           /\ p \in Flow =>
                /\ c = "+" => Free(analy) # {}
                /\ c = "-" => Holds(analy, p) # {}
                /\ analy' = Read(analy, [code |-> c, p |-> p, time |-> time'])
                /\ Recorded(p, Interval(time'), <<c>>, IF c = "-" THEN time' - came[p] ELSE 0)
<1> DEFINE codes == <<c>>
           R(u) == [k \in DOMAIN codes |-> [code |-> codes[k], p |-> p, time |-> u]]
<1>1. PICK pause \in Pauses :
        /\ time + pause <= MaxTime /\ Ends(R(time + pause)[1])
        /\ time' = time + pause
        /\ analy' = FoldLeft(Read, analy, R(time + pause))
        /\ came' = [came EXCEPT ![p] = IF codes = <<"+">> THEN time + pause ELSE Gone]
        /\ truth' = IF p \in Flow
                    THEN [truth EXCEPT ![Interval(time + pause)] =
                            Counted(@, codes, IF codes = <<"-">> THEN (time + pause) - came[p] ELSE 0)]
                    ELSE truth
  BY Zenon DEF Trace
<1>2. time' \in 0 .. MaxTime /\ time <= time'
  BY <1>1, TraceAssumption
<1>3. DOMAIN R(time') = 1 .. 1 /\ R(time')[1] = [code |-> c, p |-> p, time |-> time']
  OBVIOUS
<1>4. (codes = <<"+">> <=> c = "+") /\ (codes = <<"-">> <=> c = "-")
  OBVIOUS
<1>5. FoldLeft(Read, analy, R(time')) = Read(analy, [code |-> c, p |-> p, time |-> time'])
  <2> HIDE DEF R
  <2> QED
    BY <1>3, ReadOne
<1>6. analy' = Read(analy, [code |-> c, p |-> p, time |-> time'])
  BY <1>1, <1>5
<1>7. came' = [came EXCEPT ![p] = IF c = "+" THEN time' ELSE Gone]
  <2> HIDE DEF R, codes
  <2> QED
    BY <1>1, <1>4
<1>8. p \notin Flow => analy' = analy /\ truth' = truth
  BY <1>1, <1>6 DEF Read
<1>9. p \in Flow =>
        Recorded(p, Interval(time'), codes, IF c = "-" THEN time' - came[p] ELSE 0)
  <2> HIDE DEF R, codes
  <2> QED
    BY <1>1, <1>4, Zenon DEF Recorded
<1>10. p \in Flow => (c = "+" => Free(analy) # {}) /\ (c = "-" => Holds(analy, p) # {})
  <2>1. Ends([code |-> c, p |-> p, time |-> time'])
    <3> HIDE DEF R
    <3> QED
      BY <1>1, <1>3
  <2> QED
    BY <2>1 DEF Ends
<1> QED
  BY <1>2, <1>6, <1>7, <1>8, <1>9, <1>10 DEF codes

LEMMA TraceTwo ==
    ASSUME NEW p \in Packets, time \in 0 .. MaxTime, Trace(<<"+", "d">>, p)
    PROVE  /\ time' \in 0 .. MaxTime /\ time <= time'
           /\ came' = [came EXCEPT ![p] = Gone]
           /\ p \notin Flow => analy' = analy /\ truth' = truth
           /\ p \in Flow =>
                /\ Free(analy) # {}
                /\ analy' = Read(Read(analy, [code |-> "+", p |-> p, time |-> time']),
                                 [code |-> "d", p |-> p, time |-> time'])
                /\ Recorded(p, Interval(time'), <<"+", "d">>, 0)
<1> DEFINE codes == <<"+", "d">>
           R(u) == [k \in DOMAIN codes |-> [code |-> codes[k], p |-> p, time |-> u]]
<1>1. PICK pause \in Pauses :
        /\ time + pause <= MaxTime /\ Ends(R(time + pause)[1])
        /\ time' = time + pause
        /\ analy' = FoldLeft(Read, analy, R(time + pause))
        /\ came' = [came EXCEPT ![p] = IF codes = <<"+">> THEN time + pause ELSE Gone]
        /\ truth' = IF p \in Flow
                    THEN [truth EXCEPT ![Interval(time + pause)] =
                            Counted(@, codes, IF codes = <<"-">> THEN (time + pause) - came[p] ELSE 0)]
                    ELSE truth
  BY Zenon DEF Trace
<1>2. time' \in 0 .. MaxTime /\ time <= time'
  BY <1>1, TraceAssumption
<1>3. /\ DOMAIN R(time') = 1 .. 2 /\ R(time')[1] = [code |-> "+", p |-> p, time |-> time']
      /\ R(time')[2] = [code |-> "d", p |-> p, time |-> time']
  OBVIOUS
<1>4. codes # <<"+">> /\ codes # <<"-">>
  <2>1. Len(codes) = 2 /\ Len(<<"+">>) = 1 /\ Len(<<"-">>) = 1
    OBVIOUS
  <2> QED
    BY <2>1
<1>5. FoldLeft(Read, analy, R(time')) = Read(Read(analy, [code |-> "+", p |-> p, time |-> time']),
                                             [code |-> "d", p |-> p, time |-> time'])
  <2> HIDE DEF R
  <2> QED
    BY <1>3, ReadTwo
<1>6. analy' = Read(Read(analy, [code |-> "+", p |-> p, time |-> time']),
                    [code |-> "d", p |-> p, time |-> time'])
  BY <1>1, <1>5
<1>7. came' = [came EXCEPT ![p] = Gone]
  <2> HIDE DEF R, codes
  <2> QED
    BY <1>1, <1>4
<1>8. p \notin Flow => analy' = analy /\ truth' = truth
  BY <1>1, <1>6 DEF Read
<1>9. p \in Flow => Recorded(p, Interval(time'), codes, 0)
  <2> HIDE DEF R, codes
  <2> QED
    BY <1>1, <1>4, Zenon DEF Recorded
<1>10. p \in Flow => Free(analy) # {}
  <2>1. Ends([code |-> "+", p |-> p, time |-> time'])
    <3> HIDE DEF R
    <3> QED
      BY <1>1, <1>3
  <2> QED
    BY <2>1 DEF Ends
<1> QED
  BY <1>2, <1>6, <1>7, <1>8, <1>9, <1>10 DEF codes

\* The state a of main() after a record at time t is right for what is known.
Right(a, tr, cm, t, waiting) ==
    /\ Sound(a, cm, waiting) /\ a \in Main /\ tr \in [Intervals -> Tally]
    /\ Current(a, tr) /\ Behind(a, t)

\* A record of another flow changes nothing.
LEMMA OtherFlow ==
    ASSUME Right(analy, truth, came, time, InFlow), came \in [Packets -> Int], time \in Nat, time' \in Nat,
           time <= time', NEW p \in Packets \ InFlow, NEW x, x # Never,
           came' = [came EXCEPT ![p] = x], analy' = analy, truth' = truth
    PROVE  Right(analy', truth', came', time', InFlow)
<1>1. InFlow \subseteq Packets
  BY TraceAssumption DEF InFlow
<1>2. Sound(analy, [came EXCEPT ![p] = x], InFlow)
  BY <1>1, SoundOther DEF Right
<1>3. Behind(analy, time')
  <2>1. analy.rows = << >> \/ Ended(Len(analy.rows), time)
    BY DEF Right, Behind
  <2>2. Len(analy.rows) \in Nat /\ Len(analy.rows) \in 0 .. Len(analy.rows)
    BY DEF Right, Main
  <2>3. analy.rows = << >> \/ Ended(Len(analy.rows), time')
    BY <2>1, <2>2, EndedOrder
  <2> QED
    BY <2>3 DEF Behind
<1> QED
  BY <1>2, <1>3 DEF Right

\* The rows before the record's own, and what they leave alone.
LEMMA RowsFirst ==
    ASSUME Right(analy, truth, came, time, InFlow), NEW t \in 0 .. MaxTime, time <= t, time \in Nat
    PROVE  LET a == WriteRows(analy, t)
           IN  /\ a \in Main /\ Current(a, truth) /\ Interval(t) = Len(a.rows) + 1
               /\ Behind(a, t) /\ a.backlog = analy.backlog
               /\ a.queuesize = analy.queuesize /\ Sound(a, came, InFlow)
               /\ Free(a) = Free(analy) /\ \A p : Holds(a, p) = Holds(analy, p)
<1> DEFINE a == WriteRows(analy, t)
<1>1. /\ analy \in Main /\ truth \in [Intervals -> Tally] /\ Current(analy, truth)
      /\ Sound(analy, came, InFlow)
  BY DEF Right
<1>2. analy.rows = << >> \/ Ended(Len(analy.rows), t)
  <2>1. analy.rows = << >> \/ Ended(Len(analy.rows), time)
    BY DEF Right, Behind
  <2>2. Len(analy.rows) \in Nat /\ Len(analy.rows) \in 0 .. Len(analy.rows) /\ t \in Nat
    BY <1>1, TraceAssumption DEF Main
  <2> QED
    BY <2>1, <2>2, EndedOrder
<1>3. /\ a \in Main /\ Current(a, truth) /\ Len(a.rows) + 1 = Interval(t)
      /\ a.rows = << >> \/ Ended(Len(a.rows), t)
      /\ a.backlog = analy.backlog /\ a.i = analy.i /\ a.queuesize = analy.queuesize
  BY <1>1, <1>2, RowsWritten
<1> HIDE DEF a
<1>4. Sound(a, came, InFlow) /\ \A p : Holds(a, p) = Holds(analy, p)
  BY <1>1, <1>3, SoundSame
<1>5. Free(a) = Free(analy)
  BY <1>3 DEF Free
<1>6. Behind(a, t)
  BY <1>3 DEF Behind
<1> QED
  BY <1>3, <1>4, <1>5, <1>6 DEF a

\* A packet of the flow comes.
LEMMA PlusStep ==
    ASSUME Right(analy, truth, came, time, InFlow), came \in [Packets -> Int],
           time \in Nat, time' \in 0 .. MaxTime, time <= time',
           NEW p \in Flow, came[p] = Never, p \notin InFlow, Free(analy) # {},
           came' = [came EXCEPT ![p] = time'],
           analy' = Read(analy, [code |-> "+", p |-> p, time |-> time']),
           Recorded(p, Interval(time'), <<"+">>, 0)
    PROVE  /\ Right(analy', truth', came', time', InFlow \cup {p})
           /\ analy'.queuesize = analy.queuesize + 1
<1> DEFINE a == WriteRows(analy, time')
<1>1. /\ a \in Main /\ Current(a, truth) /\ Interval(time') = Len(a.rows) + 1
      /\ Behind(a, time') /\ a.backlog = analy.backlog
      /\ a.queuesize = analy.queuesize /\ Sound(a, came, InFlow)
      /\ Free(a) = Free(analy)
  BY RowsFirst
<1>2. p \in Packets /\ InFlow \subseteq Packets /\ time' \in Nat
  BY TraceAssumption DEF InFlow
<1>3. analy' = Plus(a, p, time')
  BY DEF Read
<1> HIDE DEF a
<1>4. truth \in [Intervals -> Tally]
  BY DEF Right
<1>5. CountedFor(analy', truth, Interval(time'), <<"+">>, 0)
  BY <1>1, <1>2, <1>3, <1>4, PlusCounted
<1>6. truth' \in [Intervals -> Tally] /\ Current(analy', truth')
  BY <1>5 DEF CountedFor, Recorded
<1>7. /\ analy' \in Main /\ analy'.rows = a.rows /\ analy'.queuesize = a.queuesize + 1
      /\ Taken(a, analy', p, time')
  <2> DEFINE z == Plus(a, p, time')
  <2>1. /\ z \in Main /\ z.rows = a.rows /\ z.queuesize = a.queuesize + 1
        /\ Taken(a, z, p, time')
    BY <1>1, <1>2, PlusTyped
  <2> QED
    BY <1>3, <2>1
<1>8. Sound(analy', came', InFlow \cup {p})
  BY <1>1, <1>2, <1>7, SoundPlus DEF Taken
<1>9. Behind(analy', time')
  BY <1>1, <1>7 DEF Behind
<1> QED
  BY <1>1, <1>6, <1>7, <1>8, <1>9 DEF Right

\* A packet of the flow goes.
LEMMA MinusStep ==
    ASSUME Right(analy, truth, came, time, InFlow), came \in [Packets -> Int],
           time \in Nat, time' \in 0 .. MaxTime, time <= time',
           NEW p \in InFlow, came[p] \in 0 .. time,
           came' = [came EXCEPT ![p] = Gone],
           analy' = Read(analy, [code |-> "-", p |-> p, time |-> time']),
           Recorded(p, Interval(time'), <<"-">>, time' - came[p])
    PROVE  /\ Right(analy', truth', came', time', InFlow \ {p})
           /\ analy'.queuesize = analy.queuesize - 1
<1> DEFINE a == WriteRows(analy, time')
<1>1. /\ a \in Main /\ Current(a, truth) /\ Interval(time') = Len(a.rows) + 1
      /\ Behind(a, time') /\ a.backlog = analy.backlog
      /\ a.queuesize = analy.queuesize /\ Sound(a, came, InFlow)
  BY RowsFirst
<1>2. p \in Packets /\ p \in Flow /\ InFlow \subseteq Packets /\ came[p] \in 0 .. MaxTime
  BY TraceAssumption DEF InFlow
<1>3. analy' = Minus(a, p, time')
  BY <1>2 DEF Read
<1> HIDE DEF a
<1>4. truth \in [Intervals -> Tally]
  BY DEF Right
<1>5. PICK l \in 0 .. DIM - 1 : /\ a.backlog[l] = [busy |-> 1, ts |-> came[p], pktID |-> p]
                                /\ Holds(a, p) = {l}
  BY <1>1 DEF Sound
<1>6. Holds(a, p) # {} /\ \A j \in Holds(a, p) : a.backlog[j].ts = came[p]
  BY <1>5
<1>7. CountedFor(analy', truth, Interval(time'), <<"-">>, time' - came[p])
  BY <1>1, <1>2, <1>3, <1>4, <1>6, MinusCounted
<1>8. truth' \in [Intervals -> Tally] /\ Current(analy', truth')
  BY <1>7 DEF CountedFor, Recorded
<1>9. /\ analy' \in Main /\ analy'.rows = a.rows /\ analy'.queuesize = a.queuesize - 1
      /\ \E j \in Holds(a, p) : analy'.backlog = Freed(a.backlog, j)
  <2> DEFINE z == Minus(a, p, time')
  <2>1. /\ z \in Main /\ z.rows = a.rows /\ z.queuesize = a.queuesize - 1
        /\ \E j \in Holds(a, p) : z.backlog = Freed(a.backlog, j)
    BY <1>1, <1>2, <1>6, MinusTyped
  <2> QED
    BY <1>3, <2>1
<1>10. Sound(analy', came', InFlow \ {p})
  <2>1. PICK j \in Holds(a, p) : analy'.backlog = Freed(a.backlog, j)
    BY <1>9
  <2>2. j \in Names(a, p)
    BY <2>1 DEF Holds, Names
  <2> QED
    BY <1>1, <1>2, <2>1, <2>2, SoundFreed
<1>11. Behind(analy', time')
  BY <1>1, <1>9 DEF Behind
<1> QED
  BY <1>1, <1>8, <1>9, <1>10, <1>11 DEF Right

\* A packet of the flow is dropped that had waited.
LEMMA DropStep ==
    ASSUME Right(analy, truth, came, time, InFlow), came \in [Packets -> Int],
           time \in Nat, time' \in 0 .. MaxTime, time <= time',
           NEW p \in InFlow, came' = [came EXCEPT ![p] = Gone],
           analy' = Read(analy, [code |-> "d", p |-> p, time |-> time']),
           Recorded(p, Interval(time'), <<"d">>, 0)
    PROVE  /\ Right(analy', truth', came', time', InFlow \ {p})
           /\ analy'.queuesize = analy.queuesize - 1
<1> DEFINE a == WriteRows(analy, time')
<1>1. /\ a \in Main /\ Current(a, truth) /\ Interval(time') = Len(a.rows) + 1
      /\ Behind(a, time') /\ a.backlog = analy.backlog
      /\ a.queuesize = analy.queuesize /\ Sound(a, came, InFlow)
  BY RowsFirst
<1>2. p \in Packets /\ p \in Flow /\ InFlow \subseteq Packets
  BY TraceAssumption DEF InFlow
<1>3. analy' = Drop(a, p)
  BY <1>2 DEF Read
<1> HIDE DEF a
<1>4. truth \in [Intervals -> Tally]
  BY DEF Right
<1>5. PICK l \in 0 .. DIM - 1 : /\ a.backlog[l] = [busy |-> 1, ts |-> came[p], pktID |-> p]
                                /\ Holds(a, p) = {l}
  BY <1>1 DEF Sound
<1>6. Names(a, p) # {}
  BY <1>5 DEF Holds, Names
<1>7. CountedFor(analy', truth, Interval(time'), <<"d">>, 0)
  BY <1>1, <1>2, <1>3, <1>4, <1>6, DropCounted
<1>8. truth' \in [Intervals -> Tally] /\ Current(analy', truth')
  BY <1>7 DEF CountedFor, Recorded
<1>9. /\ analy' \in Main /\ analy'.rows = a.rows /\ analy'.queuesize = a.queuesize - 1
      /\ \E j \in Names(a, p) : analy'.backlog = Freed(a.backlog, j)
  <2> DEFINE z == Drop(a, p)
  <2>1. /\ z \in Main /\ z.rows = a.rows /\ z.queuesize = a.queuesize - 1
        /\ \E j \in Names(a, p) : z.backlog = Freed(a.backlog, j)
    BY <1>1, <1>2, <1>6, DropTyped
  <2> QED
    BY <1>3, <2>1
<1>10. Sound(analy', came', InFlow \ {p})
  BY <1>1, <1>2, <1>9, SoundFreed
<1>11. Behind(analy', time')
  BY <1>1, <1>9 DEF Behind
<1> QED
  BY <1>1, <1>8, <1>9, <1>10, <1>11 DEF Right

\* A packet of the flow comes and is dropped at once.
LEMMA RefuseStep ==
    ASSUME Right(analy, truth, came, time, InFlow), came \in [Packets -> Int],
           time \in Nat, time' \in 0 .. MaxTime, time <= time',
           NEW p \in Flow, came[p] = Never, p \notin InFlow, Free(analy) # {},
           came' = [came EXCEPT ![p] = Gone],
           analy' = Read(Read(analy, [code |-> "+", p |-> p, time |-> time']),
                         [code |-> "d", p |-> p, time |-> time']),
           Recorded(p, Interval(time'), <<"+", "d">>, 0)
    PROVE  /\ Right(analy', truth', came', time', InFlow)
           /\ analy'.queuesize = analy.queuesize
<1> DEFINE a == WriteRows(analy, time')
           b == Plus(a, p, time')
           c == WriteRows(b, time')
           k == Interval(time')
           cm == [came EXCEPT ![p] = time']
           x == Counted(truth[k], <<"+">>, 0)
           ts == [truth EXCEPT ![k] = x]
<1>1. /\ a \in Main /\ Current(a, truth) /\ k = Len(a.rows) + 1
      /\ Behind(a, time') /\ a.backlog = analy.backlog
      /\ a.queuesize = analy.queuesize /\ Sound(a, came, InFlow)
      /\ Free(a) = Free(analy)
  BY RowsFirst
<1>2. p \in Packets /\ InFlow \subseteq Packets /\ time' \in Nat
  BY TraceAssumption DEF InFlow
<1>3. analy' = Drop(c, p)
  BY DEF Read
<1> HIDE DEF a
<1>4. truth \in [Intervals -> Tally] /\ k \in Intervals
  BY IntervalInside DEF Right
<1>5. ts \in [Intervals -> Tally] /\ Current(b, ts)
  BY <1>1, <1>2, <1>4, PlusCounted DEF CountedFor
<1>6. /\ b \in Main /\ b.rows = a.rows /\ b.queuesize = a.queuesize + 1
      /\ Taken(a, b, p, time')
  BY <1>1, <1>2, PlusTyped
<1> HIDE DEF b
<1>7. Sound(b, cm, InFlow \cup {p}) /\ Names(b, p) # {}
  BY <1>1, <1>2, <1>6, SoundPlus DEF Taken
<1>8. /\ c \in Main /\ Current(c, ts) /\ Len(c.rows) + 1 = k
      /\ c.rows = << >> \/ Ended(Len(c.rows), time')
      /\ c.backlog = b.backlog /\ c.queuesize = b.queuesize
  <2>1. b.rows = << >> \/ Ended(Len(b.rows), time')
    BY <1>1, <1>6 DEF Behind
  <2> HIDE DEF ts, k
  <2> QED
    BY <1>5, <1>6, <2>1, RowsWritten DEF k
<1> HIDE DEF c
<1>9. Sound(c, cm, InFlow \cup {p}) /\ Names(c, p) # {}
  BY <1>7, <1>8, SoundSame
<1>10. [ts EXCEPT ![k] = Counted(@, <<"d">>, 0)] \in [Intervals -> Tally]
       /\ Current(analy', [ts EXCEPT ![k] = Counted(@, <<"d">>, 0)])
  <2> HIDE DEF ts, k
  <2>1. k = Len(c.rows) + 1
    BY <1>8
  <2>2. CountedFor(Drop(c, p), ts, k, <<"d">>, 0)
    BY <1>2, <1>5, <1>8, <1>9, <2>1, DropCounted, Zenon
  <2> QED
    BY <1>3, <2>2 DEF CountedFor
<1>11. [ts EXCEPT ![k] = Counted(@, <<"d">>, 0)] = truth'
  <2>1. truth[k] \in Tally /\ 0 \in Int
    BY <1>4
  <2>2. x = [input |-> truth[k].input + 1, output |-> truth[k].output,
             drop |-> truth[k].drop, delay |-> truth[k].delay + 0] /\ x \in Tally
    BY <2>1, CountedIs, Zenon
  <2>3. Counted(x, <<"d">>, 0) = [input |-> x.input, output |-> x.output,
                                  drop |-> x.drop + 1, delay |-> x.delay + 0]
    BY <2>1, <2>2, CountedIs, Zenon
  <2>4. Counted(truth[k], <<"+", "d">>, 0)
          = [input |-> truth[k].input + 1, output |-> truth[k].output,
             drop |-> truth[k].drop + 1, delay |-> truth[k].delay + 0]
    BY <2>1, CountedIs, Zenon
  <2>5. truth[k].delay \in Int
    BY <2>1 DEF Tally
  <2>6. Counted(x, <<"d">>, 0) = Counted(truth[k], <<"+", "d">>, 0)
    <3> HIDE DEF x
    <3> QED
      BY <2>2, <2>3, <2>4, <2>5
  <2>7. truth' = [truth EXCEPT ![k] = Counted(truth[k], <<"+", "d">>, 0)]
    BY DEF Recorded
  <2> HIDE DEF x, k
  <2>8. ts[k] = x
    BY <1>4
  <2> QED
    BY <1>4, <2>6, <2>7, <2>8
<1>12. /\ analy' \in Main /\ analy'.rows = c.rows /\ analy'.queuesize = c.queuesize - 1
       /\ \E j \in Names(c, p) : analy'.backlog = Freed(c.backlog, j)
  <2> DEFINE z == Drop(c, p)
  <2>1. /\ z \in Main /\ z.rows = c.rows /\ z.queuesize = c.queuesize - 1
           /\ \E j \in Names(c, p) : z.backlog = Freed(c.backlog, j)
    BY <1>2, <1>8, <1>9, DropTyped
  <2> QED
    BY <1>3, <2>1
<1>13. Sound(analy', came', InFlow)
  <2>1. cm \in [Packets -> Int] /\ [cm EXCEPT ![p] = Gone] = came'
    <3>1. time' \in Int /\ Gone \in Int
      BY <1>2 DEF Gone
    <3> QED
      BY <1>2, <3>1
  <2>2. (InFlow \cup {p}) \ {p} = InFlow /\ InFlow \cup {p} \in SUBSET Packets
    BY <1>2
  <2> HIDE DEF cm
  <2>3. Sound(analy', [cm EXCEPT ![p] = Gone], (InFlow \cup {p}) \ {p})
    BY <1>2, <1>8, <1>9, <1>12, <2>1, <2>2, SoundFreed
  <2> QED
    BY <2>1, <2>2, <2>3
<1>14. Behind(analy', time')
  BY <1>8, <1>12 DEF Behind
<1>15. analy'.queuesize = analy.queuesize
  <2>1. analy.queuesize \in Int
    BY DEF Right, Main
  <2> QED
    BY <1>1, <1>6, <1>8, <1>12, <2>1
<1> QED
  BY <1>10, <1>11, <1>12, <1>13, <1>14, <1>15 DEF Right

\* The packet that went is received.
LEMMA ReceiptStep ==
    ASSUME Right(analy, truth, came, time, InFlow), came \in [Packets -> Int],
           time \in Nat, time' \in 0 .. MaxTime, time <= time',
           NEW p \in Flow, p \notin InFlow, came' = [came EXCEPT ![p] = Gone],
           analy' = Read(analy, [code |-> "r", p |-> p, time |-> time']),
           Recorded(p, Interval(time'), <<"r">>, 0)
    PROVE  /\ Right(analy', truth', came', time', InFlow)
           /\ analy'.queuesize = analy.queuesize
<1> DEFINE a == WriteRows(analy, time')
<1>1. /\ a \in Main /\ Current(a, truth) /\ Interval(time') = Len(a.rows) + 1
      /\ Behind(a, time') /\ a.backlog = analy.backlog
      /\ a.queuesize = analy.queuesize /\ Sound(a, came, InFlow)
  BY RowsFirst
<1>2. p \in Packets \ InFlow /\ InFlow \subseteq Packets
  BY TraceAssumption DEF InFlow
<1>3. analy' = a
  BY DEF Read
<1> HIDE DEF a
<1>4. truth \in [Intervals -> Tally]
  BY DEF Right
<1>5. truth' \in [Intervals -> Tally] /\ Current(analy', truth')
  <2>1. CountedFor(a, truth, Interval(time'), <<"r">>, 0)
    BY <1>1, <1>4, ReceiptCounted
  <2> QED
    BY <1>3, <2>1 DEF CountedFor, Recorded
<1>6. Sound(analy', came', InFlow)
  <2>1. Gone # Never
    BY DEF Gone, Never
  <2>2. Sound(a, [came EXCEPT ![p] = Gone], InFlow)
    BY <1>1, <1>2, <2>1, SoundOther, Zenon
  <2> QED
    BY <1>3, <2>2
<1> QED
  BY <1>1, <1>3, <1>5, <1>6 DEF Right

-----------------------------------------------------------------------------
(* analy: the queue                                                        *)

\* A packet is taken out.
LEMMA TakenOut ==
    ASSUME ArrivalsSound, NEW p, Leave(p)
    PROVE  /\ p \in Range(arrival) /\ p \in Packets
           /\ arrival' \in Seq(Packets)
           /\ \A j, k \in 1 .. Len(arrival') : arrival'[j] = arrival'[k] => j = k
           /\ Range(arrival') = Range(arrival) \ {p}
<1> DEFINE s == arrival
           n == Len(arrival)
<1>1. s \in Seq(Packets) /\ n \in Nat /\ DOMAIN s = 1 .. n
      /\ \A j, k \in 1 .. n : s[j] = s[k] => j = k
  BY DEF ArrivalsSound
<1>2. PICK m \in 1 .. n : s[m] = p /\ arrival' = RemoveAt(s, m)
  BY <1>1 DEF Leave
<1>3. /\ arrival' \in Seq(Packets) /\ Len(arrival') = n - 1
      /\ \A k \in 1 .. n - 1 : arrival'[k] = IF k < m THEN s[k] ELSE s[k + 1]
  BY <1>1, <1>2, RemovedAt
<1>4. DOMAIN arrival' = 1 .. n - 1
  BY <1>1, <1>3
<1> DEFINE at(k) == IF k < m THEN k ELSE k + 1
<1>5. \A k \in 1 .. n - 1 : at(k) \in 1 .. n /\ at(k) # m /\ arrival'[k] = s[at(k)]
  BY <1>1, <1>2, <1>3
<1>6. \A j, k \in 1 .. n - 1 : at(j) = at(k) => j = k
  BY <1>1, <1>2
<1>7. \A k \in 1 .. n : k # m => \E j \in 1 .. n - 1 : at(j) = k
  <2> SUFFICES ASSUME NEW k \in 1 .. n, k # m PROVE \E j \in 1 .. n - 1 : at(j) = k
    OBVIOUS
  <2>1. CASE k < m
    <3>1. k \in 1 .. n - 1 /\ at(k) = k
      BY <1>1, <1>2, <2>1
    <3> QED
      BY <3>1
  <2>2. CASE ~(k < m)
    <3>1. k - 1 \in 1 .. n - 1 /\ at(k - 1) = k
      BY <1>1, <1>2, <2>2
    <3> QED
      BY <3>1
  <2> QED
    BY <2>1, <2>2
<1> HIDE DEF at, s, n
<1>8. \A j, k \in 1 .. n - 1 : arrival'[j] = arrival'[k] => j = k
  BY <1>1, <1>5, <1>6
<1>9. Range(s) = {s[k] : k \in 1 .. n} /\ Range(arrival') = {arrival'[k] : k \in 1 .. n - 1}
  BY <1>1, <1>4 DEF Range
<1>10. Range(arrival') = Range(s) \ {p}
  <2>1. ASSUME NEW x \in Range(arrival') PROVE x \in Range(s) \ {p}
    <3>1. PICK k \in 1 .. n - 1 : x = arrival'[k]
      BY <1>9
    <3>2. at(k) \in 1 .. n /\ at(k) # m /\ x = s[at(k)]
      BY <1>5, <3>1
    <3> QED
      BY <1>1, <1>2, <1>9, <3>2 DEF s
  <2>2. ASSUME NEW x \in Range(s) \ {p} PROVE x \in Range(arrival')
    <3>1. PICK k \in 1 .. n : x = s[k]
      BY <1>9
    <3>2. k # m
      BY <1>2, <3>1 DEF s
    <3>3. PICK j \in 1 .. n - 1 : at(j) = k
      BY <1>7, <3>2
    <3>4. arrival'[j] = s[k]
      BY <1>5, <3>3
    <3> QED
      BY <1>9, <3>1, <3>4
  <2> QED
    BY <2>1, <2>2
<1>11. p \in Range(arrival) /\ p \in Packets
  BY <1>1, <1>2, <1>9 DEF s, n
<1>12. \A j, k \in 1 .. Len(arrival') : arrival'[j] = arrival'[k] => j = k
  BY <1>3, <1>8
<1> QED
  BY <1>3, <1>10, <1>11, <1>12 DEF s

\* A packet is put in.
LEMMA PutIn ==
    ASSUME ArrivalsSound, NEW p \in Packets, Accept(p)
    PROVE  /\ arrival' \in Seq(Packets)
           /\ \A j, k \in 1 .. Len(arrival') : arrival'[j] = arrival'[k] => j = k
           /\ Range(arrival') = Range(arrival) \cup {p}
<1> DEFINE n == Len(arrival)
<1>1. arrival \in Seq(Packets) /\ n \in Nat /\ DOMAIN arrival = 1 .. n
      /\ \A j, k \in 1 .. n : arrival[j] = arrival[k] => j = k
  BY DEF ArrivalsSound
<1>2. arrival' = Append(arrival, p) /\ p \notin Range(arrival)
  BY DEF Accept
<1>3. /\ arrival' \in Seq(Packets) /\ Len(arrival') = n + 1 /\ DOMAIN arrival' = 1 .. n + 1
      /\ arrival'[n + 1] = p /\ \A k \in 1 .. n : arrival'[k] = arrival[k]
  BY <1>1, <1>2
<1>4. Range(arrival) = {arrival[k] : k \in 1 .. n}
      /\ Range(arrival') = {arrival'[k] : k \in 1 .. n + 1}
  BY <1>1, <1>3 DEF Range
<1> HIDE DEF n
<1>5. \A k \in 1 .. n : arrival[k] # p
  BY <1>2, <1>4
<1>6. \A k \in 1 .. n + 1 : k = n + 1 \/ k \in 1 .. n
  BY <1>1
<1>7. \A k \in 1 .. n : k \in 1 .. n + 1 /\ n + 1 \in 1 .. n + 1
  BY <1>1
<1>8. \A j, k \in 1 .. n + 1 : arrival'[j] = arrival'[k] => j = k
  BY <1>1, <1>3, <1>5, <1>6
<1>9. n + 1 \in 1 .. n + 1
  BY <1>1
<1>10. Range(arrival') = Range(arrival) \cup {p}
  BY <1>3, <1>4, <1>6, <1>7, <1>9
<1> QED
  BY <1>3, <1>8, <1>10

\* How many of the flow wait.
LEMMA FlowCount ==
    /\ IsFiniteSet(InFlow) /\ Cardinality(InFlow) \in Nat
    /\ \A p \in InFlow : Cardinality(InFlow \ {p}) = Cardinality(InFlow) - 1
    /\ \A p : p \notin InFlow => Cardinality(InFlow \cup {p}) = Cardinality(InFlow) + 1
<1>1. IsFiniteSet(InFlow)
  <2>1. InFlow \subseteq Packets /\ IsFiniteSet(Packets)
    BY TraceAssumption DEF InFlow
  <2> QED
    BY <2>1, FS_Subset
<1>2. Cardinality(InFlow) \in Nat
  BY <1>1, FS_CardinalityType
<1>3. ASSUME NEW p \in InFlow PROVE Cardinality(InFlow \ {p}) = Cardinality(InFlow) - 1
  BY <1>1, FS_RemoveElement
<1>4. ASSUME NEW p, p \notin InFlow PROVE Cardinality(InFlow \cup {p}) = Cardinality(InFlow) + 1
  <2>1. Cardinality(InFlow \cup {p})
          = IF p \in InFlow THEN Cardinality(InFlow) ELSE Cardinality(InFlow) + 1
    BY <1>1, FS_AddElement, Zenon
  <2> QED
    BY <1>4, <2>1
<1> QED
  BY <1>1, <1>2, <1>3, <1>4

\* What the invariant says of the packets.
LEMMA Known ==
    ASSUME TraceInv
    PROVE  /\ Right(analy, truth, came, time, InFlow) /\ came \in [Packets -> Int]
           /\ time \in Nat /\ time \in 0 .. MaxTime
           /\ \A p \in InFlow : came[p] \in 0 .. time /\ p \in Flow /\ p \in Packets
           /\ \A p \in Packets : came[p] \in {Never, Gone} => p \notin InFlow
           /\ analy.queuesize = Cardinality(InFlow)
<1>1. time \in 0 .. MaxTime /\ time \in Nat
  BY TraceAssumption DEF TraceInv, ArrivalsSound
<1>2. came \in [Packets -> {Never, Gone} \cup (0 .. time)] /\ Never \in Int /\ Gone \in Int
      /\ Never \notin 0 .. time /\ Gone \notin 0 .. time
  BY DEF TraceInv, ArrivalsSound, Never, Gone
<1>3. came \in [Packets -> Int]
  <2>1. {Never, Gone} \cup (0 .. time) \subseteq Int
    BY <1>2
  <2> QED
    BY <1>2, <2>1
<1>4. \A p \in InFlow : came[p] \in 0 .. time /\ p \in Flow /\ p \in Packets
  BY TraceAssumption DEF TraceInv, ArrivalsSound, InFlow
<1>5. Right(analy, truth, came, time, InFlow)
  BY DEF TraceInv, EntriesSound, Right
<1> QED
  BY <1>1, <1>2, <1>3, <1>4, <1>5 DEF TraceInv

\* What a step makes of the packets and of the state of main() is the invariant again.
LEMMA Again ==
    ASSUME time' \in 0 .. MaxTime,
           arrival' \in Seq(Packets),
           \A j, k \in 1 .. Len(arrival') : arrival'[j] = arrival'[k] => j = k,
           came' \in [Packets -> {Never, Gone} \cup (0 .. time')],
           \A p \in Range(arrival') : came'[p] \in 0 .. time',
           served' \in Packets => came'[served'] = Gone,
           NEW W, InFlow' = W, Right(analy', truth', came', time', W),
           analy'.queuesize = Cardinality(W)
    PROVE  TraceInv'
  BY Zenon DEF TraceInv, ArrivalsSound, EntriesSound, Right

LEMMA CameTyped ==
    ASSUME ArrivalsSound, time' \in Nat, time <= time', NEW p \in Packets,
           NEW x \in {Never, Gone} \cup (0 .. time'), came' = [came EXCEPT ![p] = x]
    PROVE  /\ came' \in [Packets -> {Never, Gone} \cup (0 .. time')]
           /\ came'[p] = x /\ \A q \in Packets : q # p => came'[q] = came[q]
           /\ \A q \in Packets : q # p /\ came[q] \in 0 .. time => came'[q] \in 0 .. time'
<1>1. came \in [Packets -> {Never, Gone} \cup (0 .. time)] /\ time \in 0 .. MaxTime
  BY DEF ArrivalsSound
<1>2. \A n \in 0 .. time : n \in 0 .. time'
  BY <1>1, TraceAssumption
<1>3. {Never, Gone} \cup (0 .. time) \subseteq {Never, Gone} \cup (0 .. time')
  BY <1>2
<1>4. came \in [Packets -> {Never, Gone} \cup (0 .. time')]
  BY <1>1, <1>3
<1>5. came'[p] = x /\ \A q \in Packets : q # p => came'[q] = came[q]
  BY <1>1
<1> QED
  BY <1>2, <1>4, <1>5

LEMMA ComeKeeps ==
    ASSUME TraceInv, NEW p \in Packets, Come(p)
    PROVE  TraceInv'
<1>1. ArrivalsSound /\ came[p] = Never /\ Accept(p) /\ Trace(<<"+">>, p)
  BY DEF TraceInv, Come
<1>2. /\ Right(analy, truth, came, time, InFlow) /\ came \in [Packets -> Int]
      /\ time \in Nat /\ time \in 0 .. MaxTime
      /\ p \notin InFlow /\ analy.queuesize = Cardinality(InFlow)
  BY <1>1, Known
<1>3. /\ time' \in 0 .. MaxTime /\ time <= time'
      /\ came' = [came EXCEPT ![p] = time']
      /\ p \notin Flow => analy' = analy /\ truth' = truth
      /\ p \in Flow => /\ Free(analy) # {}
                       /\ analy' = Read(analy, [code |-> "+", p |-> p, time |-> time'])
                       /\ Recorded(p, Interval(time'), <<"+">>, 0)
  BY <1>1, <1>2, TraceOne
<1>4. time' \in Nat /\ time' \in {Never, Gone} \cup (0 .. time') /\ time' # Never
  BY <1>3, TraceAssumption DEF Never
<1>5. /\ came' \in [Packets -> {Never, Gone} \cup (0 .. time')]
      /\ came'[p] = time' /\ \A q \in Packets : q # p => came'[q] = came[q]
      /\ \A q \in Packets : q # p /\ came[q] \in 0 .. time => came'[q] \in 0 .. time'
  BY <1>1, <1>3, <1>4, CameTyped
<1>6. /\ arrival' \in Seq(Packets)
      /\ \A j, k \in 1 .. Len(arrival') : arrival'[j] = arrival'[k] => j = k
      /\ Range(arrival') = Range(arrival) \cup {p}
  BY <1>1, PutIn
<1>7. served' = served /\ (served \in Packets => came[served] = Gone)
  BY <1>1 DEF Accept, ArrivalsSound
<1>8. served' \in Packets => came'[served'] = Gone
  <2>1. Gone # Never
    BY DEF Gone, Never
  <2> QED
    BY <1>1, <1>5, <1>7, <2>1
<1>9. \A q \in Range(arrival') : came'[q] \in 0 .. time'
  <2>1. \A q \in Range(arrival) : q \in Packets /\ came[q] \in 0 .. time
    BY <1>1 DEF ArrivalsSound, Range
  <2>2. time' \in 0 .. time'
    BY <1>4
  <2> QED
    BY <1>5, <1>6, <2>1, <2>2
<1>10. CASE p \in Flow
  <2>1. InFlow' = InFlow \cup {p}
    BY <1>6, <1>10 DEF InFlow
  <2>2. /\ Right(analy', truth', came', time', InFlow \cup {p})
        /\ analy'.queuesize = analy.queuesize + 1
    BY <1>1, <1>2, <1>3, <1>10, PlusStep
  <2>3. analy'.queuesize = Cardinality(InFlow \cup {p})
    BY <1>2, <2>2, FlowCount
  <2> QED
    BY <1>3, <1>5, <1>6, <1>8, <1>9, <2>1, <2>2, <2>3, Again
<1>11. CASE p \notin Flow
  <2>1. InFlow' = InFlow
    BY <1>6, <1>11 DEF InFlow
  <2>2. Right(analy', truth', came', time', InFlow)
    BY <1>2, <1>3, <1>4, <1>11, OtherFlow
  <2>3. analy'.queuesize = Cardinality(InFlow)
    BY <1>2, <1>3, <1>11
  <2> QED
    BY <1>3, <1>5, <1>6, <1>8, <1>9, <2>1, <2>2, <2>3, Again
<1> QED
  BY <1>10, <1>11

\* A packet that goes or is dropped has left the queue.
LEMMA LeavingKeeps ==
    ASSUME TraceInv, NEW p \in Packets, NEW c \in {"-", "d"}, Leave(p), served' \in {served, p},
           Trace(<<c>>, p)
    PROVE  TraceInv'
<1>1. ArrivalsSound
  BY DEF TraceInv
<1>2. /\ Right(analy, truth, came, time, InFlow) /\ came \in [Packets -> Int]
      /\ time \in Nat /\ time \in 0 .. MaxTime
      /\ \A q \in InFlow : came[q] \in 0 .. time
      /\ analy.queuesize = Cardinality(InFlow)
  BY Known
<1>3. /\ time' \in 0 .. MaxTime /\ time <= time'
      /\ came' = [came EXCEPT ![p] = Gone]
      /\ p \notin Flow => analy' = analy /\ truth' = truth
      /\ p \in Flow =>
           /\ analy' = Read(analy, [code |-> c, p |-> p, time |-> time'])
           /\ Recorded(p, Interval(time'), <<c>>, IF c = "-" THEN time' - came[p] ELSE 0)
  <2>1. c \in {"+", "-", "d", "r"} /\ c # "+"
    OBVIOUS
  <2> QED
    BY <1>2, <2>1, TraceOne
<1>4. time' \in Nat /\ Gone \in {Never, Gone} \cup (0 .. time') /\ Gone # Never
  BY <1>3, TraceAssumption DEF Never, Gone
<1>5. /\ came' \in [Packets -> {Never, Gone} \cup (0 .. time')]
      /\ came'[p] = Gone /\ \A q \in Packets : q # p => came'[q] = came[q]
      /\ \A q \in Packets : q # p /\ came[q] \in 0 .. time => came'[q] \in 0 .. time'
  BY <1>1, <1>3, <1>4, CameTyped
<1>6. /\ p \in Range(arrival) /\ arrival' \in Seq(Packets)
      /\ \A j, k \in 1 .. Len(arrival') : arrival'[j] = arrival'[k] => j = k
      /\ Range(arrival') = Range(arrival) \ {p}
  BY <1>1, TakenOut
<1>7. served' \in Packets => came'[served'] = Gone
  BY <1>1, <1>5 DEF ArrivalsSound
<1>8. \A q \in Range(arrival') : came'[q] \in 0 .. time'
  <2>1. \A q \in Range(arrival) : q \in Packets /\ came[q] \in 0 .. time
    BY <1>1 DEF ArrivalsSound, Range
  <2> QED
    BY <1>5, <1>6, <2>1
<1>9. CASE p \in Flow
  <2>0. p \in InFlow
    BY <1>6, <1>9 DEF InFlow
  <2>1. InFlow' = InFlow \ {p}
    BY <1>6, <1>9 DEF InFlow
  <2>2. /\ Right(analy', truth', came', time', InFlow \ {p})
        /\ analy'.queuesize = analy.queuesize - 1
    <3>1. CASE c = "-"
      <4>1. /\ analy' = Read(analy, [code |-> "-", p |-> p, time |-> time'])
            /\ Recorded(p, Interval(time'), <<"-">>, time' - came[p])
        BY <1>3, <1>9, <3>1
      <4> QED
        BY <1>2, <1>3, <2>0, <4>1, MinusStep
    <3>2. CASE c = "d"
      <4>1. /\ analy' = Read(analy, [code |-> "d", p |-> p, time |-> time'])
            /\ Recorded(p, Interval(time'), <<"d">>, 0)
        BY <1>3, <1>9, <3>2
      <4> QED
        BY <1>2, <1>3, <2>0, <4>1, DropStep
    <3> QED
      BY <3>1, <3>2
  <2>3. analy'.queuesize = Cardinality(InFlow \ {p})
    BY <1>2, <2>0, <2>2, FlowCount
  <2> QED
    BY <1>3, <1>5, <1>6, <1>7, <1>8, <2>1, <2>2, <2>3, Again
<1>10. CASE p \notin Flow
  <2>0. p \notin InFlow
    BY <1>10 DEF InFlow
  <2>1. InFlow' = InFlow
    BY <1>6, <1>10 DEF InFlow
  <2>2. Right(analy', truth', came', time', InFlow)
    BY <1>2, <1>3, <1>4, <1>10, <2>0, OtherFlow
  <2>3. analy'.queuesize = Cardinality(InFlow)
    BY <1>2, <1>3, <1>10
  <2> QED
    BY <1>3, <1>5, <1>6, <1>7, <1>8, <2>1, <2>2, <2>3, Again
<1> QED
  BY <1>9, <1>10

LEMMA RefuseKeeps ==
    ASSUME TraceInv, NEW p \in Packets, Refuse(p)
    PROVE  TraceInv'
<1>1. ArrivalsSound /\ came[p] = Never /\ arrival' = arrival /\ served' = served
      /\ Trace(<<"+", "d">>, p)
  BY DEF TraceInv, Refuse
<1>2. /\ Right(analy, truth, came, time, InFlow) /\ came \in [Packets -> Int]
      /\ time \in Nat /\ time \in 0 .. MaxTime
      /\ p \notin InFlow /\ analy.queuesize = Cardinality(InFlow)
  BY <1>1, Known
<1>3. /\ time' \in 0 .. MaxTime /\ time <= time'
      /\ came' = [came EXCEPT ![p] = Gone]
      /\ p \notin Flow => analy' = analy /\ truth' = truth
      /\ p \in Flow =>
           /\ Free(analy) # {}
           /\ analy' = Read(Read(analy, [code |-> "+", p |-> p, time |-> time']),
                            [code |-> "d", p |-> p, time |-> time'])
           /\ Recorded(p, Interval(time'), <<"+", "d">>, 0)
  BY <1>1, <1>2, TraceTwo
<1>4. time' \in Nat /\ Gone \in {Never, Gone} \cup (0 .. time') /\ Gone # Never
      /\ Never \notin 0 .. time
  BY <1>3, TraceAssumption DEF Never, Gone
<1>5. /\ came' \in [Packets -> {Never, Gone} \cup (0 .. time')]
      /\ came'[p] = Gone /\ \A q \in Packets : q # p => came'[q] = came[q]
      /\ \A q \in Packets : q # p /\ came[q] \in 0 .. time => came'[q] \in 0 .. time'
  BY <1>1, <1>3, <1>4, CameTyped
<1>6. served' \in Packets => came'[served'] = Gone
  BY <1>1, <1>5 DEF ArrivalsSound
<1>7. \A q \in Range(arrival) : q \in Packets /\ came[q] \in 0 .. time
  BY <1>1 DEF ArrivalsSound, Range
<1>8. \A q \in Range(arrival') : came'[q] \in 0 .. time'
  BY <1>1, <1>4, <1>5, <1>7
<1>9. InFlow' = InFlow
  BY <1>1 DEF InFlow
<1>10. Right(analy', truth', came', time', InFlow) /\ analy'.queuesize = analy.queuesize
  <2>1. CASE p \in Flow
    BY <1>1, <1>2, <1>3, <2>1, RefuseStep
  <2>2. CASE p \notin Flow
    BY <1>2, <1>3, <1>4, <2>2, OtherFlow
  <2> QED
    BY <2>1, <2>2
<1>11. /\ arrival' \in Seq(Packets)
       /\ \A j, k \in 1 .. Len(arrival') : arrival'[j] = arrival'[k] => j = k
  BY <1>1 DEF ArrivalsSound
<1> QED
  BY <1>2, <1>3, <1>5, <1>6, <1>8, <1>9, <1>10, <1>11, Again

LEMMA ReceivedKeeps ==
    ASSUME TraceInv, NEW p \in Packets, Received(p)
    PROVE  TraceInv'
<1>1. ArrivalsSound /\ p = served /\ arrival' = arrival /\ served' = served /\ Trace(<<"r">>, p)
  BY DEF TraceInv, Received
<1>2. came[p] = Gone
  BY <1>1 DEF ArrivalsSound
<1>3. /\ Right(analy, truth, came, time, InFlow) /\ came \in [Packets -> Int]
      /\ time \in Nat /\ time \in 0 .. MaxTime
      /\ p \notin InFlow /\ analy.queuesize = Cardinality(InFlow)
  BY <1>2, Known
<1>4. /\ time' \in 0 .. MaxTime /\ time <= time'
      /\ came' = [came EXCEPT ![p] = Gone]
      /\ p \notin Flow => analy' = analy /\ truth' = truth
      /\ p \in Flow => /\ analy' = Read(analy, [code |-> "r", p |-> p, time |-> time'])
                       /\ Recorded(p, Interval(time'), <<"r">>, 0)
  BY <1>1, <1>3, TraceOne
<1>5. time' \in Nat /\ Gone \in {Never, Gone} \cup (0 .. time') /\ Gone # Never
      /\ Gone \notin 0 .. time
  BY <1>4, TraceAssumption DEF Never, Gone
<1>6. /\ came' \in [Packets -> {Never, Gone} \cup (0 .. time')]
      /\ came'[p] = Gone /\ \A q \in Packets : q # p => came'[q] = came[q]
      /\ \A q \in Packets : q # p /\ came[q] \in 0 .. time => came'[q] \in 0 .. time'
  BY <1>1, <1>4, <1>5, CameTyped
<1>7. served' \in Packets => came'[served'] = Gone
  BY <1>1, <1>6
<1>8. \A q \in Range(arrival) : q \in Packets /\ came[q] \in 0 .. time
  BY <1>1 DEF ArrivalsSound, Range
<1>9. \A q \in Range(arrival') : came'[q] \in 0 .. time'
  BY <1>1, <1>2, <1>5, <1>6, <1>8
<1>10. InFlow' = InFlow
  BY <1>1 DEF InFlow
<1>11. Right(analy', truth', came', time', InFlow) /\ analy'.queuesize = analy.queuesize
  <2>1. CASE p \in Flow
    BY <1>3, <1>4, <2>1, ReceiptStep
  <2>2. CASE p \notin Flow
    BY <1>3, <1>4, <1>5, <2>2, OtherFlow
  <2> QED
    BY <2>1, <2>2
<1>12. /\ arrival' \in Seq(Packets)
       /\ \A j, k \in 1 .. Len(arrival') : arrival'[j] = arrival'[k] => j = k
  BY <1>1 DEF ArrivalsSound
<1> QED
  BY <1>3, <1>4, <1>6, <1>7, <1>9, <1>10, <1>11, <1>12, Again

-----------------------------------------------------------------------------
(* analy: the theorems                                                     *)

LEMMA TraceBegins == TraceInit => TraceInv
<1> SUFFICES ASSUME TraceInit PROVE TraceInv
  OBVIOUS
<1>1. /\ arrival = << >> /\ served = NoPacket /\ time = 0
      /\ came = [p \in Packets |-> Never]
      /\ truth = [n \in Intervals |-> Nothing]
  BY DEF TraceInit, QueueInit, Intervals
<1>2. PICK id \in UninitIDs, d \in UninitDelay :
        analy = [timestamp |-> 0, input |-> 0, output |-> 0, drop |-> 0, delay |-> d,
                 queuesize |-> 0, i |-> 0, rows |-> << >>,
                 backlog |-> [j \in 0 .. DIM - 1 |-> [busy |-> 0, ts |-> 0, pktID |-> id]]]
  BY DEF TraceInit
<1>3. DIM \in Nat \ {0} /\ MaxTime \in Nat /\ smp \in Nat \ {0} /\ d \in Int
      /\ NoPacket \notin Packets
  BY TraceAssumption
<1>4. Range(arrival) = {} /\ InFlow = {}
  BY <1>1 DEF Range, InFlow
<1>5. ArrivalsSound
  <2>1. came \in [Packets -> {Never, Gone} \cup (0 .. time)]
    BY <1>1
  <2>2. time \in 0 .. MaxTime /\ arrival \in Seq(Packets) /\ Len(arrival) = 0
    BY <1>1, <1>3
  <2>3. \A j, k \in 1 .. Len(arrival) : arrival[j] = arrival[k] => j = k
    BY <2>2
  <2> QED
    BY <1>1, <1>3, <1>4, <2>1, <2>2, <2>3 DEF ArrivalsSound
<1>6. [busy |-> 0, ts |-> 0, pktID |-> id] \in Entry
  BY <1>3 DEF Entry
<1>7. analy \in Main
  <2>1. [j \in 0 .. DIM - 1 |-> [busy |-> 0, ts |-> 0, pktID |-> id]] \in [0 .. DIM - 1 -> Entry]
    BY <1>6
  <2>2. 0 \in 0 .. DIM - 1 /\ << >> \in Seq(Row)
    BY <1>3
  <2> QED
    BY <1>2, <1>3, <2>1, <2>2 DEF Main
<1>8. EntriesSound
  <2>1. \A j \in 0 .. DIM - 1 : analy.backlog[j].busy = 0
    BY <1>2
  <2> QED
    BY <1>4, <2>1 DEF EntriesSound, Sound
<1>9. truth \in [Intervals -> Tally]
  BY <1>1 DEF Nothing, Tally
<1>10. analy.queuesize = Cardinality(InFlow)
  BY <1>2, <1>4, FS_EmptySet
<1>11. Current(analy, truth)
  <2>1. 1 \in Intervals /\ Len(analy.rows) = 0 /\ DOMAIN truth = Intervals
    <3>1. Interval(MaxTime) \in Nat \ {0}
      BY IntervalInside
    <3> QED
      BY <1>1, <1>2, <3>1 DEF Intervals
  <2>2. StillIn(truth, 1) = 0
    <3>1. /\ StillIn(truth, 1) = StillIn(truth, 1 - 1) + Net(truth)[1]
          /\ Net(truth)[1] = (truth[1].input - truth[1].output) - truth[1].drop
          /\ StillIn(truth, 0) = 0
      BY <1>9, <2>1, StillInGrows
    <3>2. Net(truth)[1] = 0
      BY <1>1, <2>1, <3>1 DEF Nothing
    <3>3. 1 - 1 = 0
      OBVIOUS
    <3> QED
      BY <3>1, <3>2, <3>3
  <2>3. truth[1] = Nothing /\ \A n \in Intervals : truth[n] = Nothing
    BY <1>1, <2>1
  <2>4. analy.timestamp = Len(analy.rows) * smp
    BY <1>2, <1>3, <2>1
  <2>5. Len(analy.rows) + 1 = 1
    BY <2>1
  <2>6. \A n \in 1 .. Len(analy.rows) : RowIs(analy.rows[n], n, truth)
    BY <2>1
  <2>7. analy.input = 0 /\ analy.output = 0 /\ analy.drop = 0 /\ analy.queuesize = 0
    BY <1>2
  <2> QED
    BY <2>1, <2>2, <2>3, <2>4, <2>5, <2>6, <2>7 DEF Current, Nothing
<1>12. Behind(analy, time)
  BY <1>2 DEF Behind
<1> QED
  BY <1>5, <1>7, <1>8, <1>9, <1>10, <1>11, <1>12 DEF TraceInv

LEMMA TraceGoesOn == TraceInv /\ [TraceNext]_traced => TraceInv'
<1> SUFFICES ASSUME TraceInv, [TraceNext]_traced PROVE TraceInv'
  OBVIOUS
<1>1. CASE UNCHANGED traced
  <2>1. /\ arrival' = arrival /\ served' = served /\ time' = time
        /\ analy' = analy /\ came' = came /\ truth' = truth
    BY <1>1 DEF traced
  <2>2. InFlow' = InFlow
    BY <2>1 DEF InFlow
  <2>3. ArrivalsSound /\ Right(analy, truth, came, time, InFlow)
        /\ analy.queuesize = Cardinality(InFlow)
    BY Known DEF TraceInv
  <2> QED
    BY <2>1, <2>2, <2>3, Again DEF ArrivalsSound
<1>2. ASSUME NEW p \in Packets, Come(p) PROVE TraceInv'
  BY <1>2, ComeKeeps
<1>3. ASSUME NEW p \in Packets, Go(p) PROVE TraceInv'
  <2>1. Leave(p) /\ served' \in {served, p} /\ Trace(<<"-">>, p)
    BY <1>3 DEF Go, Serve
  <2> QED
    BY <2>1, LeavingKeeps
<1>4. ASSUME NEW p \in Packets, Lose(p) PROVE TraceInv'
  <2>1. Leave(p) /\ served' \in {served, p} /\ Trace(<<"d">>, p)
    BY <1>4 DEF Lose, Withdraw
  <2> QED
    BY <2>1, LeavingKeeps
<1>5. ASSUME NEW p \in Packets, Refuse(p) PROVE TraceInv'
  BY <1>5, RefuseKeeps
<1>6. ASSUME NEW p \in Packets, Received(p) PROVE TraceInv'
  BY <1>6, ReceivedKeeps
<1> QED
  BY <1>1, <1>2, <1>3, <1>4, <1>5, <1>6 DEF TraceNext

\* The rows follow the intervals of the queue, and each counts what happened to the
\* flow in its own interval: main() of analy.c writes the rows that are due before it
\* counts a record, however long the queue was silent.
THEOREM RowsAreRight == TraceSpec => []RowsAgree
<1>1. TraceInv => RowsAgree
  <2> SUFFICES ASSUME TraceInv, NEW n \in DOMAIN analy.rows
               PROVE  LET row == analy.rows[n]
                      IN  /\ row.time = n * smp
                          /\ row.input = truth[n].input /\ row.output = truth[n].output
                          /\ row.drop = truth[n].drop /\ row.queuesize = WaitingAfter(n)
                          /\ (n > 1) => row.delay = truth[n].delay
    BY DEF RowsAgree
  <2>1. analy.rows \in Seq(Row) /\ truth \in [Intervals -> Tally] /\ Current(analy, truth)
    BY DEF TraceInv, Main
  <2>2. n \in 1 .. Len(analy.rows)
    BY <2>1
  <2>3. RowIs(analy.rows[n], n, truth)
    BY <2>1, <2>2 DEF Current
  <2>4. n \in Intervals
    <3>1. Len(analy.rows) + 1 \in Intervals /\ Interval(MaxTime) \in Nat
      BY <2>1, IntervalInside DEF Current
    <3>2. Len(analy.rows) \in Nat
      BY <2>1
    <3> QED
      BY <2>2, <3>1, <3>2 DEF Intervals
  <2>5. WaitingAfter(n) = StillIn(truth, n)
    BY <2>1, <2>4, WaitingIsSum
  <2> QED
    BY <2>3, <2>5 DEF RowIs
<1>2. QED
  BY TraceBegins, TraceGoesOn, <1>1, PTL DEF TraceSpec

\* Every packet of the flow that waits has one entry in the backlog with the time at
\* which it came, so the search for its departure ends, and queuesizePKT is the number
\* of them: a drop frees an entry that names its packet, busy or not, and no entry of
\* another packet is touched.
THEOREM BacklogIsHeld == TraceSpec => []BacklogHolds
<1>1. TraceInv => BacklogHolds
  <2> SUFFICES ASSUME TraceInv PROVE BacklogHolds
    OBVIOUS
  <2>1. /\ analy \in Main /\ Sound(analy, came, InFlow)
        /\ analy.queuesize = Cardinality(InFlow)
    BY DEF TraceInv, EntriesSound
  <2>2. /\ analy.timestamp \in Nat /\ analy.input \in Nat /\ analy.output \in Nat
        /\ analy.drop \in Nat /\ analy.i \in 0 .. DIM - 1
        /\ analy.backlog \in [0 .. DIM - 1 -> Entry]
    BY <2>1 DEF Main
  <2>3. analy.queuesize \in Nat
    BY <2>1, FlowCount
  <2>4. TypeOK
    BY <2>2, <2>3 DEF TypeOK, Entry
  <2>5. DOMAIN analy.backlog = 0 .. DIM - 1
    BY <2>2
  <2> QED
    BY <2>1, <2>4, <2>5 DEF BacklogHolds, Sound, InFlow
<1>2. QED
  BY TraceBegins, TraceGoesOn, <1>1, PTL DEF TraceSpec

=============================================================================
