------------------------------ MODULE FullRun ------------------------------
(***************************************************************************)
(* The driver of simulations, utils/fullrun.c: num_jobs threads run the    *)
(* same command again and again and add what it prints to common           *)
(* statistics, until the estimates have converged or max_runs is exceeded. *)
(* It is the only part of the system with threads.                         *)
(*                                                                         *)
(* Abstracted: the command prints one of Outputs, a sequence of small      *)
(* numbers, and what fork, pipe and wait do for that is one step.  Whether *)
(* the estimates converged, a matter of floating point, is left open.      *)
(* Statistics have a sum (type 0) and a tree of samples (type 1) both; the *)
(* sum of squares goes with the sum.  An estimate is the number of samples *)
(* that it was made from.                                                  *)
(***************************************************************************)
EXTENDS Integers, Sequences, FiniteSets, SequencesExt

CONSTANTS
    Jobs,                  \* the threads; num_jobs of them
    min_runs, num_cycles,  \* num_cycles is configured as max_runs
    refresh,
    MAX_OUTPUT,            \* 1024 in the code: the size of the arrays of statistics
    Outputs,               \* what the command may print
    Needs,                 \* samples not enough for an estimate, per column: 0 for a
                           \* mean, 5 / min(perc, 1 - perc) for a percentile
    Commands               \* {TRUE}, or FALSE too: there may be no such command

ASSUME RunAssumption ==
    /\ IsFiniteSet(Jobs) /\ Jobs # {}
    /\ {min_runs, num_cycles, refresh} \subseteq Nat \ {0} /\ MAX_OUTPUT \in Nat
    \* At most DATA_BUF_SIZE characters, 1024 too, are read of an output.
    /\ Outputs \subseteq Seq(Nat) /\ \A out \in Outputs : Len(out) <= MAX_OUTPUT
    /\ Needs \subseteq [1 .. MAX_OUTPUT -> Nat] /\ Commands \subseteq BOOLEAN

NULL == 0

VARIABLES
    valid,          \* whether the command can be executed
    needs,          \* one of Needs, from the types of the columns
    pc, drp, i,     \* of every thread: where it is, the output it holds, the
                    \* loop index of update_stats
    mutex,          \* the threads inside the semaphore
    end_run, cols, num_samples,
    c_index, c_value,       \* global variables of save_data
    sum_total, data_sort,   \* of every column; a tree is its nodes by age
    estimated,      \* the estimate of every column, 0 at first
    converged,      \* whether all of them had converged at the last update
    ended,          \* "no", "printed", "quit" by Ctrl-\, "exit" without estimates
    taken           \* history: outputs that save_data was called with

config == <<valid, needs>>
thread == <<pc, drp, i>>
stats == <<sum_total, data_sort>>
estimate == <<estimated, converged>>
vars == <<config, thread, mutex, end_run, cols, num_samples, c_index, c_value,
          stats, estimate, ended, taken>>

-----------------------------------------------------------------------------
(* The tree of samples                                                     *)

\* insert_sort: the nodes on the way from the root to the place of value v.
GoesLeft(v, node) == v < node.data_val
Path(tree, v) ==
    LET at[k \in 0 .. Len(tree)] ==
            IF k = 0 THEN (IF tree = << >> THEN NULL ELSE 1)
            ELSE IF at[k - 1] = NULL THEN NULL
            ELSE IF GoesLeft(v, tree[at[k - 1]]) THEN tree[at[k - 1]].lp
                                                 ELSE tree[at[k - 1]].rp
    IN  {at[k] : k \in DOMAIN at} \ {NULL}

\* The new node hangs off the last of them; count is the size of a left subtree.
InsertSort(tree, v) ==
    LET new == Len(tree) + 1
        passed(n) ==
            IF n \notin Path(tree, v) THEN tree[n]
            ELSE IF GoesLeft(v, tree[n])
                 THEN [tree[n] EXCEPT !.count = @ + 1, !.lp = IF @ = NULL THEN new ELSE @]
                 ELSE [tree[n] EXCEPT !.rp = IF @ = NULL THEN new ELSE @]
    IN  Append([n \in DOMAIN tree |-> passed(n)],
               [data_val |-> v, lp |-> NULL, rp |-> NULL, count |-> 0])

\* _get_list: the value number index, from 0, in the order of size.  At every node
\* on the way down, as many values are skipped as are known to be before.
GetList(tree, index) ==
    LET down(w) ==
            LET node == tree[w.p]
            IN  IF w.p = NULL \/ w.index = node.count THEN w
                ELSE IF w.index < node.count THEN [p |-> node.lp, index |-> w.index]
                ELSE [p |-> node.rp, index |-> w.index - node.count - 1]
        at[k \in 0 .. Len(tree)] ==
            IF k = 0 THEN [p |-> 1, index |-> index] ELSE down(at[k - 1])
    IN  tree[at[Len(tree)].p].data_val

-----------------------------------------------------------------------------
(* Threads: sched_run                                                      *)

Goto(t, l) == pc' = [pc EXCEPT ![t] = l]

\* sem_wait
EntersAlways == TRUE
Enters == mutex = {}

\* while(end_run)
Loop(t) ==
    /\ pc[t] = "loop"
    /\ Goto(t, IF end_run THEN "run" ELSE "done")
    /\ UNCHANGED <<config, drp, i, mutex, end_run, cols, num_samples, c_index, c_value,
                   stats, estimate, ended, taken>>

\* The command is run, its output read and scanned, and the number of values
\* compared with cols, without the semaphore.
Simulate(t) ==
    /\ pc[t] = "run" /\ valid
    /\ \E out \in Outputs :
         /\ drp' = [drp EXCEPT ![t] = out]
         /\ Goto(t, IF Len(out) # cols THEN "cols" ELSE "save")
    /\ UNCHANGED <<config, i, mutex, end_run, cols, num_samples, c_index, c_value,
                   stats, estimate, ended, taken>>

\* execvp fails: the child, which shares the memory of its parent (vfork), stops
\* the run under the semaphore and exits; its output is empty.
ExecFails(t) ==
    /\ pc[t] = "run" /\ ~valid /\ Enters
    /\ end_run' = FALSE
    /\ drp' = [drp EXCEPT ![t] = << >>]
    /\ Goto(t, IF cols # 0 THEN "cols" ELSE "save")
    /\ UNCHANGED <<config, i, mutex, cols, num_samples, c_index, c_value,
                   stats, estimate, ended, taken>>

\* The first output sets the number of columns; if another one, or none, differs
\* from it, the program exits.
Columns(t) ==
    LET n == Len(drp[t])
    IN  /\ pc[t] = "cols" /\ Enters
        /\ cols' = IF cols = -1 THEN n ELSE cols
        /\ IF cols' = 0 \/ cols' # n
           THEN ended' = "exit" /\ UNCHANGED pc
           ELSE Goto(t, "save") /\ UNCHANGED ended
        /\ UNCHANGED <<config, drp, i, mutex, end_run, num_samples, c_index, c_value,
                       stats, estimate, taken>>

-----------------------------------------------------------------------------
(* save_data                                                               *)

SaveData(t) ==
    /\ pc[t] = "save" /\ Enters
    /\ mutex' = mutex \cup {t}
    /\ num_samples' = num_samples + 1
    /\ c_index' = 0
    /\ taken' = Append(taken, drp[t])
    /\ Goto(t, "value")
    /\ UNCHANGED <<config, drp, i, end_run, cols, c_value, stats, estimate, ended>>

\* One round of the loop over the columns is Value and InsertValue.
Value(t) ==
    /\ pc[t] = "value" /\ c_index < cols
    /\ c_value' = drp[t][c_index + 1]
    /\ Goto(t, "insert")
    /\ UNCHANGED <<config, drp, i, mutex, end_run, cols, num_samples, c_index,
                   stats, estimate, ended, taken>>

InsertValue(t) ==
    LET c == c_index + 1
    IN  /\ pc[t] = "insert" /\ c \in 1 .. MAX_OUTPUT
        /\ sum_total' = [sum_total EXCEPT ![c] = @ + c_value]
        /\ data_sort' = [data_sort EXCEPT ![c] = InsertSort(@, c_value)]
        /\ c_index' = c_index + 1
        /\ Goto(t, "value")
        /\ UNCHANGED <<config, drp, i, mutex, end_run, cols, num_samples, c_value,
                       estimate, ended, taken>>

\* sem_post
ReleaseForgotten(t) == IF pc[t] = "update" THEN mutex ELSE mutex \ {t}
Release(t) == mutex \ {t}

\* The loop is over; the termination condition is looked at now and then.
Finish(t) ==
    /\ pc[t] = "value" /\ c_index >= cols
    /\ IF num_samples % refresh = 0 /\ num_samples > min_runs
       THEN Goto(t, "update") /\ UNCHANGED mutex
       ELSE Goto(t, "loop") /\ mutex' = Release(t)
    /\ UNCHANGED <<config, drp, i, end_run, cols, num_samples, c_index, c_value, stats,
                   estimate, ended, taken>>

MoreColumnsButOne(t) == i[t] < cols - 1
MoreColumns(t) == i[t] < cols

\* update_stats, for one column.
UpdateStats(t) ==
    LET c == i[t] + 1
    IN  /\ pc[t] = "update" /\ MoreColumns(t)
        /\ i' = [i EXCEPT ![t] = c]
        /\ estimated' = IF num_samples > needs[c]
                        THEN [estimated EXCEPT ![c] = num_samples] ELSE estimated
        /\ UNCHANGED <<config, pc, drp, mutex, end_run, cols, num_samples, c_index, c_value,
                       stats, converged, ended, taken>>

\* It returns the number of columns that have converged: all of them, or not.
Decide(t) ==
    /\ pc[t] = "update" /\ ~MoreColumns(t)
    /\ i' = [i EXCEPT ![t] = 0]
    /\ converged' \in {FALSE, \A c \in 1 .. cols : num_samples > needs[c]}
    /\ end_run' = (end_run /\ ~converged' /\ num_samples <= num_cycles)
    /\ mutex' = Release(t)
    /\ Goto(t, "loop")
    /\ UNCHANGED <<config, drp, cols, num_samples, c_index, c_value, stats, estimated,
                   ended, taken>>

\* sig_quit: Ctrl-\ prints the estimates that there are and ends the program, whatever
\* the threads are doing.  (Ctrl-C only prints them.)
SigQuit ==
    /\ ended = "no"
    /\ ended' = "quit"
    /\ UNCHANGED <<config, thread, mutex, end_run, cols, num_samples, c_index, c_value,
                   stats, estimate, taken>>

\* main() has joined all threads.
OutputResults ==
    /\ ended = "no"
    /\ \A t \in Jobs : pc[t] = "done"
    /\ ended' = "printed"
    /\ UNCHANGED <<config, thread, mutex, end_run, cols, num_samples, c_index, c_value,
                   stats, estimate, taken>>

-----------------------------------------------------------------------------
Init ==
    /\ valid \in Commands /\ needs \in Needs
    /\ pc = [t \in Jobs |-> "loop"] /\ drp = [t \in Jobs |-> << >>]
    /\ i = [t \in Jobs |-> 0]
    /\ mutex = {} /\ end_run = TRUE /\ cols = -1
    /\ num_samples = 0 /\ c_index = 0 /\ c_value = 0
    /\ sum_total = [c \in 1 .. MAX_OUTPUT |-> 0]
    /\ data_sort = [c \in 1 .. MAX_OUTPUT |-> << >>]
    /\ estimated = [c \in 1 .. MAX_OUTPUT |-> 0] /\ converged = FALSE
    /\ ended = "no" /\ taken = << >>

SchedRun(t) ==
    /\ ended = "no"
    /\ \/ Loop(t) \/ Simulate(t) \/ ExecFails(t) \/ Columns(t)
       \/ SaveData(t) \/ Value(t) \/ InsertValue(t) \/ Finish(t)
       \/ UpdateStats(t) \/ Decide(t)

Next == OutputResults \/ SigQuit \/ \E t \in Jobs : SchedRun(t)

Spec == Init /\ [][Next]_vars
\* The system runs every thread, every simulation ends, and a semaphore that is
\* free is taken by one of those that wait.  Nobody has to press a key.
FairSpec == Spec /\ WF_vars(OutputResults) /\ \A t \in Jobs : WF_vars(SchedRun(t))

-----------------------------------------------------------------------------
(* Properties                                                              *)

Saving == {t \in Jobs : pc[t] \in {"value", "insert", "update"}}

\* w is number k of the values in the order of size.
IsNumber(k, values, w) ==
    /\ Cardinality({j \in DOMAIN values : values[j] < w}) < k
    /\ Cardinality({j \in DOMAIN values : values[j] <= w}) >= k

\* Between two calls of save_data every sample is counted, once and in its own
\* column, although the loop works on global variables; and get_list finds the
\* values of each tree in the order of their size.
SamplesCounted ==
    Saving = {} =>
        /\ num_samples = Len(taken)
        /\ \A c \in 1 .. MAX_OUTPUT : (c <= cols) =>
             LET values == [k \in DOMAIN taken |-> taken[k][c]]
             IN  /\ sum_total[c] = FoldLeft(+, 0, values)
                 /\ \A k \in DOMAIN values : IsNumber(k, values, GetList(data_sort[c], k - 1))

LastRun == LET m == IF min_runs > num_cycles THEN min_runs ELSE num_cycles
           IN  (m \div refresh + 1) * refresh

\* The last number of samples at which the termination condition is looked at, and
\* what an update at n samples leaves as the estimate of column c.
LastCheck == (num_samples \div refresh) * refresh
Seen(c, n) == IF n > min_runs /\ n > needs[c] THEN n ELSE 0

\* "Exit if simulation converged or maximum runs reached": what is printed at the end
\* had converged, or max_runs is exceeded; every column rests on the same samples, on
\* all but fewer than refresh, unless it is a percentile for which they were too few
\* (then max_runs has ended the run, and 0 is printed).  The runs that are started
\* although the end is near, one per thread, do not spoil this (if threads are not
\* more than refresh), and are all that goes beyond the first check after max_runs.
\* "Press Ctrl-C to see partial estimates": at any time, also in the middle of an
\* update, these are of the last two checks and never older.
OutcomeSound ==
    /\ num_samples <= LastRun + Cardinality(Jobs) - 1
    /\ \A c \in 1 .. MAX_OUTPUT : (c <= cols) =>
          estimated[c] \in {Seen(c, LastCheck), Seen(c, LastCheck - refresh)}
    /\ ended = "printed" =>
          /\ valid /\ LastCheck > min_runs
          /\ \A c \in 1 .. cols : estimated[c] = Seen(c, LastCheck)
          /\ Cardinality(Jobs) <= refresh => (converged \/ LastCheck > num_cycles)

\* The program ends, with estimates or without.
Terminates == <>(ended # "no")
=============================================================================
