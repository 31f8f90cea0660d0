------------------------------ MODULE VoiceCall -----------------------------
(***************************************************************************)
(* A voice call: Application/Traffic/Voice (voicemodel.cc) at both ends of *)
(* a link that keeps the promise of PacketLink.  A Voice object sends      *)
(* bursts of numbered packets, estimates from the numbers it receives how  *)
(* many were lost, keeps the delays of the last MAX_D_SAMP packets, and    *)
(* looks for the playout delay with the best score when it is asked to.    *)
(*                                                                         *)
(* Abstracted: time (a packet takes one of Delays, whatever was before);   *)
(* the counters cur_delay_ and sent_, which nothing reads; the logarithm   *)
(* and the coefficients of the score, which are constants, rounded to      *)
(* integers; loss ratios are pairs of integers.                            *)
(***************************************************************************)
EXTENDS Integers, FiniteSets, Functions, PacketLink

CONSTANTS
    Ends,                 \* the two objects
    BurstLengths,         \* values of int(burstlen_.value())
    Delays,               \* delays of packets
    MAX_D_SAMP,           \* 1000 in the code
    TopScore,             \* score without loss and delay
    LossPenalty(_, _),    \* Ie of a loss of n packets out of m
    DelayPenalty(_),      \* Id of a delay
    MaxPackets            \* bound on the packets of each end

ASSUME CallAssumption ==
    /\ IsFiniteSet(Ends) /\ Cardinality(Ends) = 2 /\ Stations = Ends /\ Flows = Ends
    /\ Ends \subseteq Kept                    \* the link keeps its promise to both
    /\ BurstLengths \subseteq Nat /\ Delays \subseteq Nat
    /\ MAX_D_SAMP \in Nat \ {0} /\ TopScore \in Nat
    /\ MaxPackets \in [Ends -> Nat]

VARIABLES
    carries,    \* the sequence number in every packet of the link
    running_,   \* the source is started, its timer runs
    rem_,       \* packets left in the burst
    seqno,      \* number of the next packet
    rx_tot_,    \* packets received since the last reset
    init_seqno, \* number of the first of them
    loss_ratio_,\* [lost, of]
    dd_buf,     \* delays, at 0 .. MAX_D_SAMP - 1
    score,      \* what the object shows: [rscore_, delay_, loss_playout_]
    got,        \* history: the packets received since the last reset: [no, delay]
    scored      \* history: the score was computed since the last reset

link == <<taken, whole, up>>
source == <<running_, rem_, seqno>>
estimate == <<rx_tot_, init_seqno, loss_ratio_>>
vars == <<link, carries, source, estimate, dd_buf, score, got, scored>>

Ratio == [lost : Int, of : Int]
Other(e) == CHOOSE x \in Ends : x # e

CallInit ==
    /\ Init /\ carries = << >>
    /\ running_ = [e \in Ends |-> FALSE] /\ rem_ = [e \in Ends |-> 0]
    /\ seqno = [e \in Ends |-> 0]
    /\ rx_tot_ = [e \in Ends |-> 0] /\ init_seqno = [e \in Ends |-> 0]
    /\ loss_ratio_ = [e \in Ends |-> [lost |-> 0, of |-> 1]]
    /\ dd_buf = [e \in Ends |-> [i \in 0 .. MAX_D_SAMP - 1 |-> 0]]
    /\ score = [e \in Ends |-> [rscore_ |-> 0, delay_ |-> 0,
                                loss_playout_ |-> [lost |-> 0, of |-> 1]]]
    /\ got = [e \in Ends |-> << >>] /\ scored = [e \in Ends |-> FALSE]

-----------------------------------------------------------------------------
(* Source *)

\* next_interval: a burst that has ended is followed by silence and a new one.
NextInterval(rem, n) == (IF rem = 0 THEN n + 1 ELSE rem) - 1

\* reset(), by a script or from init(): the numbers of the packets go on.
ResetNumbers(e) ==
    /\ rx_tot_' = [rx_tot_ EXCEPT ![e] = 0] /\ seqno' = [seqno EXCEPT ![e] = 0]
    /\ got' = [got EXCEPT ![e] = << >>] /\ scored' = [scored EXCEPT ![e] = FALSE]
    /\ UNCHANGED <<link, carries, init_seqno, loss_ratio_, dd_buf, score>>
Reset(e) ==
    /\ rx_tot_' = [rx_tot_ EXCEPT ![e] = 0]
    /\ got' = [got EXCEPT ![e] = << >>] /\ scored' = [scored EXCEPT ![e] = FALSE]
    /\ UNCHANGED <<link, carries, seqno, init_seqno, loss_ratio_, dd_buf, score>>

\* TrafficGenerator::start of the simulator, with Voice::init.
Start(e, n) ==
    /\ running_' = [running_ EXCEPT ![e] = TRUE]
    /\ rem_' = [rem_ EXCEPT ![e] = NextInterval(0, n)]
    /\ Reset(e)

\* TrafficGenerator::stop cancels the timer.
Stop(e) ==
    /\ running_[e] /\ running_' = [running_ EXCEPT ![e] = FALSE]
    /\ UNCHANGED <<link, carries, rem_, seqno, estimate, dd_buf, score, got, scored>>

\* timeout(): a packet is sent, which the link may have no room for.
Timeout(e, n) ==
    /\ running_[e] /\ seqno[e] < MaxPackets[e]
    /\ seqno' = [seqno EXCEPT ![e] = @ + 1]
    /\ rem_' = [rem_ EXCEPT ![e] = NextInterval(@, n)]
    /\ \/ /\ Take([dst |-> Other(e), flow |-> e])
          /\ carries' = Append(carries, seqno[e])
       \/ UNCHANGED <<link, carries>>
    /\ UNCHANGED <<running_, estimate, dd_buf, score, got, scored>>

-----------------------------------------------------------------------------
(* Receiver *)

\* process_data of packet p, which the link passes up at e.
SentEstimate(init, tot, no) == no - init + 1
ProcessData(e, p, delay) ==
    LET no == carries[p]
        tot == rx_tot_[e] + 1
        init == IF tot = 1 THEN no ELSE init_seqno[e]
        tx_est == SentEstimate(init, tot, no)
    IN  /\ up' = [up EXCEPT ![e] = Append(@, p)]
        /\ whole' = whole \cup {p}
        /\ Arrive
        /\ dd_buf' = [dd_buf EXCEPT ![e][rx_tot_[e] % MAX_D_SAMP] = delay]
        /\ rx_tot_' = [rx_tot_ EXCEPT ![e] = tot]
        /\ init_seqno' = [init_seqno EXCEPT ![e] = init]
        /\ loss_ratio_' = [loss_ratio_ EXCEPT ![e] = [lost |-> tx_est - tot, of |-> tx_est]]
        /\ got' = [got EXCEPT ![e] = Append(@, [no |-> no, delay |-> delay])]
        /\ UNCHANGED <<carries, source, score, scored>>

Plus(a, b) == [lost |-> a.lost * b.of + b.lost * a.of, of |-> a.of * b.of]
Score(ratio, delay) == TopScore - LossPenalty(ratio.lost, ratio.of) - DelayPenalty(delay)

Samples(e) == IF rx_tot_[e] < MAX_D_SAMP THEN rx_tot_[e] ELSE MAX_D_SAMP

\* sort(): the first `ss' delays of the buffer in ascending order, and as they are.
Unsorted(buf, ss) == {[i \in 1 .. ss |-> buf[i - 1]]}
Sorted(buf, ss) ==
    {s \in {[i \in 1 .. ss |-> buf[p[i] - 1]] : p \in Bijection(1 .. ss, 1 .. ss)} :
        \A i, j \in 1 .. ss : i < j => s[i] <= s[j]}

\* rscore(): of the delays in the buffer the first that gives the best score, if
\* that is positive; sort() leaves the buffer sorted.
UpdateScore(e) ==
    /\ \E s \in Sorted(dd_buf[e], Samples(e)) :
         LET ss == Samples(e)
             Lost(i) == Plus([lost |-> ss - i, of |-> ss], loss_ratio_[e])
             At(i) == Score(Lost(i), s[i])
             best == {i \in 1 .. ss : At(i) > 0 /\ \A j \in 1 .. ss :
                                         At(j) < At(i) \/ (At(j) = At(i) /\ i <= j)}
         IN  /\ dd_buf' = [dd_buf EXCEPT ![e] =
                              [i \in DOMAIN @ |-> IF i < ss THEN s[i + 1] ELSE @[i]]]
             /\ \/ best = {} /\ score' = [score EXCEPT ![e].rscore_ = 0]
                \/ \E i \in best : score' = [score EXCEPT ![e] =
                      [rscore_ |-> At(i), delay_ |-> s[i], loss_playout_ |-> Lost(i)]]
    /\ scored' = [scored EXCEPT ![e] = TRUE]
    /\ UNCHANGED <<link, carries, source, estimate, got>>

CallNext ==
    \E e \in Ends :
        \/ \E n \in BurstLengths : Start(e, n) \/ Timeout(e, n)
        \/ Stop(e)
        \/ Reset(e) /\ UNCHANGED <<running_, rem_>>
        \/ \E p \in DOMAIN taken, delay \in Delays : ProcessData(e, p, delay)
        \/ UpdateScore(e)

CallSpec == CallInit /\ [][CallNext]_vars

-----------------------------------------------------------------------------
(* Properties *)

\* Types of the state; checked with LossMeasured.
TypeOK ==
    /\ taken \in Seq(Header) /\ carries \in [DOMAIN taken -> Nat]
    /\ running_ \in [Ends -> BOOLEAN] /\ rem_ \in [Ends -> Nat] /\ seqno \in [Ends -> Nat]
    /\ rx_tot_ \in [Ends -> Nat] /\ init_seqno \in [Ends -> Nat]
    /\ loss_ratio_ \in [Ends -> Ratio]
    /\ dd_buf \in [Ends -> [0 .. MAX_D_SAMP - 1 -> Delays \cup {0}]]
    /\ score \in [Ends -> [rscore_ : Nat, delay_ : Delays \cup {0}, loss_playout_ : Ratio]]
    /\ scored \in [Ends -> BOOLEAN]

\* "number of packet sent estimate" (voicemodel.cc): since the last reset the loss
\* ratio is that of the packets from the first to the last received, whenever
\* either end is reset, stopped or started again: what was lost, no more, no less.
LossMeasured ==
    /\ TypeOK
    /\ \A e \in Ends : (rx_tot_[e] > 0) =>
         LET numbers == {got[e][k].no : k \in DOMAIN got[e]}
             asked == got[e][1].no .. Last(got[e]).no
         IN  loss_ratio_[e] = [lost |-> Cardinality(asked \ numbers), of |-> Cardinality(asked)]

\* The last packets received, as many as the buffer holds.
LastGot(e) ==
    LET n == Len(got[e])
    IN  [k \in 1 .. Samples(e) |-> got[e][n - Samples(e) + k].delay]

\* The score is the best that a playout delay among the delays of the last packets
\* gives, counting packets that come later than that as lost, and the delay and the
\* loss shown with a positive score are those that give it.  This holds although
\* rscore() sorts the buffer it is filled into, until the buffer has wrapped after
\* a score was computed: then the packets it forgets are not the oldest ones.
ScoreIsBest ==
    [][\A e \in Ends :
         (UpdateScore(e) /\ (Len(got[e]) <= MAX_D_SAMP \/ ~scored[e])) =>
            LET s == LastGot(e)
                Late(d) == [lost |-> Cardinality({k \in DOMAIN s : s[k] > d}), of |-> Len(s)]
                With(d) == Plus(Late(d), loss_ratio_[e])
                now == score'[e]
            IN  /\ now.rscore_ >= 0
                /\ \A k \in DOMAIN s : Score(With(s[k]), s[k]) <= now.rscore_
                /\ (now.rscore_ > 0) =>
                     /\ now.delay_ \in Range(s) /\ now.loss_playout_ = With(now.delay_)
                     /\ now.rscore_ = Score(now.loss_playout_, now.delay_)]_vars
=============================================================================
