-------------------------- MODULE VoiceCallProofs --------------------------
(***************************************************************************)
(* Theorems about VoiceCall, for any delays and bursts, any size of the    *)
(* buffer and any number of packets, with both ends talking: the loss      *)
(* ratio is measured exactly (LossMeasured), and the score is the best of  *)
(* the last packets (ScoreIsBest).                                         *)
(*                                                                         *)
(* The argument for the first: a Voice object never gives a number twice and the link    *)
(* keeps the order of a flow, so the numbers received grow, also across    *)
(* resets of either end.  Then as many numbers have been received since    *)
(* the reset as packets, and those from the first to the last number that  *)
(* are missing are the difference that the receiver computes.              *)
(* For the second: until the buffer of delays wraps it holds those         *)
(* received, in whatever order, and until it is sorted the last ones, each *)
(* at its number modulo the size (BufferInv).  In either case what         *)
(* rscore() sorts is a rearrangement of the delays of the last packets, so *)
(* that behind the last one of a value are as many as came later than it,  *)
(* and the last of equal delays scores higher than the others.             *)
(***************************************************************************)
EXTENDS VoiceCall, SequenceLemmas, FunctionTheorems

\* The coefficients of the score are integers (they are real numbers in the code).
IntegerScore ==
    /\ \A n, m \in Int : LossPenalty(n, m) \in Int
    /\ \A d \in Nat : DelayPenalty(d) \in Int

\* A loss counts for more than a smaller one: the logarithm in the code is strictly
\* increasing.  (If two losses counted the same, the first of equal delays could
\* be the best, and the loss shown with it too large.)
FineScore ==
    \A e \in Ends : \A m \in 1 .. MAX_D_SAMP * MaxPackets[e] : \A n, k \in 0 .. 2 * m :
        n < k => LossPenalty(n, m) < LossPenalty(k, m)

Packet == [no : Nat, delay : Nat]

\* The link has taken packets from each end to the other, with growing numbers.
Numbered ==
    /\ \A p \in DOMAIN taken : /\ taken[p].dst = Other(taken[p].flow)
                               /\ carries[p] < seqno[taken[p].flow]
    /\ \A p, q \in DOMAIN taken :
          (p < q /\ taken[p].flow = taken[q].flow) => carries[p] < carries[q]

\* The packets passed up at an end are for it, each one taken after those before.
Ordered ==
    /\ up \in [Ends -> Seq(Nat)]
    /\ \A e \in Ends : \A j \in DOMAIN up[e] :
          up[e][j] \in DOMAIN taken /\ taken[up[e][j]].dst = e
    /\ \A e \in Ends : \A j, k \in DOMAIN up[e] : j < k => up[e][j] < up[e][k]

\* What was received since the last reset is the end of what was passed up.
Received ==
    /\ got \in [Ends -> Seq(Packet)]
    /\ \A e \in Ends :
          /\ Len(got[e]) = rx_tot_[e] /\ rx_tot_[e] <= Len(up[e])
          /\ \A k \in 1 .. rx_tot_[e] :
                got[e][k].no = carries[up[e][Len(up[e]) - rx_tot_[e] + k]]

Span(e) == got[e][rx_tot_[e]].no - got[e][1].no + 1

\* The estimate, in terms of the first and the last number.
Measured ==
    \A e \in Ends : (rx_tot_[e] > 0) =>
        /\ init_seqno[e] = got[e][1].no
        /\ loss_ratio_[e] = [lost |-> Span(e) - rx_tot_[e], of |-> Span(e)]

CallInv == TypeOK /\ Numbered /\ Ordered /\ Received /\ Measured

-----------------------------------------------------------------------------
(* Two ends                                                                *)

LEMMA OtherEnd ==
  ASSUME NEW e \in Ends
  PROVE  Other(e) \in Ends /\ Other(e) # e /\ \A x \in Ends : x # e => x = Other(e)
<1>1. IsFiniteSet(Ends) /\ Cardinality(Ends) = 2
  BY CallAssumption
<1>2. IsFiniteSet(Ends \ {e}) /\ Cardinality(Ends \ {e}) = 1
  BY <1>1, FS_RemoveElement
<1>3. PICK x : Ends \ {e} = {x}
  BY <1>2, FS_Singleton
<1>4. Other(e) \in Ends /\ Other(e) # e
  BY <1>3 DEF Other
<1>5. QED
  BY <1>3, <1>4

LEMMA TakenType ==
  ASSUME TypeOK, NEW p \in DOMAIN taken
  PROVE  /\ taken[p].flow \in Ends /\ taken[p].dst \in Ends /\ carries[p] \in Nat
         /\ taken[p].flow \in Kept
<1>1. taken[p] \in Header
  BY DEF TypeOK
<1>2. taken[p].flow \in Ends /\ taken[p].dst \in Ends
  BY <1>1, CallAssumption DEF Header
<1>3. QED
  BY <1>2, CallAssumption DEF TypeOK

\* The packets that arrive at an end are all from the other one.
LEMMA SameFlow ==
  ASSUME TypeOK, Numbered, NEW p \in DOMAIN taken, NEW q \in DOMAIN taken,
         taken[p].dst = taken[q].dst
  PROVE  taken[p].flow = taken[q].flow
<1>1. taken[p].flow \in Ends /\ taken[q].flow \in Ends
  BY TakenType
<1>2. Other(taken[p].flow) = Other(taken[q].flow)
  BY DEF Numbered
<1>3. QED
  BY <1>1, <1>2, OtherEnd

-----------------------------------------------------------------------------
(* Types                                                                   *)

LEMMA SortedType ==
  ASSUME NEW buf \in [0 .. MAX_D_SAMP - 1 -> Delays \cup {0}], NEW ss \in 0 .. MAX_D_SAMP,
         NEW s \in Sorted(buf, ss)
  PROVE  s \in [1 .. ss -> Delays \cup {0}]
<1>1. PICK p \in Bijection(1 .. ss, 1 .. ss) : s = [i \in 1 .. ss |-> buf[p[i] - 1]]
  BY DEF Sorted
<1>2. p \in [1 .. ss -> 1 .. ss]
  BY DEF Bijection, Injection
<1>3. \A i \in 1 .. ss : p[i] - 1 \in 0 .. MAX_D_SAMP - 1
  BY <1>2, CallAssumption
<1>4. QED
  BY <1>1, <1>3

LEMMA SamplesType ==
  ASSUME TypeOK, NEW e \in Ends
  PROVE  Samples(e) \in 0 .. MAX_D_SAMP
BY CallAssumption DEF TypeOK, Samples

LEMMA ScoreType ==
  ASSUME TypeOK, IntegerScore, NEW e \in Ends, UpdateScore(e)
  PROVE  /\ dd_buf' \in [Ends -> [0 .. MAX_D_SAMP - 1 -> Delays \cup {0}]]
         /\ score' \in [Ends -> [rscore_ : Nat, delay_ : Delays \cup {0}, loss_playout_ : Ratio]]
<1>. DEFINE ss == Samples(e)
            Lost(i) == Plus([lost |-> ss - i, of |-> ss], loss_ratio_[e])
<1>1. ss \in 0 .. MAX_D_SAMP /\ MAX_D_SAMP \in Nat
  BY SamplesType, CallAssumption
<1>2. PICK s \in Sorted(dd_buf[e], ss) :
         LET At(i) == Score(Lost(i), s[i])
             best == {i \in 1 .. ss : At(i) > 0 /\ \A j \in 1 .. ss :
                                         At(j) < At(i) \/ (At(j) = At(i) /\ i <= j)}
         IN  /\ dd_buf' = [dd_buf EXCEPT ![e] =
                              [i \in DOMAIN @ |-> IF i < ss THEN s[i + 1] ELSE @[i]]]
             /\ \/ best = {} /\ score' = [score EXCEPT ![e].rscore_ = 0]
                \/ \E i \in best : score' = [score EXCEPT ![e] =
                      [rscore_ |-> At(i), delay_ |-> s[i], loss_playout_ |-> Lost(i)]]
  BY DEF UpdateScore
<1>3. s \in [1 .. ss -> Delays \cup {0}]
  BY <1>1, SortedType DEF TypeOK
<1>. HIDE DEF ss
<1>4. dd_buf' \in [Ends -> [0 .. MAX_D_SAMP - 1 -> Delays \cup {0}]]
  <2>1. \A i \in 0 .. MAX_D_SAMP - 1 :
           (IF i < ss THEN s[i + 1] ELSE dd_buf[e][i]) \in Delays \cup {0}
    BY <1>1, <1>3 DEF TypeOK
  <2>2. DOMAIN dd_buf[e] = 0 .. MAX_D_SAMP - 1
    BY DEF TypeOK
  <2>3. QED
    BY <1>2, <2>1, <2>2 DEF TypeOK
<1>5. CASE score' = [score EXCEPT ![e].rscore_ = 0]
  BY <1>4, <1>5 DEF TypeOK
<1>6. ASSUME NEW i \in 1 .. ss, Score(Lost(i), s[i]) > 0,
             score' = [score EXCEPT ![e] =
                 [rscore_ |-> Score(Lost(i), s[i]), delay_ |-> s[i], loss_playout_ |-> Lost(i)]]
      PROVE  score' \in [Ends -> [rscore_ : Nat, delay_ : Delays \cup {0}, loss_playout_ : Ratio]]
  <2>1. s[i] \in Delays \cup {0} /\ s[i] \in Nat
    <3>1. s[i] \in Delays \cup {0}
      BY <1>3
    <3>2. Delays \cup {0} \subseteq Nat
      BY CallAssumption
    <3>3. QED
      BY <3>1, <3>2
  <2>2. Lost(i) \in Ratio
    <3>1. loss_ratio_[e] \in Ratio /\ ss - i \in Int /\ ss \in Int
      BY <1>1 DEF TypeOK
    <3>2. QED
      BY <3>1 DEF Plus, Ratio
  <2>. HIDE DEF Lost
  <2>3. Score(Lost(i), s[i]) \in Nat
    <3>1. LossPenalty(Lost(i).lost, Lost(i).of) \in Int /\ DelayPenalty(s[i]) \in Int
      BY <2>1, <2>2 DEF IntegerScore, Ratio
    <3>2. Score(Lost(i), s[i]) \in Int
      BY <3>1, CallAssumption DEF Score
    <3>3. QED
      BY <1>6, <3>2
  <2>4. QED
    BY <1>6, <2>1, <2>2, <2>3 DEF TypeOK
<1>7. QED
  BY <1>2, <1>4, <1>5, <1>6

\* What a packet that is passed up changes.
LEMMA ProcessDataStep ==
  ASSUME TypeOK, NEW e \in Ends, NEW p \in DOMAIN taken, NEW delay \in Delays,
         ProcessData(e, p, delay)
  PROVE  /\ rx_tot_' = [rx_tot_ EXCEPT ![e] = @ + 1]
         /\ init_seqno' = [init_seqno EXCEPT ![e] = IF rx_tot_[e] = 0 THEN carries[p] ELSE @]
         /\ loss_ratio_' = [loss_ratio_ EXCEPT ![e] =
               [lost |-> (carries[p] - init_seqno'[e] + 1) - (rx_tot_[e] + 1),
                of |-> carries[p] - init_seqno'[e] + 1]]
         /\ got' = [got EXCEPT ![e] = Append(@, [no |-> carries[p], delay |-> delay])]
         /\ up' = [up EXCEPT ![e] = Append(@, p)]
         /\ UNCHANGED <<taken, carries, seqno>>
<1>. DEFINE init == IF rx_tot_[e] + 1 = 1 THEN carries[p] ELSE init_seqno[e]
<1>1. rx_tot_[e] \in Nat /\ init_seqno \in [Ends -> Nat]
  BY DEF TypeOK
<1>2. rx_tot_' = [rx_tot_ EXCEPT ![e] = rx_tot_[e] + 1]
  BY DEF ProcessData
<1>3. /\ init_seqno' = [init_seqno EXCEPT ![e] = init]
      /\ loss_ratio_' = [loss_ratio_ EXCEPT ![e] =
            [lost |-> (carries[p] - init + 1) - (rx_tot_[e] + 1), of |-> carries[p] - init + 1]]
  <2>1. init_seqno' = [init_seqno EXCEPT ![e] = init]
    BY DEF ProcessData
  <2>2. loss_ratio_' = [loss_ratio_ EXCEPT ![e] =
            [lost |-> (carries[p] - init + 1) - (rx_tot_[e] + 1), of |-> carries[p] - init + 1]]
    BY DEF ProcessData, SentEstimate
  <2>3. QED
    BY <2>1, <2>2
<1>4. init = IF rx_tot_[e] = 0 THEN carries[p] ELSE init_seqno[e]
  BY <1>1
<1>. HIDE DEF init
<1>5. init_seqno'[e] = init
  BY <1>1, <1>3
<1>6. loss_ratio_' = [loss_ratio_ EXCEPT ![e] =
               [lost |-> (carries[p] - init_seqno'[e] + 1) - (rx_tot_[e] + 1),
                of |-> carries[p] - init_seqno'[e] + 1]]
  BY <1>3, <1>5
<1>7. QED
  BY <1>2, <1>3, <1>4, <1>6 DEF ProcessData, Arrive, source

LEMMA TypeStep == ASSUME IntegerScore PROVE TypeOK /\ [CallNext]_vars => TypeOK'
<1>. SUFFICES ASSUME TypeOK, [CallNext]_vars PROVE TypeOK'
  OBVIOUS
<1>1. ASSUME NEW e \in Ends, NEW n \in BurstLengths, Start(e, n) PROVE TypeOK'
  <2>1. NextInterval(0, n) \in Nat
    BY CallAssumption DEF NextInterval
  <2>2. QED
    BY <1>1, <2>1 DEF Start, Reset, link, TypeOK
<1>2. ASSUME NEW e \in Ends, NEW n \in BurstLengths, Timeout(e, n) PROVE TypeOK'
  <2>1. NextInterval(rem_[e], n) \in Nat /\ seqno[e] \in Nat
    BY CallAssumption DEF NextInterval, TypeOK
  <2>2. rem_' \in [Ends -> Nat] /\ seqno' \in [Ends -> Nat]
    BY <1>2, <2>1 DEF Timeout, TypeOK
  <2>3. taken' \in Seq(Header) /\ carries' \in [DOMAIN taken' -> Nat]
    <3>1. CASE UNCHANGED <<link, carries>>
      BY <3>1 DEF link, TypeOK
    <3>2. CASE /\ Take([dst |-> Other(e), flow |-> e])
               /\ carries' = Append(carries, seqno[e])
      <4>1. [dst |-> Other(e), flow |-> e] \in Header
        BY OtherEnd, CallAssumption DEF Header
      <4>2. carries \in Seq(Nat) /\ Len(carries) = Len(taken) /\ taken \in Seq(Header)
        <5>1. taken \in Seq(Header) /\ carries \in [1 .. Len(taken) -> Nat] /\ Len(taken) \in Nat
          BY DEF TypeOK
        <5>2. QED
          BY <5>1
      <4>3. taken' \in Seq(Header) /\ Len(taken') = Len(taken) + 1
        BY <3>2, <4>1, <4>2 DEF Take
      <4>4. carries' \in Seq(Nat) /\ Len(carries') = Len(taken) + 1
        BY <2>1, <3>2, <4>2
      <4>5. QED
        BY <4>3, <4>4
    <3>3. QED
      BY <1>2, <3>1, <3>2 DEF Timeout
  <2>4. QED
    BY <1>2, <2>2, <2>3 DEF Timeout, estimate, TypeOK
<1>3. ASSUME NEW e \in Ends, Stop(e) PROVE TypeOK'
  BY <1>3 DEF Stop, link, estimate, TypeOK
<1>4. ASSUME NEW e \in Ends, Reset(e), UNCHANGED <<running_, rem_>> PROVE TypeOK'
  BY <1>4 DEF Reset, link, TypeOK
<1>5. ASSUME NEW e \in Ends, NEW p \in DOMAIN taken, NEW delay \in Delays, ProcessData(e, p, delay)
      PROVE  TypeOK'
  <2>1. carries[p] \in Nat /\ rx_tot_[e] \in Nat
    BY TakenType DEF TypeOK
  <2>2. rx_tot_' \in [Ends -> Nat] /\ init_seqno' \in [Ends -> Nat]
    <3>. DEFINE tot == rx_tot_[e] + 1
                init == IF rx_tot_[e] = 0 THEN carries[p] ELSE init_seqno[e]
    <3>1. rx_tot_' = [rx_tot_ EXCEPT ![e] = tot] /\ init_seqno' = [init_seqno EXCEPT ![e] = init]
      BY <1>5, ProcessDataStep
    <3>2. tot \in Nat /\ init \in Nat
      BY <2>1 DEF TypeOK
    <3>. HIDE DEF tot, init
    <3>3. QED
      BY <3>1, <3>2 DEF TypeOK
  <2>3. init_seqno'[e] \in Nat
    BY <2>2
  <2>4. loss_ratio_' \in [Ends -> Ratio]
    <3>. DEFINE r == [lost |-> (carries[p] - init_seqno'[e] + 1) - (rx_tot_[e] + 1),
                      of |-> carries[p] - init_seqno'[e] + 1]
    <3>1. loss_ratio_' = [loss_ratio_ EXCEPT ![e] = r]
      BY <1>5, ProcessDataStep
    <3>2. r \in Ratio
      BY <2>1, <2>3 DEF Ratio
    <3>. HIDE DEF r
    <3>3. QED
      BY <3>1, <3>2 DEF TypeOK
  <2>5. dd_buf' \in [Ends -> [0 .. MAX_D_SAMP - 1 -> Delays \cup {0}]]
    BY <1>5 DEF ProcessData, TypeOK
  <2>6. QED
    BY <1>5, <2>2, <2>4, <2>5, ProcessDataStep DEF ProcessData, source, TypeOK
<1>6. ASSUME NEW e \in Ends, UpdateScore(e) PROVE TypeOK'
  <2>1. UNCHANGED <<link, carries, source, estimate, got>>
        /\ scored' \in [Ends -> BOOLEAN]
    BY <1>6 DEF UpdateScore, TypeOK
  <2>2. QED
    BY <1>6, <2>1, ScoreType DEF link, source, estimate, TypeOK
<1>7. CASE UNCHANGED vars
  BY <1>7 DEF vars, link, source, estimate, TypeOK
<1>8. QED
  BY <1>1, <1>2, <1>3, <1>4, <1>5, <1>6, <1>7 DEF CallNext

-----------------------------------------------------------------------------
(* The numbers of the packets                                              *)

\* Nothing is taken by the link but in timeout().
LEMMA NumberedStep == TypeOK /\ Numbered /\ [CallNext]_vars => Numbered'
<1>. SUFFICES ASSUME TypeOK, Numbered, [CallNext]_vars PROVE Numbered'
  OBVIOUS
<1>1. ASSUME UNCHANGED <<taken, carries, seqno>> PROVE Numbered'
  BY <1>1 DEF Numbered
<1>2. ASSUME NEW e \in Ends, NEW n \in BurstLengths, Timeout(e, n) PROVE Numbered'
  <2>1. seqno' = [seqno EXCEPT ![e] = @ + 1] /\ seqno \in [Ends -> Nat]
    BY <1>2 DEF Timeout, TypeOK
  <2>2. \A p \in DOMAIN taken : /\ seqno'[taken[p].flow] >= seqno[taken[p].flow]
                                /\ seqno[taken[p].flow] \in Nat /\ seqno'[taken[p].flow] \in Nat
    BY <2>1, TakenType
  <2>3. CASE UNCHANGED <<taken, carries>>
    <3>1. \A p \in DOMAIN taken : carries[p] < seqno'[taken[p].flow]
      BY <2>2, TakenType DEF Numbered
    <3>2. QED
      BY <2>3, <3>1 DEF Numbered
  <2>4. CASE /\ taken' = Append(taken, [dst |-> Other(e), flow |-> e])
             /\ carries' = Append(carries, seqno[e])
    <3>. DEFINE n1 == Len(taken) + 1
    <3>1. /\ taken \in Seq(Header) /\ carries \in Seq(Nat) /\ Len(carries) = Len(taken)
          /\ Len(taken) \in Nat /\ seqno[e] \in Nat
      <4>1. taken \in Seq(Header) /\ carries \in [1 .. Len(taken) -> Nat] /\ Len(taken) \in Nat
        BY DEF TypeOK
      <4>2. QED
        BY <2>1, <4>1
    <3>2. /\ DOMAIN taken' = 1 .. n1 /\ DOMAIN taken = 1 .. Len(taken)
          /\ taken'[n1] = [dst |-> Other(e), flow |-> e] /\ carries'[n1] = seqno[e]
      BY <2>4, <3>1
    <3>3. \A p \in DOMAIN taken : taken'[p] = taken[p] /\ carries'[p] = carries[p]
      BY <2>4, <3>1
    <3>4. \A p \in DOMAIN taken' : p = n1 \/ p \in DOMAIN taken
      BY <3>1, <3>2
    <3>5. \A p \in DOMAIN taken' : /\ taken'[p].dst = Other(taken'[p].flow)
                                   /\ carries'[p] < seqno'[taken'[p].flow]
      <4>1. SUFFICES ASSUME NEW p \in DOMAIN taken'
                     PROVE  /\ taken'[p].dst = Other(taken'[p].flow)
                            /\ carries'[p] < seqno'[taken'[p].flow]
        OBVIOUS
      <4>2. CASE p = n1
        BY <2>1, <3>1, <3>2, <4>2
      <4>3. CASE p \in DOMAIN taken
        BY <2>2, <3>3, <4>3, TakenType DEF Numbered
      <4>4. QED
        BY <3>4, <4>2, <4>3
    <3>6. ASSUME NEW p \in DOMAIN taken', NEW q \in DOMAIN taken', p < q,
                 taken'[p].flow = taken'[q].flow
          PROVE  carries'[p] < carries'[q]
      <4>1. p \in DOMAIN taken
        BY <3>1, <3>2, <3>6
      <4>2. CASE q = n1
        BY <3>2, <3>3, <3>6, <4>1, <4>2 DEF Numbered
      <4>3. CASE q \in DOMAIN taken
        BY <3>3, <3>6, <4>1, <4>3 DEF Numbered
      <4>4. QED
        BY <3>4, <4>2, <4>3
    <3>7. QED
      BY <3>5, <3>6 DEF Numbered
  <2>5. QED
    BY <1>2, <2>3, <2>4 DEF Timeout, Take, link
<1>3. QED
  BY <1>1, <1>2, ZenonT(40) DEF CallNext, Start, Stop, Reset, ProcessData, Arrive, UpdateScore, vars, link, source

\* A packet that is passed up was taken after those before: the link keeps the order.
LEMMA OrderedStep == TypeOK /\ Numbered /\ Ordered /\ [CallNext]_vars => Ordered'
<1>. SUFFICES ASSUME TypeOK, Numbered, Ordered, [CallNext]_vars PROVE Ordered'
  OBVIOUS
<1>1. ASSUME UNCHANGED <<taken, up>> PROVE Ordered'
  BY <1>1 DEF Ordered
<1>2. ASSUME NEW h \in Header, taken' = Append(taken, h), UNCHANGED up PROVE Ordered'
  <2>1. \A p \in DOMAIN taken : p \in DOMAIN taken' /\ taken'[p] = taken[p]
    BY <1>2 DEF TypeOK
  <2>2. QED
    BY <1>2, <2>1 DEF Ordered
<1>3. ASSUME NEW e \in Ends, NEW n \in BurstLengths, Timeout(e, n) PROVE Ordered'
  <2>1. [dst |-> Other(e), flow |-> e] \in Header
    BY OtherEnd, CallAssumption DEF Header
  <2>2. QED
    BY <1>1, <1>2, <1>3, <2>1 DEF Timeout, Take, link
<1>4. ASSUME NEW e \in Ends, NEW p \in DOMAIN taken, NEW delay \in Delays, ProcessData(e, p, delay)
      PROVE  Ordered'
  <2>. DEFINE n == Len(up[e])
              s == Append(up[e], p)
  <2>1. up' = [up EXCEPT ![e] = s] /\ taken' = taken /\ up \in [Ends -> Seq(Nat)]
    BY <1>4, ProcessDataStep DEF Ordered
  <2>2. p \in Nat /\ n \in Nat /\ up[e] \in Seq(Nat)
    BY <2>1 DEF TypeOK
  <2>3. s \in Seq(Nat) /\ DOMAIN s = 1 .. n + 1 /\ DOMAIN up[e] = 1 .. n /\ s[n + 1] = p
        /\ \A j \in DOMAIN up[e] : s[j] = up[e][j]
    BY <2>2
  <2>. HIDE DEF s, n
  <2>4. up'[e] = s /\ (\A d \in Ends \ {e} : up'[d] = up[d]) /\ up' \in [Ends -> Seq(Nat)]
    BY <2>1, <2>3
  <2>5. /\ \A x \in Range(s) : taken[x].flow \in Kept => taken[x].dst = e
        /\ FlowsInOrder(s)
    <3>1. \A d \in Stations : /\ \A x \in Range(up'[d]) : taken[x].flow \in Kept => taken[x].dst = d
                              /\ FlowsInOrder(up'[d])
      BY <1>4 DEF ProcessData, Arrive
    <3>2. e \in Stations
      BY CallAssumption
    <3>3. QED
      BY <2>4, <3>1, <3>2
  <2>6. \A j \in DOMAIN s : s[j] \in DOMAIN taken /\ taken[s[j]].dst = e
    <3>1. \A j \in DOMAIN s : s[j] \in Range(s)
      BY DEF Range
    <3>2. \A j \in DOMAIN s : s[j] \in DOMAIN taken
      BY <2>2, <2>3 DEF Ordered
    <3>3. \A j \in DOMAIN s : taken[s[j]].flow \in Kept
      BY <3>2, TakenType
    <3>4. QED
      BY <2>5, <3>1, <3>2, <3>3
  <2>7. \A j, k \in DOMAIN s : j < k => s[j] < s[k]
    <3>1. SUFFICES ASSUME NEW j \in DOMAIN s, NEW k \in DOMAIN s, j < k PROVE s[j] < s[k]
      OBVIOUS
    <3>2. taken[s[j]].flow = taken[s[k]].flow
      BY <2>6, SameFlow
    <3>3. taken[s[j]].flow \in Kept
      BY <2>6, TakenType
    <3>4. QED
      BY <2>5, <3>1, <3>2, <3>3 DEF FlowsInOrder
  <2>8. QED
    BY <2>1, <2>4, <2>6, <2>7 DEF Ordered
<1>5. QED
  BY <1>1, <1>3, <1>4 DEF CallNext, Start, Stop, Reset, UpdateScore, vars, link

\* A reset forgets what was received, at one end.
LEMMA ResetStep ==
  ASSUME TypeOK, Received, NEW e \in Ends, Reset(e)
  PROVE  /\ rx_tot_'[e] = 0 /\ got'[e] = << >> /\ got' \in [Ends -> Seq(Packet)]
         /\ \A d \in Ends \ {e} : rx_tot_'[d] = rx_tot_[d] /\ got'[d] = got[d]
         /\ UNCHANGED <<up, taken, carries, init_seqno, loss_ratio_>>
<1>1. << >> \in Seq(Packet)
  OBVIOUS
<1>2. QED
  BY <1>1 DEF Reset, link, TypeOK, Received

LEMMA ReceivedStep == TypeOK /\ Ordered /\ Received /\ [CallNext]_vars => Received'
<1>. SUFFICES ASSUME TypeOK, Ordered, Received, [CallNext]_vars PROVE Received'
  OBVIOUS
<1>1. ASSUME UNCHANGED <<up, got, rx_tot_>>,
             \A p \in DOMAIN taken : carries'[p] = carries[p]
      PROVE  Received'
  <2>1. \A e \in Ends : \A k \in 1 .. rx_tot_[e] :
           /\ Len(up[e]) - rx_tot_[e] + k \in DOMAIN up[e]
           /\ up[e][Len(up[e]) - rx_tot_[e] + k] \in DOMAIN taken
    <3>1. TAKE e \in Ends
    <3>2. TAKE k \in 1 .. rx_tot_[e]
    <3>3. rx_tot_[e] \in Nat /\ rx_tot_[e] <= Len(up[e]) /\ up[e] \in Seq(Nat)
      BY DEF TypeOK, Ordered, Received
    <3>4. Len(up[e]) - rx_tot_[e] + k \in DOMAIN up[e]
      BY <3>3
    <3>5. QED
      BY <3>4 DEF Ordered
  <2>2. ASSUME NEW e \in Ends, NEW k \in 1 .. rx_tot_[e]
        PROVE  got[e][k].no = carries'[up[e][Len(up[e]) - rx_tot_[e] + k]]
    BY <1>1, <2>1 DEF Received
  <2>3. QED
    BY <1>1, <2>2 DEF Received
<1>2. ASSUME NEW e \in Ends, Reset(e) PROVE Received'
  <2>1. Len(<< >>) = 0 /\ Len(up[e]) \in Nat
    BY DEF Ordered
  <2>2. ASSUME NEW d \in Ends
        PROVE  /\ Len(got'[d]) = rx_tot_'[d] /\ rx_tot_'[d] <= Len(up'[d])
               /\ \A k \in 1 .. rx_tot_'[d] :
                     got'[d][k].no = carries'[up'[d][Len(up'[d]) - rx_tot_'[d] + k]]
    <3>1. CASE d = e
      BY <1>2, <2>1, <3>1, ResetStep
    <3>2. CASE d # e
      <4>1. rx_tot_'[d] = rx_tot_[d] /\ got'[d] = got[d] /\ up' = up /\ carries' = carries
        BY <1>2, <3>2, ResetStep
      <4>2. QED
        BY <4>1 DEF Received
    <3>3. QED
      BY <3>1, <3>2
  <2>3. QED
    BY <1>2, <2>2, ResetStep DEF Received
<1>3. ASSUME NEW e \in Ends, NEW n \in BurstLengths, Timeout(e, n) PROVE Received'
  <2>1. \A p \in DOMAIN taken : carries'[p] = carries[p]
    <3>1. carries \in Seq(Nat) /\ DOMAIN carries = DOMAIN taken
      <4>1. taken \in Seq(Header) /\ carries \in [1 .. Len(taken) -> Nat] /\ Len(taken) \in Nat
        BY DEF TypeOK
      <4>2. QED
        BY <4>1
    <3>2. carries' = carries \/ carries' = Append(carries, seqno[e])
      BY <1>3 DEF Timeout
    <3>3. QED
      BY <3>1, <3>2, SMTT(30)
  <2>2. QED
    BY <1>1, <1>3, <2>1 DEF Timeout, Take, link, estimate
<1>4. ASSUME NEW e \in Ends, NEW p \in DOMAIN taken, NEW delay \in Delays, ProcessData(e, p, delay)
      PROVE  Received'
  <2>. DEFINE n == Len(up[e])
              r == rx_tot_[e]
              g == Append(got[e], [no |-> carries[p], delay |-> delay])
              s == Append(up[e], p)
  <2>1. /\ rx_tot_' = [rx_tot_ EXCEPT ![e] = r + 1] /\ got' = [got EXCEPT ![e] = g]
        /\ up' = [up EXCEPT ![e] = s] /\ carries' = carries
    BY <1>4, ProcessDataStep
  <2>2. n \in Nat /\ r \in Nat /\ r <= n /\ Len(got[e]) = r
        /\ got[e] \in Seq(Packet) /\ up[e] \in Seq(Nat)
    BY DEF TypeOK, Ordered, Received
  <2>3. [no |-> carries[p], delay |-> delay] \in Packet
    BY TakenType, CallAssumption DEF Packet
  <2>4. /\ g \in Seq(Packet) /\ Len(g) = r + 1 /\ g[r + 1].no = carries[p]
        /\ \A k \in 1 .. r : g[k] = got[e][k]
    BY <2>2, <2>3
  <2>5. Len(s) = n + 1 /\ s[n + 1] = p /\ \A j \in 1 .. n : s[j] = up[e][j]
    BY <2>2
  <2>6. \A k \in 1 .. r : got[e][k].no = carries[up[e][n - r + k]] /\ n - r + k \in 1 .. n
    BY <2>2, SMTT(30) DEF Received
  <2>. HIDE DEF n, r, g, s
  <2>7. \A k \in 1 .. r + 1 : g[k].no = carries[s[(n + 1) - (r + 1) + k]]
    <3>1. SUFFICES ASSUME NEW k \in 1 .. r + 1 PROVE g[k].no = carries[s[(n + 1) - (r + 1) + k]]
      OBVIOUS
    <3>2. (n + 1) - (r + 1) + k = n - r + k
      BY <2>2
    <3>3. CASE k = r + 1
      <4>1. n - r + k = n + 1
        BY <2>2, <3>3
      <4>2. QED
        BY <2>4, <2>5, <3>2, <3>3, <4>1
    <3>4. CASE k # r + 1
      <4>1. k \in 1 .. r
        BY <2>2, <3>4
      <4>2. QED
        BY <2>4, <2>5, <2>6, <3>2, <4>1
    <3>5. QED
      BY <3>3, <3>4
  <2>8. r + 1 <= n + 1
    BY <2>2
  <2>9. /\ rx_tot_'[e] = r + 1 /\ got'[e] = g /\ up'[e] = s
        /\ \A d \in Ends \ {e} : rx_tot_'[d] = rx_tot_[d] /\ got'[d] = got[d] /\ up'[d] = up[d]
        /\ got' \in [Ends -> Seq(Packet)]
    BY <2>1, <2>4 DEF TypeOK, Received, Ordered
  <2>10. ASSUME NEW d \in Ends
         PROVE  /\ Len(got'[d]) = rx_tot_'[d] /\ rx_tot_'[d] <= Len(up'[d])
                /\ \A k \in 1 .. rx_tot_'[d] :
                      got'[d][k].no = carries'[up'[d][Len(up'[d]) - rx_tot_'[d] + k]]
    <3>1. CASE d = e
      BY <2>1, <2>4, <2>5, <2>7, <2>8, <2>9, <3>1
    <3>2. CASE d # e
      BY <2>1, <2>9, <3>2 DEF Received
    <3>3. QED
      BY <3>1, <3>2
  <2>11. QED
    BY <2>9, <2>10 DEF Received
<1>5. QED
  BY <1>1, <1>2, <1>3, <1>4
     DEF CallNext, Start, Stop, UpdateScore, vars, link, estimate

LEMMA MeasuredStep == TypeOK /\ Received /\ Measured /\ [CallNext]_vars => Measured'
<1>. SUFFICES ASSUME TypeOK, Received, Measured, [CallNext]_vars PROVE Measured'
  OBVIOUS
<1>1. ASSUME UNCHANGED <<got, rx_tot_, init_seqno, loss_ratio_>> PROVE Measured'
  BY <1>1 DEF Measured, Span
<1>2. ASSUME NEW e \in Ends, Reset(e) PROVE Measured'
  <2>1. SUFFICES ASSUME NEW d \in Ends, rx_tot_'[d] > 0
                 PROVE  /\ init_seqno'[d] = got'[d][1].no
                        /\ loss_ratio_'[d] = [lost |-> Span(d) - rx_tot_[d], of |-> Span(d)]'
    BY DEF Measured
  <2>2. d # e
    BY <1>2, <2>1, ResetStep
  <2>3. QED
    BY <1>2, <2>1, <2>2, ResetStep DEF Measured, Span
<1>3. ASSUME NEW e \in Ends, NEW p \in DOMAIN taken, NEW delay \in Delays, ProcessData(e, p, delay)
      PROVE  Measured'
  <2>. DEFINE r == rx_tot_[e]
              g == Append(got[e], [no |-> carries[p], delay |-> delay])
              init == IF r = 0 THEN carries[p] ELSE init_seqno[e]
              ratio == [lost |-> (carries[p] - init_seqno'[e] + 1) - (r + 1),
                        of |-> carries[p] - init_seqno'[e] + 1]
  <2>1. /\ rx_tot_' = [rx_tot_ EXCEPT ![e] = r + 1] /\ got' = [got EXCEPT ![e] = g]
        /\ init_seqno' = [init_seqno EXCEPT ![e] = init]
        /\ loss_ratio_' = [loss_ratio_ EXCEPT ![e] = ratio]
    BY <1>3, ProcessDataStep
  <2>2. r \in Nat /\ Len(got[e]) = r /\ got[e] \in Seq(Packet)
    BY DEF TypeOK, Received
  <2>3. g[r + 1].no = carries[p] /\ \A k \in 1 .. r : g[k] = got[e][k]
    BY <2>2
  <2>4. init = g[1].no
    <3>1. CASE r = 0
      BY <2>3, <3>1
    <3>2. CASE r > 0
      <4>1. init_seqno[e] = got[e][1].no /\ 1 \in 1 .. r
        <5>1. rx_tot_[e] > 0 /\ 1 \in 1 .. r
          BY <2>2, <3>2
        <5>2. QED
          BY <5>1 DEF Measured
      <4>2. QED
        BY <2>3, <3>2, <4>1
    <3>3. QED
      BY <2>2, <3>1, <3>2
  <2>. HIDE DEF r, g, init
  <2>5. /\ rx_tot_'[e] = r + 1 /\ got'[e] = g /\ init_seqno'[e] = init
        /\ \A d \in Ends \ {e} : /\ rx_tot_'[d] = rx_tot_[d] /\ got'[d] = got[d]
                                 /\ init_seqno'[d] = init_seqno[d]
    BY <2>1 DEF TypeOK, Received
  <2>6. loss_ratio_'[e] = ratio /\ \A d \in Ends \ {e} : loss_ratio_'[d] = loss_ratio_[d]
    <3>. HIDE DEF ratio
    <3>1. QED
      BY <2>1 DEF TypeOK
  <2>7. ratio = [lost |-> (g[r + 1].no - g[1].no + 1) - (r + 1), of |-> g[r + 1].no - g[1].no + 1]
    BY <2>3, <2>4, <2>5
  <2>8. SUFFICES ASSUME NEW d \in Ends, rx_tot_'[d] > 0
                 PROVE  /\ init_seqno'[d] = got'[d][1].no
                        /\ loss_ratio_'[d] = [lost |-> Span(d) - rx_tot_[d], of |-> Span(d)]'
    BY DEF Measured
  <2>9. CASE d = e
    BY <2>4, <2>5, <2>6, <2>7, <2>9 DEF Span
  <2>10. CASE d # e
    BY <2>5, <2>6, <2>8, <2>10 DEF Measured, Span
  <2>11. QED
    BY <2>9, <2>10
<1>4. QED
  BY <1>1, <1>2, <1>3 DEF CallNext, Start, Stop, Timeout, UpdateScore, vars, estimate

-----------------------------------------------------------------------------
(* Counting                                                                *)

\* Of the numbers from the first to the last of n that grow, all but n are missing.
LEMMA MissingCounted ==
  ASSUME NEW n \in Nat \ {0}, NEW g \in [1 .. n -> Int],
         \A j, k \in 1 .. n : j < k => g[j] < g[k]
  PROVE  LET asked == g[1] .. g[n]
             numbers == {g[k] : k \in 1 .. n}
         IN  /\ Cardinality(asked) = g[n] - g[1] + 1
             /\ Cardinality(asked \ numbers) = (g[n] - g[1] + 1) - n
<1>. DEFINE asked == g[1] .. g[n]
            numbers == {g[k] : k \in 1 .. n}
<1>1. 1 \in 1 .. n /\ n \in 1 .. n /\ g[1] \in Int /\ g[n] \in Int /\ g[1] <= g[n]
  <2>1. 1 \in 1 .. n /\ n \in 1 .. n
    OBVIOUS
  <2>2. n = 1 \/ 1 < n
    OBVIOUS
  <2>3. QED
    BY <2>1, <2>2
<1>2. IsFiniteSet(asked) /\ Cardinality(asked) = g[n] - g[1] + 1
  <2>1. IsFiniteSet(asked)
        /\ Cardinality(asked) = IF g[1] > g[n] THEN 0 ELSE g[n] - g[1] + 1
    BY <1>1, FS_Interval
  <2>2. QED
    BY <1>1, <2>1
<1>3. numbers \subseteq asked
  <2>1. SUFFICES ASSUME NEW k \in 1 .. n PROVE g[k] \in asked
    OBVIOUS
  <2>2. (k = 1 \/ 1 < k) /\ (k = n \/ k < n)
    OBVIOUS
  <2>3. g[k] \in Int /\ g[1] <= g[k] /\ g[k] <= g[n]
    BY <1>1, <2>2
  <2>4. QED
    BY <1>1, <2>3
<1>4. Cardinality(numbers) = n
  <2>1. g \in Bijection(1 .. n, numbers)
    <3>1. \A j, k \in 1 .. n : g[j] = g[k] => j = k
      <4>1. \A j, k \in 1 .. n : j < k \/ k < j \/ j = k
        OBVIOUS
      <4>2. \A j \in 1 .. n : g[j] \in Int
        OBVIOUS
      <4>3. QED
        BY <4>1, <4>2
    <3>2. g \in [1 .. n -> numbers]
      OBVIOUS
    <3>3. QED
      BY <3>1, <3>2 DEF Bijection, Injection, Surjection, IsInjective
  <2>2. ExistsBijection(1 .. n, numbers)
    BY <2>1 DEF ExistsBijection
  <2>3. QED
    BY <2>2, FS_CountingElements
<1>5. Cardinality(asked \ numbers) = Cardinality(asked) - Cardinality(asked \cap numbers)
  BY <1>2, FS_Difference
<1>6. asked \cap numbers = numbers
  BY <1>3
<1>7. QED
  BY <1>2, <1>4, <1>5, <1>6

LEMMA LossCounted ==
  ASSUME CallInv, NEW e \in Ends, rx_tot_[e] > 0
  PROVE  LET numbers == {got[e][k].no : k \in DOMAIN got[e]}
             asked == got[e][1].no .. Last(got[e]).no
         IN  loss_ratio_[e] = [lost |-> Cardinality(asked \ numbers), of |-> Cardinality(asked)]
<1>. DEFINE n == rx_tot_[e]
            g == [k \in 1 .. n |-> got[e][k].no]
<1>1. n \in Nat \ {0} /\ got[e] \in Seq(Packet) /\ Len(got[e]) = n /\ DOMAIN got[e] = 1 .. n
  BY DEF CallInv, TypeOK, Received
<1>2. g \in [1 .. n -> Int]
  <2>1. \A k \in 1 .. n : got[e][k] \in Packet
    BY <1>1
  <2>2. \A k \in 1 .. n : got[e][k].no \in Int
    BY <2>1 DEF Packet
  <2>3. QED
    BY <2>2
<1>3. \A j, k \in 1 .. n : j < k => g[j] < g[k]
  <2>1. SUFFICES ASSUME NEW j \in 1 .. n, NEW k \in 1 .. n, j < k PROVE g[j] < g[k]
    OBVIOUS
  <2>. DEFINE at(m) == Len(up[e]) - n + m
  <2>2. up[e] \in Seq(Nat) /\ n <= Len(up[e])
    BY DEF CallInv, Ordered, Received
  <2>3. at(j) \in DOMAIN up[e] /\ at(k) \in DOMAIN up[e] /\ at(j) < at(k)
    <3>1. Len(up[e]) \in Nat /\ j \in Int /\ k \in Int /\ n \in Nat
      BY <1>1, <2>2
    <3>2. DOMAIN up[e] = 1 .. Len(up[e])
      BY <2>2
    <3>. HIDE DEF n
    <3>3. QED
      BY <2>1, <2>2, <3>1, <3>2
  <2>4. g[j] = carries[up[e][at(j)]] /\ g[k] = carries[up[e][at(k)]]
    BY DEF CallInv, Received
  <2>. HIDE DEF at, g
  <2>5. /\ up[e][at(j)] \in DOMAIN taken /\ up[e][at(k)] \in DOMAIN taken
        /\ up[e][at(j)] < up[e][at(k)]
        /\ taken[up[e][at(j)]].dst = taken[up[e][at(k)]].dst
    BY <2>3 DEF CallInv, Ordered
  <2>6. taken[up[e][at(j)]].flow = taken[up[e][at(k)]].flow
    BY <2>5, SameFlow DEF CallInv
  <2>7. QED
    BY <2>4, <2>5, <2>6 DEF CallInv, Numbered
<1>4. {got[e][k].no : k \in DOMAIN got[e]} = {g[k] : k \in 1 .. n}
  BY <1>1
<1>5. got[e][1].no = g[1] /\ Last(got[e]).no = g[n]
  BY <1>1 DEF Last
<1>6. loss_ratio_[e] = [lost |-> (g[n] - g[1] + 1) - n, of |-> g[n] - g[1] + 1]
  BY <1>1 DEF CallInv, Measured, Span
<1>. HIDE DEF n, g
<1>7. /\ Cardinality(g[1] .. g[n]) = g[n] - g[1] + 1
      /\ Cardinality((g[1] .. g[n]) \ {g[k] : k \in 1 .. n}) = (g[n] - g[1] + 1) - n
  BY <1>1, <1>2, <1>3, MissingCounted
<1>8. QED
  BY <1>4, <1>5, <1>6, <1>7

-----------------------------------------------------------------------------
(* The buffer of delays                                                    *)

\* The first n elements of s are those of t in another order.
Rearranged(s, t, n) ==
    \E p \in [1 .. n -> 1 .. n] :
        /\ \A i, j \in 1 .. n : p[i] = p[j] => i = j
        /\ \A k \in 1 .. n : \E i \in 1 .. n : p[i] = k
        /\ \A i \in 1 .. n : s[i] = t[p[i]]

Buffered(e) == [i \in 1 .. Samples(e) |-> dd_buf[e][i - 1]]

\* Until it wraps the buffer holds the delays received since the last reset, in the
\* order of sort() if that was called; until it is sorted it holds the last of them, in turn.
Filled(e) ==
    rx_tot_[e] <= MAX_D_SAMP =>
        Rearranged([i \in 1 .. rx_tot_[e] |-> dd_buf[e][i - 1]],
                   [i \in 1 .. rx_tot_[e] |-> got[e][i].delay], rx_tot_[e])
InTurn(e) ==
    ~scored[e] => \A k \in 0 .. rx_tot_[e] - 1 : (rx_tot_[e] - MAX_D_SAMP <= k) =>
                      dd_buf[e][k % MAX_D_SAMP] = got[e][k + 1].delay

BufferInv ==
    /\ \A e \in Ends : seqno[e] <= MaxPackets[e]
    /\ \A e \in Ends : Filled(e) /\ InTurn(e)

LEMMA RearrangedBack ==
  ASSUME NEW n \in Nat, NEW s, NEW t, Rearranged(s, t, n)
  PROVE  Rearranged(t, s, n)
<1>1. PICK p \in [1 .. n -> 1 .. n] :
        /\ \A i, j \in 1 .. n : p[i] = p[j] => i = j
        /\ \A k \in 1 .. n : \E i \in 1 .. n : p[i] = k
        /\ \A i \in 1 .. n : s[i] = t[p[i]]
  BY DEF Rearranged
<1>. DEFINE q == [k \in 1 .. n |-> CHOOSE i \in 1 .. n : p[i] = k]
<1>2. \A k \in 1 .. n : q[k] \in 1 .. n /\ p[q[k]] = k
  BY <1>1
<1>3. q \in [1 .. n -> 1 .. n]
  BY <1>2
<1>. HIDE DEF q
<1>4. \A i, j \in 1 .. n : q[i] = q[j] => i = j
  BY <1>2
<1>5. \A k \in 1 .. n : q[p[k]] = k
  BY <1>1, <1>2
<1>6. \A k \in 1 .. n : \E i \in 1 .. n : q[i] = k
  BY <1>1, <1>5
<1>7. \A i \in 1 .. n : t[i] = s[q[i]]
  BY <1>1, <1>2
<1>8. QED
  BY <1>3, <1>4, <1>6, <1>7 DEF Rearranged

LEMMA RearrangedTwice ==
  ASSUME NEW n \in Nat, NEW s, NEW t, NEW u, Rearranged(s, t, n), Rearranged(t, u, n)
  PROVE  Rearranged(s, u, n)
<1>1. PICK p \in [1 .. n -> 1 .. n] :
        /\ \A i, j \in 1 .. n : p[i] = p[j] => i = j
        /\ \A k \in 1 .. n : \E i \in 1 .. n : p[i] = k
        /\ \A i \in 1 .. n : s[i] = t[p[i]]
  BY DEF Rearranged
<1>2. PICK q \in [1 .. n -> 1 .. n] :
        /\ \A i, j \in 1 .. n : q[i] = q[j] => i = j
        /\ \A k \in 1 .. n : \E i \in 1 .. n : q[i] = k
        /\ \A i \in 1 .. n : t[i] = u[q[i]]
  BY DEF Rearranged
<1>. DEFINE r == [i \in 1 .. n |-> q[p[i]]]
<1>3. \A i \in 1 .. n : p[i] \in 1 .. n /\ r[i] = q[p[i]]
  OBVIOUS
<1>4. r \in [1 .. n -> 1 .. n]
  BY <1>3
<1>. HIDE DEF r
<1>5. ASSUME NEW i \in 1 .. n, NEW j \in 1 .. n, r[i] = r[j] PROVE i = j
  <2>1. p[i] \in 1 .. n /\ p[j] \in 1 .. n /\ q[p[i]] = q[p[j]]
    BY <1>3, <1>5
  <2>2. p[i] = p[j]
    BY <1>2, <2>1, Zenon
  <2>3. QED
    BY <1>1, <2>2, Zenon
<1>6. \A k \in 1 .. n : \E i \in 1 .. n : r[i] = k
  <2>1. SUFFICES ASSUME NEW k \in 1 .. n PROVE \E i \in 1 .. n : r[i] = k
    OBVIOUS
  <2>2. PICK j \in 1 .. n : q[j] = k
    BY <1>2
  <2>3. PICK i \in 1 .. n : p[i] = j
    BY <1>1
  <2>4. QED
    BY <1>3, <2>2, <2>3
<1>7. ASSUME NEW i \in 1 .. n PROVE s[i] = u[r[i]]
  <2>1. s[i] = t[p[i]] /\ r[i] = q[p[i]] /\ p[i] \in 1 .. n
    BY <1>1, <1>3
  <2>2. QED
    BY <1>2, <2>1
<1>8. QED
  BY <1>4, <1>5, <1>6, <1>7 DEF Rearranged

Above(s, n, d) == {k \in 1 .. n : s[k] > d}

HasAll(t, s, n) == \A i \in 1 .. n : \E k \in 1 .. n : s[i] = t[k]

\* The values are the same, and as many are greater than d.
LEMMA SameValues ==
  ASSUME NEW n \in Nat, NEW s, NEW t, Rearranged(s, t, n)
  PROVE  HasAll(t, s, n)
BY DEF Rearranged, HasAll

LEMMA SameAbove ==
  ASSUME NEW n \in Nat, NEW s, NEW t, Rearranged(s, t, n), NEW d
  PROVE  Cardinality(Above(t, n, d)) = Cardinality(Above(s, n, d))
<1>1. PICK p \in [1 .. n -> 1 .. n] :
        /\ \A i, j \in 1 .. n : p[i] = p[j] => i = j
        /\ \A k \in 1 .. n : \E i \in 1 .. n : p[i] = k
        /\ \A i \in 1 .. n : s[i] = t[p[i]]
  BY DEF Rearranged
<1>. DEFINE S == {k \in 1 .. n : s[k] > d}
            T == {k \in 1 .. n : t[k] > d}
            f == [i \in S |-> p[i]]
<1>2. f \in [S -> T]
  BY <1>1
<1>3. \A i, j \in S : f[i] = f[j] => i = j
  BY <1>1
<1>4. \A k \in T : \E i \in S : f[i] = k
  <2>1. SUFFICES ASSUME NEW k \in 1 .. n, t[k] > d PROVE \E i \in S : f[i] = k
    OBVIOUS
  <2>2. PICK i \in 1 .. n : p[i] = k
    BY <1>1
  <2>3. i \in S
    BY <1>1, <2>1, <2>2
  <2>4. QED
    BY <2>2, <2>3
<1>5. IsFiniteSet(S)
  <2>1. IsFiniteSet(1 .. n) /\ S \subseteq 1 .. n
    BY FS_Interval
  <2>2. QED
    BY <2>1, FS_Subset
<1>. HIDE DEF S, T, f
<1>6. f \in Bijection(S, T)
  BY <1>2, <1>3, <1>4, Fun_IsBij
<1>7. ExistsBijection(S, T)
  BY <1>6, Fun_ExistsBij
<1>8. Cardinality(T) = Cardinality(S)
  BY <1>5, <1>7, FS_Bijection
<1>9. QED
  BY <1>8 DEF S, T, Above

LEMMA RearrangedMore ==
  ASSUME NEW n \in Nat, NEW s, NEW t, Rearranged(s, t, n), s[n + 1] = t[n + 1]
  PROVE  Rearranged(s, t, n + 1)
<1>1. PICK p \in [1 .. n -> 1 .. n] :
        /\ \A i, j \in 1 .. n : p[i] = p[j] => i = j
        /\ \A k \in 1 .. n : \E i \in 1 .. n : p[i] = k
        /\ \A i \in 1 .. n : s[i] = t[p[i]]
  BY DEF Rearranged
<1>. DEFINE q == [i \in 1 .. n + 1 |-> IF i = n + 1 THEN n + 1 ELSE p[i]]
<1>2. \A i \in 1 .. n + 1 : i = n + 1 \/ i \in 1 .. n
  OBVIOUS
<1>3. \A i \in 1 .. n : i \in 1 .. n + 1 /\ i # n + 1 /\ q[i] = p[i] /\ p[i] \in 1 .. n
                        /\ p[i] # n + 1 /\ p[i] \in 1 .. n + 1
  OBVIOUS
<1>4. n + 1 \in 1 .. n + 1 /\ q[n + 1] = n + 1
  OBVIOUS
<1>5. DOMAIN q = 1 .. n + 1 /\ q = [i \in 1 .. n + 1 |-> q[i]]
  OBVIOUS
<1>. HIDE DEF q
<1>6. \A i \in 1 .. n + 1 : q[i] \in 1 .. n + 1
  BY <1>2, <1>3, <1>4
<1>7. q \in [1 .. n + 1 -> 1 .. n + 1]
  BY <1>5, <1>6
<1>8. ASSUME NEW i \in 1 .. n + 1, NEW j \in 1 .. n + 1, q[i] = q[j] PROVE i = j
  <2>1. CASE i = n + 1
    BY <1>2, <1>3, <1>4, <1>8, <2>1
  <2>2. CASE j = n + 1
    BY <1>2, <1>3, <1>4, <1>8, <2>2
  <2>3. CASE i \in 1 .. n /\ j \in 1 .. n
    <3>1. p[i] = p[j]
      BY <1>3, <1>8, <2>3
    <3>2. QED
      BY <1>1, <2>3, <3>1, Zenon
  <2>4. QED
    BY <1>2, <2>1, <2>2, <2>3
<1>9. ASSUME NEW k \in 1 .. n + 1 PROVE \E i \in 1 .. n + 1 : q[i] = k
  <2>1. CASE k = n + 1
    BY <1>4, <2>1
  <2>2. CASE k \in 1 .. n
    <3>1. PICK i \in 1 .. n : p[i] = k
      BY <1>1, <2>2
    <3>2. i \in 1 .. n + 1 /\ q[i] = k
      BY <1>3, <3>1
    <3>3. QED
      BY <3>2
  <2>3. QED
    BY <1>2, <2>1, <2>2
<1>10. \A i \in 1 .. n + 1 : s[i] = t[q[i]]
  BY <1>1, <1>2, <1>3, <1>4
<1>11. QED
  BY <1>7, <1>8, <1>9, <1>10 DEF Rearranged

\* Rearranged() looks at the first n elements only.
LEMMA RearrangedSame ==
  ASSUME NEW n \in Nat, NEW s, NEW t, NEW u, NEW v, Rearranged(s, t, n),
         \A i \in 1 .. n : u[i] = s[i] /\ v[i] = t[i]
  PROVE  Rearranged(u, v, n)
<1>1. PICK p \in [1 .. n -> 1 .. n] :
        /\ \A i, j \in 1 .. n : p[i] = p[j] => i = j
        /\ \A k \in 1 .. n : \E i \in 1 .. n : p[i] = k
        /\ \A i \in 1 .. n : s[i] = t[p[i]]
  BY DEF Rearranged
<1>2. \A i \in 1 .. n : u[i] = v[p[i]]
  BY <1>1
<1>3. QED
  BY <1>1, <1>2 DEF Rearranged

\* Places that are given in turn, n - M to n - 1 modulo M, are all places.
LEMMA RingRearranged ==
  ASSUME NEW M \in Nat \ {0}, NEW n \in Nat, M <= n, NEW b, NEW g,
         \A k \in 0 .. n - 1 : (n - M <= k) => b[(k % M) + 1] = g[k + 1]
  PROVE  Rearranged([m \in 1 .. M |-> g[n - M + m]], b, M)
<1>. DEFINE p == [m \in 1 .. M |-> (((n - M + m) - 1) % M) + 1]
<1>1. \A m \in 1 .. M : /\ (n - M + m) - 1 \in 0 .. n - 1 /\ n - M <= (n - M + m) - 1
                        /\ (n - M + m) - 1 \in Int
  OBVIOUS
<1>2. \A m \in 1 .. M : ((n - M + m) - 1) % M \in 0 .. M - 1
  <2>1. \A z \in Int : z % M \in 0 .. M - 1
    OBVIOUS
  <2>2. QED
    BY <1>1, <2>1
<1>3. \A m \in 1 .. M : p[m] = (((n - M + m) - 1) % M) + 1 /\ p[m] \in 1 .. M
  BY <1>2
<1>4. p \in [1 .. M -> 1 .. M]
  BY <1>3
<1>. HIDE DEF p
<1>5. ASSUME NEW i \in 1 .. M, NEW j \in 1 .. M, p[i] = p[j], i <= j PROVE i = j
  <2>. DEFINE x == (n - M + i) - 1
              y == (n - M + j) - 1
  <2>1. x \in Int /\ y \in Int /\ x <= y /\ y - x < M /\ (x = y => i = j)
    BY <1>5
  <2>2. x % M = y % M
    BY <1>2, <1>3, <1>5
  <2>. HIDE DEF x, y
  <2>3. QED
    BY <2>1, <2>2, Congruent
<1>6. \A i, j \in 1 .. M : p[i] = p[j] => i = j
  <2>1. \A i, j \in 1 .. M : i <= j \/ j <= i
    OBVIOUS
  <2>2. QED
    BY <1>5, <2>1
<1>7. ASSUME NEW k \in 1 .. M PROVE \E m \in 1 .. M : p[m] = k
  <2>. DEFINE z == (k - 1) - (n - M)
              q == z \div M
              r == z % M
  <2>1. z = M * q + r /\ q \in Int /\ r \in 0 .. M - 1
    <3>1. z \in Int
      OBVIOUS
    <3>. HIDE DEF z
    <3>2. QED
      BY <3>1
  <2>. HIDE DEF q, r
  <2>2. (n - M + (r + 1)) - 1 = M * (-q) + (k - 1)
    <3>1. M * (-q) = -(M * q) /\ M * q \in Int
      BY <2>1
    <3>2. QED
      BY <2>1, <3>1
  <2>3. -q \in Int /\ k - 1 \in 0 .. M - 1 /\ r + 1 \in 1 .. M
    BY <2>1
  <2>4. ((n - M + (r + 1)) - 1) % M = k - 1
    <3>. DEFINE w == (n - M + (r + 1)) - 1
    <3>1. w \in Int
      BY <2>1
    <3>. HIDE DEF w
    <3>2. w = M * (-q) + (k - 1)
      BY <2>2 DEF w
    <3>3. w % M = k - 1
      BY <2>3, <3>1, <3>2, RemainderIs
    <3>4. QED
      BY <3>3 DEF w
  <2>5. QED
    BY <1>3, <2>3, <2>4
<1>8. ASSUME NEW m \in 1 .. M PROVE g[n - M + m] = b[p[m]]
  <2>1. ((n - M + m) - 1) + 1 = n - M + m
    OBVIOUS
  <2>2. QED
    BY <1>1, <1>3, <2>1
<1>. DEFINE u == [m \in 1 .. M |-> g[n - M + m]]
<1>9. \A m \in 1 .. M : u[m] = b[p[m]]
  BY <1>8
<1>. HIDE DEF u
<1>10. Rearranged(u, b, M)
  BY <1>4, <1>6, <1>7, <1>9 DEF Rearranged
<1>11. QED
  BY <1>10 DEF u

-----------------------------------------------------------------------------
(* The best score                                                          *)

\* One of finitely many numbers is the first of the greatest.
LEMMA FirstOfGreatest ==
  ASSUME NEW n \in Nat \ {0}, NEW f \in [1 .. n -> Int]
  PROVE  \E i \in 1 .. n : \A j \in 1 .. n : f[j] < f[i] \/ (f[j] = f[i] /\ i <= j)
<1>. DEFINE Has(m, g) == \E i \in 1 .. m : \A j \in 1 .. m : g[j] < g[i] \/ (g[j] = g[i] /\ i <= j)
            Bad == {m \in Nat \ {0} : \E g \in [1 .. m -> Int] : ~Has(m, g)}
<1>1. ASSUME Bad # {} PROVE FALSE
  <2>1. Bad \in SUBSET Nat
    OBVIOUS
  <2>2. PICK m \in Bad : \A k \in Bad : m <= k
    <3>. HIDE DEF Bad
    <3>1. QED
      BY <1>1, <2>1, LeastNumber, Zenon
  <2>3. PICK g \in [1 .. m -> Int] : ~Has(m, g)
    BY <2>2
  <2>4. m \in Nat \ {0}
    BY <2>2
  <2>. HIDE DEF Bad
  <2>5. CASE m = 1
    <3>1. 1 \in 1 .. m /\ \A j \in 1 .. m : j = 1
      BY <2>5
    <3>2. \A j \in 1 .. m : g[j] < g[1] \/ (g[j] = g[1] /\ 1 <= j)
      BY <3>1
    <3>3. Has(m, g)
      BY <3>1, <3>2, Zenon
    <3>4. QED
      BY <2>3, <3>3
  <2>6. CASE m > 1
    <3>. DEFINE h == [i \in 1 .. m - 1 |-> g[i]]
    <3>1. /\ m - 1 \in Nat \ {0} /\ m - 1 < m /\ \A i \in 1 .. m : i = m \/ i \in 1 .. m - 1
          /\ \A i \in 1 .. m - 1 : i \in 1 .. m /\ i < m
          /\ m \in 1 .. m
      BY <2>4, <2>6
    <3>2. h \in [1 .. m - 1 -> Int] /\ \A i \in 1 .. m - 1 : h[i] = g[i]
      BY <3>1
    <3>3. m - 1 \notin Bad
      <4>1. m - 1 \in Bad => m <= m - 1
        BY <2>2, Zenon
      <4>2. QED
        BY <2>4, <4>1
    <3>. HIDE DEF h
    <3>4. Has(m - 1, h)
      BY <3>1, <3>2, <3>3, Zenon DEF Bad
    <3>5. PICK i \in 1 .. m - 1 : \A j \in 1 .. m - 1 : h[j] < h[i] \/ (h[j] = h[i] /\ i <= j)
      BY <3>4
    <3>6. \A j \in 1 .. m - 1 : g[j] < g[i] \/ (g[j] = g[i] /\ i <= j)
      BY <3>2, <3>5
    <3>7. \A j \in 1 .. m : g[j] \in Int
      OBVIOUS
    <3>8. CASE g[m] > g[i]
      <4>1. \A j \in 1 .. m : g[j] < g[m] \/ (g[j] = g[m] /\ m <= j)
        <5>1. SUFFICES ASSUME NEW j \in 1 .. m PROVE g[j] < g[m] \/ (g[j] = g[m] /\ m <= j)
          OBVIOUS
        <5>2. CASE j = m
          BY <2>4, <5>2
        <5>3. CASE j \in 1 .. m - 1
          <6>0. g[j] \in Int /\ g[i] \in Int /\ (g[j] < g[i] \/ (g[j] = g[i] /\ i <= j))
            BY <3>1, <3>6, <3>7, <5>3, Zenon
          <6>1. g[j] <= g[i]
            BY <6>0
          <6>2. QED
            BY <3>1, <3>7, <3>8, <6>1
        <5>4. QED
          BY <3>1, <5>2, <5>3
      <4>2. Has(m, g)
        BY <3>1, <4>1
      <4>3. QED
        BY <2>3, <4>2
    <3>9. CASE g[m] <= g[i]
      <4>1. \A j \in 1 .. m : g[j] < g[i] \/ (g[j] = g[i] /\ i <= j)
        <5>1. SUFFICES ASSUME NEW j \in 1 .. m PROVE g[j] < g[i] \/ (g[j] = g[i] /\ i <= j)
          OBVIOUS
        <5>2. CASE j = m
          <6>1. g[m] \in Int /\ g[i] \in Int /\ i \in Int /\ m \in Int /\ i < m
            BY <2>4, <3>1, <3>7
          <6>2. QED
            BY <3>9, <5>2, <6>1
        <5>3. CASE j \in 1 .. m - 1
          BY <3>6, <5>3
        <5>4. QED
          BY <3>1, <5>2, <5>3
      <4>2. Has(m, g)
        BY <3>1, <4>1
      <4>3. QED
        BY <2>3, <4>2
    <3>10. QED
      BY <3>1, <3>7, <3>8, <3>9
  <2>7. QED
    BY <2>4, <2>5, <2>6
<1>2. Has(n, f)
  BY <1>1
<1>3. QED
  BY <1>2

\* In ascending order, those behind the last of its value are the greater ones.
LEMMA AboveLast ==
  ASSUME NEW n \in Nat, NEW s \in [1 .. n -> Nat],
         \A i, j \in 1 .. n : i < j => s[i] <= s[j],
         NEW i \in 1 .. n, \A j \in 1 .. n : i < j => s[j] # s[i]
  PROVE  Cardinality(Above(s, n, s[i])) = n - i
<1>1. \A k \in 1 .. n : s[k] \in Nat /\ (k \in i + 1 .. n <=> i < k) /\ (k <= i <=> ~(i < k))
  OBVIOUS
<1>2. \A k \in 1 .. n : i < k => s[k] > s[i]
  BY <1>1
<1>3. ASSUME NEW k \in 1 .. n, k <= i PROVE ~(s[k] > s[i])
  <2>1. k = i \/ k < i
    BY <1>3
  <2>2. s[k] <= s[i]
    BY <1>1, <2>1
  <2>3. QED
    BY <1>1, <2>2
<1>4. i + 1 .. n \subseteq 1 .. n
  OBVIOUS
<1>5. Above(s, n, s[i]) = i + 1 .. n
  BY <1>1, <1>2, <1>3, <1>4 DEF Above
<1>6. Cardinality(i + 1 .. n) = IF i + 1 > n THEN 0 ELSE n - (i + 1) + 1
  <2>1. i + 1 \in Int /\ n \in Int
    OBVIOUS
  <2>2. QED
    BY <2>1, FS_Interval
<1>7. n - i \in Nat /\ (i + 1 > n => n - i = 0) /\ n - (i + 1) + 1 = n - i
  OBVIOUS
<1>8. QED
  BY <1>5, <1>6, <1>7

HasLast(s, n, i) ==
    \E l \in 1 .. n : s[l] = s[i] /\ \A j \in 1 .. n : l < j => s[j] # s[l]

LEMMA LastOfTie ==
  ASSUME NEW n \in Nat, NEW s, NEW i \in 1 .. n
  PROVE  HasLast(s, n, i)
<1>. DEFINE T == {k \in 1 .. n : s[k] = s[i]}
<1>1. T \in SUBSET (1 .. n) /\ T # {}
  OBVIOUS
<1>2. /\ Max(T) \in T /\ \A x \in T : x <= Max(T)
      /\ Max(T) \in 1 .. n
  <2>. HIDE DEF T
  <2>1. QED
    BY <1>1, MaxInside, Zenon
<1>3. s[Max(T)] = s[i]
  BY <1>2
<1>4. \A j \in 1 .. n : s[j] = s[i] => j <= Max(T)
  BY <1>2
<1>. HIDE DEF T
<1>5. \A j \in 1 .. n : Max(T) < j => s[j] # s[Max(T)]
  BY <1>2, <1>3, <1>4
<1>6. QED
  BY <1>2, <1>3, <1>5 DEF HasLast

\* The loss that the later of two equal delays counts is smaller, and scored higher.
LEMMA LaterScoresHigher ==
  ASSUME IntegerScore, FineScore, NEW e \in Ends, NEW n \in 1 .. MAX_D_SAMP,
         NEW r \in Ratio, 0 <= r.lost, r.lost <= r.of, 0 < r.of, r.of <= MaxPackets[e],
         NEW i \in 1 .. n, NEW j \in 1 .. n, i < j, NEW d \in Nat
  PROVE  Score(Plus([lost |-> n - i, of |-> n], r), d) < Score(Plus([lost |-> n - j, of |-> n], r), d)
<1>. DEFINE m == n * r.of
            x == (n - i) * r.of + r.lost * n
            y == (n - j) * r.of + r.lost * n
<1>1. /\ r.lost \in Nat /\ r.of \in Nat \ {0} /\ n \in Nat \ {0} /\ n - i \in Nat /\ n - j \in Nat
      /\ MaxPackets[e] \in Nat /\ MAX_D_SAMP \in Nat \ {0}
  BY CallAssumption DEF Ratio
<1>. DEFINE a == r.of
            l == r.lost
            u == n - i
            v == n - j
<1>2. /\ a \in Nat \ {0} /\ l \in Nat /\ u \in Nat /\ v \in Nat /\ v < u /\ u <= n
      /\ l <= a /\ a <= MaxPackets[e] /\ n <= MAX_D_SAMP
  BY <1>1
<1>3. m = n * a /\ x = u * a + l * n /\ y = v * a + l * n
  OBVIOUS
<1>. HIDE DEF a, l, u, v, m, x, y
<1>4. v * a < u * a /\ v * a \in Nat /\ u * a \in Nat /\ l * n \in Nat /\ n * a \in Nat
  <2>1. v * a \in Nat /\ u * a \in Nat /\ l * n \in Nat /\ n * a \in Nat
    BY <1>1, <1>2
  <2>2. (u - v) * a = u * a - v * a /\ u - v \in Nat \ {0}
    BY <1>2
  <2>3. \A z \in Nat \ {0} : z * a >= 1
    BY <1>2
  <2>4. QED
    BY <2>1, <2>2, <2>3
<1>5. u * a <= n * a /\ l * n <= n * a
  <2>1. (n - u) * a = n * a - u * a /\ n - u \in Nat
    BY <1>1, <1>2
  <2>2. (a - l) * n = n * a - l * n /\ a - l \in Nat
    BY <1>1, <1>2
  <2>3. (n - u) * a \in Nat /\ (a - l) * n \in Nat
    BY <1>1, <1>2, <2>1, <2>2
  <2>4. QED
    BY <1>4, <2>1, <2>2, <2>3
<1>6. n * a >= 1 /\ n * a <= MAX_D_SAMP * MaxPackets[e]
  <2>1. (MAX_D_SAMP - n) * a = MAX_D_SAMP * a - n * a /\ MAX_D_SAMP - n \in Nat
    BY <1>1, <1>2
  <2>2. /\ MAX_D_SAMP * (MaxPackets[e] - a) = MAX_D_SAMP * MaxPackets[e] - MAX_D_SAMP * a
        /\ MaxPackets[e] - a \in Nat
    BY <1>1, <1>2
  <2>3. (MAX_D_SAMP - n) * a \in Nat /\ MAX_D_SAMP * (MaxPackets[e] - a) \in Nat
    BY <1>1, <1>2, <2>1, <2>2
  <2>4. n * a >= 1
    BY <1>1, <1>2
  <2>5. MAX_D_SAMP * a \in Nat /\ MAX_D_SAMP * MaxPackets[e] \in Nat
    BY <1>1, <1>2
  <2>6. QED
    BY <1>4, <2>1, <2>2, <2>3, <2>4, <2>5
<1>7. m \in 1 .. MAX_D_SAMP * MaxPackets[e] /\ x \in 0 .. 2 * m /\ y \in 0 .. 2 * m /\ y < x
  <2>1. MAX_D_SAMP * MaxPackets[e] \in Nat
    BY <1>1
  <2>2. QED
    BY <1>3, <1>4, <1>5, <1>6, <2>1
<1>8. LossPenalty(y, m) < LossPenalty(x, m)
  BY <1>7 DEF FineScore
<1>9. /\ LossPenalty(y, m) \in Int /\ LossPenalty(x, m) \in Int /\ DelayPenalty(d) \in Int
      /\ TopScore \in Int
  <2>1. MAX_D_SAMP * MaxPackets[e] \in Nat
    BY <1>1
  <2>2. m \in Int /\ x \in Int /\ y \in Int
    BY <1>7, <2>1
  <2>3. LossPenalty(y, m) \in Int /\ LossPenalty(x, m) \in Int /\ DelayPenalty(d) \in Int
    BY <2>2 DEF IntegerScore
  <2>4. QED
    BY <2>3, CallAssumption
<1>10. TopScore - LossPenalty(x, m) - DelayPenalty(d) < TopScore - LossPenalty(y, m) - DelayPenalty(d)
  BY <1>8, <1>9
<1>11. /\ Plus([lost |-> n - i, of |-> n], r) = [lost |-> x, of |-> m]
       /\ Plus([lost |-> n - j, of |-> n], r) = [lost |-> y, of |-> m]
  BY DEF Plus, x, y, m
<1>12. QED
  BY <1>10, <1>11 DEF Score

-----------------------------------------------------------------------------
(* The buffer from step to step                                            *)

LEMMA SortedIs ==
  ASSUME NEW buf, NEW ss \in Nat, NEW s \in Sorted(buf, ss)
  PROVE  /\ DOMAIN s = 1 .. ss
         /\ Rearranged(s, [i \in 1 .. ss |-> buf[i - 1]], ss)
         /\ \A i, j \in 1 .. ss : i < j => s[i] <= s[j]
<1>1. PICK p \in Bijection(1 .. ss, 1 .. ss) : s = [i \in 1 .. ss |-> buf[p[i] - 1]]
  BY DEF Sorted
<1>2. /\ p \in [1 .. ss -> 1 .. ss]
      /\ \A i, j \in 1 .. ss : p[i] = p[j] => i = j
      /\ \A k \in 1 .. ss : \E i \in 1 .. ss : p[i] = k
  <2>1. p \in Bijection(1 .. ss, 1 .. ss)
    BY <1>1
  <2>2. QED
    BY <2>1 DEF Bijection, Injection, Surjection, IsInjective
<1>. DEFINE b == [i \in 1 .. ss |-> buf[i - 1]]
<1>3. \A i \in 1 .. ss : s[i] = b[p[i]]
  BY <1>1, <1>2
<1>. HIDE DEF b
<1>4. Rearranged(s, b, ss)
  BY <1>2, <1>3 DEF Rearranged
<1>5. \A i, j \in 1 .. ss : i < j => s[i] <= s[j]
  BY DEF Sorted
<1>6. QED
  BY <1>1, <1>4, <1>5 DEF b

\* rscore() leaves the buffer sorted, and nothing else of it changed.
LEMMA UpdateSorts ==
  ASSUME TypeOK, NEW e \in Ends, UpdateScore(e)
  PROVE  \E s \in Sorted(dd_buf[e], Samples(e)) :
            /\ \A i \in 1 .. Samples(e) : dd_buf'[e][i - 1] = s[i]
            /\ \A d \in Ends \ {e} : dd_buf'[d] = dd_buf[d]
<1>1. Samples(e) \in 0 .. MAX_D_SAMP /\ MAX_D_SAMP \in Nat
  BY SamplesType, CallAssumption
<1>2. PICK s \in Sorted(dd_buf[e], Samples(e)) :
         dd_buf' = [dd_buf EXCEPT ![e] =
                      [i \in DOMAIN @ |-> IF i < Samples(e) THEN s[i + 1] ELSE @[i]]]
  BY DEF UpdateScore
<1>3. dd_buf \in [Ends -> [0 .. MAX_D_SAMP - 1 -> Delays \cup {0}]]
  BY DEF TypeOK
<1>4. dd_buf'[e] = [i \in DOMAIN dd_buf[e] |-> IF i < Samples(e) THEN s[i + 1] ELSE dd_buf[e][i]]
  BY <1>2, <1>3
<1>5. ASSUME NEW i \in 1 .. Samples(e) PROVE dd_buf'[e][i - 1] = s[i]
  <2>1. i - 1 \in 0 .. MAX_D_SAMP - 1 /\ i - 1 < Samples(e) /\ (i - 1) + 1 = i
    BY <1>1
  <2>2. DOMAIN dd_buf[e] = 0 .. MAX_D_SAMP - 1
    BY <1>3
  <2>3. QED
    BY <1>4, <2>1, <2>2
<1>6. \A d \in Ends \ {e} : dd_buf'[d] = dd_buf[d]
  BY <1>2, <1>3
<1>7. QED
  BY <1>5, <1>6

LEMMA BufferStep ==
  TypeOK /\ Received /\ BufferInv /\ [CallNext]_vars => BufferInv'
<1>. SUFFICES ASSUME TypeOK, Received, BufferInv, [CallNext]_vars PROVE BufferInv'
  OBVIOUS
<1>1. ASSUME UNCHANGED <<rx_tot_, got, dd_buf, scored>>,
             \A e \in Ends : seqno'[e] <= MaxPackets[e]
      PROVE  BufferInv'
  BY <1>1 DEF BufferInv, Filled, InTurn
<1>2. ASSUME NEW e \in Ends, Reset(e) PROVE BufferInv'
  <2>1. /\ UNCHANGED <<seqno, dd_buf>> /\ rx_tot_'[e] = 0
        /\ \A d \in Ends \ {e} : /\ rx_tot_'[d] = rx_tot_[d] /\ got'[d] = got[d]
                                 /\ scored'[d] = scored[d]
    BY <1>2 DEF Reset, TypeOK, Received
  <2>2. ASSUME NEW s, NEW t PROVE Rearranged(s, t, 0)
    <3>. DEFINE p == [i \in 1 .. 0 |-> i]
    <3>1. p \in [1 .. 0 -> 1 .. 0] /\ 1 .. 0 = {}
      OBVIOUS
    <3>2. QED
      BY <3>1 DEF Rearranged
  <2>3. ASSUME NEW d \in Ends PROVE (Filled(d) /\ InTurn(d))'
    <3>1. CASE d = e
      <4>1. Filled(e)'
        BY <2>1, <2>2 DEF Filled
      <4>2. InTurn(e)'
        BY <2>1 DEF InTurn
      <4>3. QED
        BY <3>1, <4>1, <4>2
    <3>2. CASE d # e
      BY <2>1, <3>2 DEF BufferInv, Filled, InTurn
    <3>3. QED
      BY <3>1, <3>2
  <2>4. QED
    BY <2>1, <2>3 DEF BufferInv
<1>3. ASSUME NEW e \in Ends, NEW n \in BurstLengths, Timeout(e, n) PROVE BufferInv'
  <2>1. \A d \in Ends : seqno'[d] <= MaxPackets[d]
    <3>1. seqno' = [seqno EXCEPT ![e] = seqno[e] + 1] /\ seqno[e] < MaxPackets[e]
          /\ seqno \in [Ends -> Nat] /\ MaxPackets \in [Ends -> Nat]
      BY <1>3, CallAssumption DEF Timeout, TypeOK
    <3>2. seqno[e] \in Nat /\ MaxPackets[e] \in Nat
      BY <3>1
    <3>3. seqno[e] + 1 <= MaxPackets[e]
      BY <3>1, <3>2
    <3>4. QED
      BY <3>1, <3>3 DEF BufferInv
  <2>2. QED
    BY <1>1, <1>3, <2>1 DEF Timeout, estimate
<1>4. ASSUME NEW e \in Ends, NEW p \in DOMAIN taken, NEW delay \in Delays, ProcessData(e, p, delay)
      PROVE  BufferInv'
  <2>. DEFINE M == MAX_D_SAMP
              n == rx_tot_[e]
              c == [no |-> carries[p], delay |-> delay]
              g == Append(got[e], c)
              b == dd_buf[e]
              b1 == [b EXCEPT ![n % M] = delay]
  <2>1. /\ rx_tot_' = [rx_tot_ EXCEPT ![e] = n + 1] /\ got' = [got EXCEPT ![e] = g]
        /\ dd_buf' = [dd_buf EXCEPT ![e] = b1] /\ UNCHANGED <<seqno, scored>>
    BY <1>4, ProcessDataStep DEF ProcessData, source
  <2>2. /\ n \in Nat /\ M \in Nat \ {0} /\ b \in [0 .. M - 1 -> Delays \cup {0}]
        /\ got[e] \in Seq(Packet) /\ Len(got[e]) = n
    BY CallAssumption DEF TypeOK, Received
  <2>3. /\ g[n + 1] = c /\ \A k \in 1 .. n : g[k] = got[e][k]
    <3>1. c \in Packet
      BY TakenType, CallAssumption DEF Packet
    <3>. HIDE DEF c, n
    <3>2. QED
      BY <2>2, <3>1
  <2>4. n % M \in 0 .. M - 1
    BY <2>2
  <2>5. b1[n % M] = delay /\ \A i \in 0 .. M - 1 : i # n % M => b1[i] = b[i]
    BY <2>2, <2>4
  <2>6. c.delay = delay
    OBVIOUS
  <2>. HIDE DEF M, n, c, g, b, b1
  <2>7. /\ rx_tot_'[e] = n + 1 /\ got'[e] = g /\ dd_buf'[e] = b1 /\ UNCHANGED scored
        /\ \A d \in Ends \ {e} : /\ rx_tot_'[d] = rx_tot_[d] /\ got'[d] = got[d]
                                 /\ dd_buf'[d] = dd_buf[d]
    BY <2>1 DEF TypeOK, Received
  <2>8. ASSUME n + 1 <= M
        PROVE  Rearranged([i \in 1 .. n + 1 |-> b1[i - 1]], [i \in 1 .. n + 1 |-> g[i].delay], n + 1)
    <3>. DEFINE s == [i \in 1 .. n |-> b[i - 1]]
                t == [i \in 1 .. n |-> got[e][i].delay]
                s1 == [i \in 1 .. n + 1 |-> b1[i - 1]]
                t1 == [i \in 1 .. n + 1 |-> g[i].delay]
    <3>1. Rearranged(s, t, n)
      <4>1. n <= M
        BY <2>2, <2>8
      <4>2. QED
        BY <4>1 DEF BufferInv, Filled, n, M, b
    <3>2. n % M = n
      <4>1. n \in 0 .. M - 1
        BY <2>2, <2>8
      <4>2. \A m \in 0 .. M - 1 : m % M = m
        BY <2>2
      <4>3. QED
        BY <4>1, <4>2
    <3>3. \A i \in 1 .. n : s1[i] = s[i] /\ t1[i] = t[i]
      <4>1. \A i \in 1 .. n : /\ i \in 1 .. n + 1 /\ i - 1 \in 0 .. M - 1 /\ i - 1 # n
        BY <2>2, <2>8
      <4>2. QED
        BY <2>3, <2>5, <3>2, <4>1
    <3>4. s1[n + 1] = t1[n + 1]
      <4>1. n + 1 \in 1 .. n + 1 /\ (n + 1) - 1 = n
        BY <2>2
      <4>2. QED
        BY <2>3, <2>5, <2>6, <3>2, <4>1
    <3>. HIDE DEF s, t, s1, t1
    <3>5. Rearranged(s1, t1, n)
      BY <2>2, <3>1, <3>3, RearrangedSame
    <3>6. Rearranged(s1, t1, n + 1)
      BY <2>2, <3>4, <3>5, RearrangedMore
    <3>7. QED
      BY <3>6 DEF s1, t1
  <2>9. ASSUME ~scored[e], NEW k \in 0 .. n, (n + 1) - M <= k
        PROVE  b1[k % M] = g[k + 1].delay
    <3>1. CASE k = n
      BY <2>3, <2>5, <2>6, <3>1
    <3>2. CASE k # n
      <4>1. /\ k \in 0 .. n - 1 /\ n - M <= k /\ k <= n /\ n - k < M /\ k + 1 \in 1 .. n
            /\ k \in Int /\ n \in Int
        BY <2>2, <2>9, <3>2
      <4>2. k % M # n % M
        BY <2>2, <3>2, <4>1, Congruent
      <4>3. k % M \in 0 .. M - 1
        BY <2>2, <4>1
      <4>4. b[k % M] = got[e][k + 1].delay
        BY <2>9, <4>1 DEF BufferInv, InTurn, n, M, b
      <4>5. QED
        BY <2>3, <2>5, <4>1, <4>2, <4>3, <4>4
    <3>3. QED
      BY <3>1, <3>2
  <2>10. (n + 1) - 1 = n
    BY <2>2
  <2>11. ASSUME NEW d \in Ends PROVE (Filled(d) /\ InTurn(d))'
    <3>1. CASE d = e
      <4>1. Filled(e)'
        BY <2>7, <2>8 DEF Filled, M
      <4>2. InTurn(e)'
        BY <2>7, <2>9, <2>10 DEF InTurn, M
      <4>3. QED
        BY <3>1, <4>1, <4>2
    <3>2. CASE d # e
      BY <2>7, <3>2 DEF BufferInv, Filled, InTurn
    <3>3. QED
      BY <3>1, <3>2
  <2>12. QED
    BY <2>1, <2>11 DEF BufferInv
<1>5. ASSUME NEW e \in Ends, UpdateScore(e) PROVE BufferInv'
  <2>1. UNCHANGED <<seqno, rx_tot_, got>> /\ scored' = [scored EXCEPT ![e] = TRUE]
    BY <1>5 DEF UpdateScore, source, estimate
  <2>2. PICK s \in Sorted(dd_buf[e], Samples(e)) :
            /\ \A i \in 1 .. Samples(e) : dd_buf'[e][i - 1] = s[i]
            /\ \A d \in Ends \ {e} : dd_buf'[d] = dd_buf[d]
    BY <1>5, UpdateSorts
  <2>3. scored'[e] /\ \A d \in Ends \ {e} : scored'[d] = scored[d]
    BY <2>1 DEF TypeOK
  <2>4. Filled(e)'
    <3>. DEFINE n == rx_tot_[e]
                b == [i \in 1 .. n |-> dd_buf[e][i - 1]]
                b1 == [i \in 1 .. n |-> dd_buf'[e][i - 1]]
                t == [i \in 1 .. n |-> got[e][i].delay]
    <3>1. SUFFICES ASSUME n <= MAX_D_SAMP PROVE Rearranged(b1, t, n)
      BY <2>1 DEF Filled
    <3>2. n \in Nat /\ Samples(e) = n
      BY <3>1, CallAssumption DEF TypeOK, Samples
    <3>3. Rearranged(b, t, n)
      BY <3>1 DEF BufferInv, Filled
    <3>4. Rearranged(s, b, n)
      BY <2>2, <3>2, SortedIs
    <3>5. \A i \in 1 .. n : b1[i] = s[i]
      BY <2>2, <3>2
    <3>. HIDE DEF n, b, b1, t
    <3>6. Rearranged(s, t, n)
      BY <3>2, <3>3, <3>4, RearrangedTwice
    <3>7. QED
      BY <3>2, <3>5, <3>6, RearrangedSame
  <2>5. InTurn(e)'
    BY <2>3 DEF InTurn
  <2>6. \A d \in Ends \ {e} : (Filled(d) /\ InTurn(d))'
    BY <2>1, <2>2, <2>3 DEF BufferInv, Filled, InTurn
  <2>7. QED
    BY <2>1, <2>4, <2>5, <2>6 DEF BufferInv
<1>6. QED
  BY <1>1, <1>2, <1>3, <1>4, <1>5
     DEF CallNext, Start, Stop, vars, source, estimate, BufferInv

LEMMA BufferInit == CallInit => BufferInv
<1>. SUFFICES ASSUME CallInit PROVE BufferInv
  OBVIOUS
<1>1. \A e \in Ends : rx_tot_[e] = 0 /\ seqno[e] <= MaxPackets[e]
  BY CallAssumption DEF CallInit
<1>2. 1 .. 0 = {} /\ 0 .. -1 = {} /\ 0 - 1 = -1
  OBVIOUS
<1>3. ASSUME NEW s, NEW t PROVE Rearranged(s, t, 0)
  <2>. DEFINE p == [i \in 1 .. 0 |-> i]
  <2>1. p \in [1 .. 0 -> 1 .. 0]
    BY <1>2
  <2>2. QED
    BY <1>2, <2>1 DEF Rearranged
<1>4. QED
  BY <1>1, <1>2, <1>3 DEF BufferInv, Filled, InTurn

-----------------------------------------------------------------------------
(* The score                                                               *)

\* The loss ratio is one of packets that the other end has sent.
LEMMA RatioInRange ==
  ASSUME CallInv, BufferInv, NEW e \in Ends, rx_tot_[e] > 0
  PROVE  LET r == loss_ratio_[e]
         IN  0 <= r.lost /\ r.lost <= r.of /\ 0 < r.of /\ r.of <= MaxPackets[Other(e)]
<1>. DEFINE n == rx_tot_[e]
            r == loss_ratio_[e]
            numbers == {got[e][k].no : k \in DOMAIN got[e]}
            asked == got[e][1].no .. Last(got[e]).no
<1>1. n \in Nat \ {0} /\ got[e] \in Seq(Packet) /\ Len(got[e]) = n /\ n \in 1 .. n /\ 1 \in 1 .. n
  BY DEF CallInv, TypeOK, Received
<1>2. r = [lost |-> Cardinality(asked \ numbers), of |-> Cardinality(asked)]
  BY LossCounted
<1>3. got[e][n] \in Packet /\ got[e][1] \in Packet /\ Last(got[e]) = got[e][n]
  BY <1>1 DEF Last
<1>4. got[e][n].no \in Nat /\ got[e][1].no \in Nat
  BY <1>3 DEF Packet
<1>5. r = [lost |-> Span(e) - n, of |-> Span(e)] /\ Span(e) = got[e][n].no - got[e][1].no + 1
  BY DEF CallInv, Measured, Span
<1>6. IsFiniteSet(asked \ numbers)
  <2>1. \A a, b \in Nat : IsFiniteSet(a .. b)
    BY FS_Interval
  <2>2. IsFiniteSet(asked)
    BY <1>3, <1>4, <2>1
  <2>3. QED
    BY <2>2, FS_Difference
<1>. HIDE DEF numbers, asked, n
<1>7. 0 <= r.lost
  BY <1>2, <1>6, FS_CardinalityType
<1>8. got[e][n].no + 1 <= MaxPackets[Other(e)]
  <2>1. /\ up[e] \in Seq(Nat) /\ n <= Len(up[e])
        /\ got[e][n].no = carries[up[e][Len(up[e]) - n + n]]
    BY <1>1 DEF CallInv, Ordered, Received, n
  <2>2. Len(up[e]) - n + n = Len(up[e]) /\ Len(up[e]) \in DOMAIN up[e]
    BY <1>1, <2>1
  <2>. DEFINE p == up[e][Len(up[e])]
  <2>3. p \in DOMAIN taken /\ taken[p].dst = e
    BY <2>2 DEF CallInv, Ordered
  <2>. HIDE DEF p
  <2>4. e = Other(taken[p].flow) /\ carries[p] < seqno[taken[p].flow]
    BY <2>3 DEF CallInv, Numbered
  <2>5. taken[p].flow \in Ends /\ carries[p] \in Nat
    BY <2>3, TakenType DEF CallInv
  <2>6. taken[p].flow = Other(e)
    BY <2>4, <2>5, OtherEnd
  <2>7. seqno[Other(e)] <= MaxPackets[Other(e)] /\ seqno[Other(e)] \in Nat
        /\ MaxPackets[Other(e)] \in Nat
    BY OtherEnd, CallAssumption DEF BufferInv, CallInv, TypeOK
  <2>8. got[e][n].no = carries[p]
    BY <2>1, <2>2 DEF p
  <2>9. QED
    BY <2>4, <2>5, <2>6, <2>7, <2>8
<1>9. MaxPackets[Other(e)] \in Nat
  BY OtherEnd, CallAssumption
<1>10. r.lost = Span(e) - n /\ r.of = Span(e)
  BY <1>5
<1>. HIDE DEF r
<1>11. 0 <= r.lost /\ r.lost <= r.of /\ 0 < r.of /\ r.of <= MaxPackets[Other(e)]
  BY <1>1, <1>4, <1>5, <1>7, <1>8, <1>9, <1>10
<1>12. QED
  BY <1>11 DEF r

\* The delays that rscore() has sorted are those of the last packets.
LEMMA SortedAreLast ==
  ASSUME CallInv, BufferInv, NEW e \in Ends, Len(got[e]) <= MAX_D_SAMP \/ ~scored[e],
         NEW s \in Sorted(dd_buf[e], Samples(e))
  PROVE  Rearranged(s, LastGot(e), Samples(e))
<1>. DEFINE n == rx_tot_[e]
            M == MAX_D_SAMP
            ss == Samples(e)
            b == [i \in 1 .. ss |-> dd_buf[e][i - 1]]
            t == LastGot(e)
<1>1. /\ n \in Nat /\ M \in Nat \ {0} /\ Len(got[e]) = n
      /\ ss = IF n < M THEN n ELSE M
  BY CallAssumption DEF CallInv, TypeOK, Received, Samples
<1>2. ss \in Nat
  BY <1>1
<1>3. t = [k \in 1 .. ss |-> got[e][n - ss + k].delay]
  BY <1>1 DEF LastGot
<1>4. Rearranged(s, b, ss)
  BY <1>2, SortedIs
<1>5. Rearranged(b, t, ss)
  <2>1. CASE n <= M
    <3>1. ss = n
      BY <1>1, <2>1
    <3>2. Rearranged(b, [i \in 1 .. n |-> got[e][i].delay], n)
      BY <2>1, <3>1 DEF BufferInv, Filled
    <3>3. \A i \in 1 .. n : n - ss + i = i
      BY <1>1, <3>1
    <3>4. t = [i \in 1 .. n |-> got[e][i].delay]
      BY <1>3, <3>1, <3>3
    <3>5. QED
      BY <3>1, <3>2, <3>4
  <2>2. CASE n > M
    <3>. DEFINE g == [k \in 1 .. n |-> got[e][k].delay]
                u == [m \in 1 .. M |-> g[n - M + m]]
    <3>1. ss = M /\ M <= n /\ ~(n <= M)
      BY <1>1, <2>2
    <3>2. ~scored[e]
      BY <1>1, <3>1
    <3>3. ASSUME NEW k \in 0 .. n - 1, n - M <= k PROVE b[(k % M) + 1] = g[k + 1]
      <4>1. dd_buf[e][k % M] = got[e][k + 1].delay
        BY <3>2, <3>3 DEF BufferInv, InTurn
      <4>2. (k % M) + 1 \in 1 .. M /\ ((k % M) + 1) - 1 = k % M /\ k + 1 \in 1 .. n
        <5>1. \A z \in Int : z % M \in 0 .. M - 1
          BY <1>1
        <5>2. k \in Int
          OBVIOUS
        <5>3. k % M \in 0 .. M - 1
          BY <5>1, <5>2
        <5>. HIDE DEF n, M
        <5>4. QED
          BY <1>1, <5>3
      <4>3. b[(k % M) + 1] = dd_buf[e][((k % M) + 1) - 1]
        BY <3>1, <4>2
      <4>4. QED
        BY <4>1, <4>2, <4>3
    <3>4. \A m \in 1 .. M : n - M + m \in 1 .. n
      BY <1>1, <3>1
    <3>5. t = u
      BY <1>3, <3>1, <3>4
    <3>. HIDE DEF n, M, g, b, t, ss
    <3>6. Rearranged(u, b, M)
      BY <1>1, <3>1, <3>3, RingRearranged
    <3>7. QED
      BY <1>1, <3>1, <3>5, <3>6, RearrangedBack
  <2>3. QED
    BY <1>1, <2>1, <2>2
<1>. HIDE DEF ss, b, t
<1>6. Rearranged(s, t, ss)
  BY <1>2, <1>4, <1>5, RearrangedTwice
<1>7. QED
  BY <1>6 DEF ss, t


LEMMA UpdateIsBest ==
  ASSUME IntegerScore, FineScore, CallInv, BufferInv, NEW e \in Ends, UpdateScore(e),
         Len(got[e]) <= MAX_D_SAMP \/ ~scored[e]
  PROVE  LET s == LastGot(e)
             Late(d) == [lost |-> Cardinality({k \in DOMAIN s : s[k] > d}), of |-> Len(s)]
             With(d) == Plus(Late(d), loss_ratio_[e])
             now == score'[e]
         IN  /\ now.rscore_ >= 0
             /\ \A k \in DOMAIN s : Score(With(s[k]), s[k]) <= now.rscore_
             /\ (now.rscore_ > 0) =>
                  /\ now.delay_ \in Range(s) /\ now.loss_playout_ = With(now.delay_)
                  /\ now.rscore_ = Score(now.loss_playout_, now.delay_)
<1>. DEFINE n == Samples(e)
            r == loss_ratio_[e]
            t == LastGot(e)
            Lost(i) == Plus([lost |-> n - i, of |-> n], r)
            With(d) == Plus([lost |-> Cardinality({k \in DOMAIN t : t[k] > d}), of |-> Len(t)], r)
            now == score'[e]
<1>1. n \in 0 .. MAX_D_SAMP /\ MAX_D_SAMP \in Nat /\ n \in Nat /\ r \in Ratio
  <2>1. TypeOK
    BY DEF CallInv
  <2>2. n \in 0 .. MAX_D_SAMP /\ MAX_D_SAMP \in Nat
    BY <2>1, SamplesType, CallAssumption
  <2>. HIDE DEF n
  <2>3. QED
    BY <2>1, <2>2 DEF TypeOK
<1>2. PICK s \in Sorted(dd_buf[e], n) :
         LET At(i) == Score(Lost(i), s[i])
             best == {i \in 1 .. n : At(i) > 0 /\ \A j \in 1 .. n :
                                        At(j) < At(i) \/ (At(j) = At(i) /\ i <= j)}
         IN  \/ best = {} /\ score' = [score EXCEPT ![e].rscore_ = 0]
             \/ \E i \in best : score' = [score EXCEPT ![e] =
                   [rscore_ |-> At(i), delay_ |-> s[i], loss_playout_ |-> Lost(i)]]
  BY DEF UpdateScore
<1>. DEFINE f == [i \in 1 .. n |-> Score(Lost(i), s[i])]
            best == {i \in 1 .. n : f[i] > 0 /\ \A j \in 1 .. n :
                                       f[j] < f[i] \/ (f[j] = f[i] /\ i <= j)}
<1>3. \/ best = {} /\ score' = [score EXCEPT ![e].rscore_ = 0]
      \/ \E i \in best : score' = [score EXCEPT ![e] =
            [rscore_ |-> f[i], delay_ |-> s[i], loss_playout_ |-> Lost(i)]]
  <2>. DEFINE At(i) == Score(Lost(i), s[i])
              top == {i \in 1 .. n : At(i) > 0 /\ \A j \in 1 .. n :
                                        At(j) < At(i) \/ (At(j) = At(i) /\ i <= j)}
  <2>1. \A i \in 1 .. n : f[i] = At(i)
    OBVIOUS
  <2>2. \/ top = {} /\ score' = [score EXCEPT ![e].rscore_ = 0]
        \/ \E i \in top : score' = [score EXCEPT ![e] =
              [rscore_ |-> At(i), delay_ |-> s[i], loss_playout_ |-> Lost(i)]]
    BY <1>2
  <2>. HIDE DEF f, At
  <2>3. best = top /\ \A i \in top : i \in 1 .. n
    BY <2>1
  <2>. HIDE DEF best, top, Lost
  <2>4. QED
    BY <2>1, <2>2, <2>3
<1>4. /\ s \in [1 .. n -> Nat] /\ Rearranged(s, t, n)
      /\ \A i, j \in 1 .. n : i < j => s[i] <= s[j]
  <2>1. s \in [1 .. n -> Delays \cup {0}]
    BY <1>1, SortedType DEF CallInv, TypeOK
  <2>2. Delays \cup {0} \subseteq Nat
    BY CallAssumption
  <2>3. Rearranged(s, t, n)
    BY SortedAreLast
  <2>4. \A i, j \in 1 .. n : i < j => s[i] <= s[j]
    BY <1>1, SortedIs
  <2>. HIDE DEF n, t
  <2>5. QED
    BY <2>1, <2>2, <2>3, <2>4
<1>5. DOMAIN t = 1 .. n /\ Len(t) = n
  <2>1. t \in [1 .. n -> {t[k] : k \in 1 .. n}] /\ DOMAIN t = 1 .. n
    BY DEF LastGot
  <2>. HIDE DEF t, n
  <2>2. QED
    BY <1>1, <2>1
<1>. HIDE DEF n, t, r
<1>6. \A i \in 1 .. n : f[i] = Score(Lost(i), s[i])
  OBVIOUS
<1>7. ASSUME NEW i \in 1 .. n PROVE f[i] \in Int
  <2>1. Lost(i).lost \in Int /\ Lost(i).of \in Int
    BY <1>1 DEF Plus, Ratio
  <2>2. s[i] \in Nat
    BY <1>4
  <2>. HIDE DEF Lost, f
  <2>3. LossPenalty(Lost(i).lost, Lost(i).of) \in Int /\ DelayPenalty(s[i]) \in Int
    BY <2>1, <2>2 DEF IntegerScore
  <2>4. QED
    BY <1>6, <2>3, CallAssumption DEF Score
<1>8. f \in [1 .. n -> Int]
  BY <1>7
<1>9. ASSUME NEW i \in 1 .. n, \A j \in 1 .. n : i < j => s[j] # s[i]
      PROVE  With(s[i]) = Lost(i)
  <2>1. Cardinality(Above(s, n, s[i])) = n - i
    BY <1>1, <1>4, <1>9, AboveLast
  <2>2. Cardinality(Above(t, n, s[i])) = Cardinality(Above(s, n, s[i]))
    BY <1>1, <1>4, SameAbove
  <2>3. QED
    BY <1>5, <2>1, <2>2 DEF Above
<1>10. ASSUME NEW k \in 1 .. n PROVE \E l \in 1 .. n : Score(With(t[k]), t[k]) = f[l]
  <2>1. Rearranged(t, s, n)
    BY <1>1, <1>4, RearrangedBack
  <2>2. PICK i \in 1 .. n : t[k] = s[i]
    <3>1. HasAll(s, t, n)
      BY <1>1, <2>1, SameValues
    <3>2. QED
      BY <3>1 DEF HasAll
  <2>3. PICK l \in 1 .. n : s[l] = s[i] /\ \A j \in 1 .. n : l < j => s[j] # s[l]
    <3>1. i \in 1 .. n /\ n \in Nat
      BY <1>1, <2>2
    <3>2. HasLast(s, n, i)
      BY <3>1, LastOfTie
    <3>3. QED
      BY <3>2 DEF HasLast
  <2>4. With(s[l]) = Lost(l)
    BY <1>9, <2>3
  <2>. HIDE DEF With, Lost, f
  <2>5. QED
    BY <1>6, <2>2, <2>3, <2>4
<1>11. score \in [Ends -> [rscore_ : Nat, delay_ : Delays \cup {0}, loss_playout_ : Ratio]]
  BY DEF CallInv, TypeOK
<1>12. CASE best = {} /\ score' = [score EXCEPT ![e].rscore_ = 0]
  <2>1. now.rscore_ = 0
    BY <1>11, <1>12
  <2>2. ASSUME NEW j \in 1 .. n PROVE f[j] <= 0
    <3>1. n \in Nat \ {0}
      BY <1>1
    <3>. HIDE DEF f
    <3>2. PICK i \in 1 .. n : \A l \in 1 .. n : f[l] < f[i] \/ (f[l] = f[i] /\ i <= l)
      BY <1>8, <3>1, FirstOfGreatest
    <3>3. ~(f[i] > 0)
      BY <1>12, <3>2
    <3>4. f[i] \in Int /\ f[j] \in Int /\ f[j] <= f[i]
      BY <1>7, <3>2
    <3>5. QED
      BY <3>3, <3>4
  <2>. HIDE DEF With, f, now
  <2>3. now.rscore_ >= 0 /\ ~(now.rscore_ > 0)
    BY <2>1
  <2>4. \A k \in 1 .. n : Score(With(t[k]), t[k]) <= now.rscore_
    BY <1>10, <2>1, <2>2
  <2>5. QED
    BY <1>5, <2>3, <2>4 DEF With, now, t, r
<1>13. ASSUME NEW i \in best, score' = [score EXCEPT ![e] =
                 [rscore_ |-> f[i], delay_ |-> s[i], loss_playout_ |-> Lost(i)]]
       PROVE  /\ now.rscore_ >= 0
              /\ \A k \in DOMAIN t : Score(With(t[k]), t[k]) <= now.rscore_
              /\ (now.rscore_ > 0) =>
                   /\ now.delay_ \in Range(t) /\ now.loss_playout_ = With(now.delay_)
                   /\ now.rscore_ = Score(now.loss_playout_, now.delay_)
  <2>1. now = [rscore_ |-> f[i], delay_ |-> s[i], loss_playout_ |-> Lost(i)]
    <3>. HIDE DEF f, Lost, best
    <3>1. QED
      BY <1>11, <1>13
  <2>2. /\ i \in 1 .. n /\ f[i] > 0
        /\ \A j \in 1 .. n : f[j] < f[i] \/ (f[j] = f[i] /\ i <= j)
    <3>. HIDE DEF f
    <3>1. QED
      OBVIOUS
  <2>3. now.rscore_ = f[i] /\ now.delay_ = s[i] /\ now.loss_playout_ = Lost(i)
    <3>. HIDE DEF f, Lost, now
    <3>1. QED
      BY <2>1
  <2>4. ASSUME NEW j \in 1 .. n, i < j PROVE s[j] # s[i]
    <3>1. SUFFICES ASSUME s[j] = s[i] PROVE FALSE
      OBVIOUS
    <3>2. rx_tot_[e] > 0 /\ n \in 1 .. MAX_D_SAMP
      <4>1. rx_tot_[e] \in Nat
        BY DEF CallInv, TypeOK
      <4>2. n >= 1
        BY <1>1, <2>2
      <4>3. QED
        BY <1>1, <4>1, <4>2 DEF n, Samples
    <3>3. 0 <= r.lost /\ r.lost <= r.of /\ 0 < r.of /\ r.of <= MaxPackets[Other(e)]
      BY <3>2, RatioInRange DEF r
    <3>4. Other(e) \in Ends /\ s[j] \in Nat
      BY <1>4, OtherEnd
    <3>5. Score(Lost(i), s[j]) < Score(Lost(j), s[j])
      BY <1>1, <2>2, <2>4, <3>2, <3>3, <3>4, LaterScoresHigher
    <3>. HIDE DEF Lost, f
    <3>6. f[i] < f[j]
      BY <1>6, <2>2, <3>1, <3>5
    <3>7. f[i] \in Int /\ f[j] \in Int
      BY <1>7, <2>2
    <3>8. QED
      BY <2>2, <3>6, <3>7
  <2>5. With(s[i]) = Lost(i)
    BY <1>9, <2>2, <2>4
  <2>6. PICK k \in 1 .. n : s[i] = t[k]
    <3>1. Rearranged(s, t, n) /\ n \in Nat /\ i \in 1 .. n
      BY <1>1, <1>4, <2>2
    <3>2. HasAll(t, s, n)
      BY <3>1, SameValues
    <3>3. QED
      BY <3>1, <3>2 DEF HasAll
  <2>7. s[i] \in Range(t)
    BY <1>5, <2>6 DEF Range
  <2>8. f[i] \in Int
    BY <1>7, <2>2
  <2>. HIDE DEF f, With, Lost, now, best
  <2>9. \A l \in 1 .. n : Score(With(t[l]), t[l]) <= f[i]
    <3>1. SUFFICES ASSUME NEW l \in 1 .. n PROVE Score(With(t[l]), t[l]) <= f[i]
      OBVIOUS
    <3>2. PICK m \in 1 .. n : Score(With(t[l]), t[l]) = f[m]
      BY <1>10
    <3>3. f[m] \in Int /\ (f[m] < f[i] \/ f[m] = f[i])
      BY <1>7, <2>2
    <3>4. QED
      BY <2>8, <3>2, <3>3
  <2>10. f[i] >= 0
    BY <2>2, <2>8
  <2>11. f[i] = Score(Lost(i), s[i])
    BY <1>6, <2>2
  <2>12. QED
    BY <1>5, <2>3, <2>5, <2>7, <2>9, <2>10, <2>11
<1>14. CASE \E i \in best : score' = [score EXCEPT ![e] =
                 [rscore_ |-> f[i], delay_ |-> s[i], loss_playout_ |-> Lost(i)]]
  <2>1. /\ now.rscore_ >= 0
        /\ \A k \in DOMAIN t : Score(With(t[k]), t[k]) <= now.rscore_
        /\ (now.rscore_ > 0) =>
             /\ now.delay_ \in Range(t) /\ now.loss_playout_ = With(now.delay_)
             /\ now.rscore_ = Score(now.loss_playout_, now.delay_)
    BY <1>13, <1>14
  <2>2. QED
    BY <2>1 DEF t, r
<1>15. QED
  BY <1>3, <1>12, <1>14

-----------------------------------------------------------------------------
(* Theorems                                                                *)

LEMMA CallInvInit == CallInit => CallInv
<1>. SUFFICES ASSUME CallInit PROVE CallInv
  OBVIOUS
<1>1. << >> \in Seq(Header) /\ << >> \in Seq(Packet) /\ << >> \in Seq(Nat)
      /\ Len(<< >>) = 0 /\ DOMAIN << >> = {}
  OBVIOUS
<1>2. TypeOK
  <2>1. carries \in [DOMAIN taken -> Nat]
    BY <1>1 DEF CallInit, Init
  <2>2. QED
    BY <1>1, <2>1, CallAssumption DEF CallInit, Init, TypeOK, Ratio
<1>3. Numbered
  BY <1>1 DEF CallInit, Init, Numbered
<1>4. Ordered
  BY <1>1, CallAssumption DEF CallInit, Init, Ordered
<1>5. Received
  BY <1>1, CallAssumption DEF CallInit, Init, Received
<1>6. Measured
  BY DEF CallInit, Measured
<1>7. QED
  BY <1>2, <1>3, <1>4, <1>5, <1>6 DEF CallInv

\* The inductive invariant: numbers that grow, in order through the link.
THEOREM CallInvariant ==
  ASSUME IntegerScore PROVE CallSpec => []CallInv
<1>1. CallInit => CallInv
  BY CallInvInit
<1>2. CallInv /\ [CallNext]_vars => CallInv'
  BY TypeStep, NumberedStep, OrderedStep, ReceivedStep, MeasuredStep DEF CallInv
<1>3. QED
  BY <1>1, <1>2, PTL DEF CallSpec

\* The loss ratio of process_data is that of the packets since the last reset: what is
\* counted as lost are the numbers between the first and the last that are missing,
\* however the link loses packets and either end is started, stopped and reset.
THEOREM LossIsMeasured ==
  ASSUME IntegerScore PROVE CallSpec => []LossMeasured
<1>1. CallInv => LossMeasured
  BY LossCounted DEF LossMeasured, CallInv
<1>2. QED
  BY <1>1, CallInvariant, PTL

\* The score that rscore() shows is the best that a playout delay gives for the last
\* packets received, with the delay and the loss that give it: although it sorts the
\* buffer that process_data() fills in turn, until the buffer has wrapped after that.
THEOREM BestScoreFound ==
  ASSUME IntegerScore, FineScore PROVE CallSpec => ScoreIsBest
<1>1. CallInit => BufferInv
  BY BufferInit
<1>2. CallInv /\ BufferInv /\ [CallNext]_vars => BufferInv'
  BY BufferStep DEF CallInv
<1>. DEFINE Best(e) ==
         (UpdateScore(e) /\ (Len(got[e]) <= MAX_D_SAMP \/ ~scored[e])) =>
            LET s == LastGot(e)
                Late(d) == [lost |-> Cardinality({k \in DOMAIN s : s[k] > d}), of |-> Len(s)]
                With(d) == Plus(Late(d), loss_ratio_[e])
                now == score'[e]
            IN  /\ now.rscore_ >= 0
                /\ \A k \in DOMAIN s : Score(With(s[k]), s[k]) <= now.rscore_
                /\ (now.rscore_ > 0) =>
                     /\ now.delay_ \in Range(s) /\ now.loss_playout_ = With(now.delay_)
                     /\ now.rscore_ = Score(now.loss_playout_, now.delay_)
<1>3. CallInv /\ BufferInv => \A e \in Ends : Best(e)
  BY UpdateIsBest
<1>4. CallInv /\ BufferInv /\ [CallNext]_vars => [\A e \in Ends : Best(e)]_vars
  BY <1>3
<1>5. CallSpec => [][\A e \in Ends : Best(e)]_vars
  <2>. HIDE DEF Best
  <2>1. QED
    BY <1>1, <1>2, <1>4, CallInvariant, PTL DEF CallSpec
<1>6. QED
  BY <1>5, PTL DEF ScoreIsBest
=============================================================================
