----------------------------- MODULE DamaProofs -----------------------------
(***************************************************************************)
(* Theorems about what surrounds the allocator: the requester of a         *)
(* terminal (DamaLoop), for any window, rates, losses and allocator, and   *)
(* the configuration commands that give the allocator its constants        *)
(* (SuperframePlan), for any arguments and any number of frames.           *)
(* MaskDivided is the assumption MaskAssumption of AllocatorMFTDMA.        *)
(*                                                                         *)
(* The argument for the requester: of the requests in the window, the n    *)
(* latest together never ask for more than the queue held at one of them,  *)
(* for every n.  A new request joins the n latest that were; the oldest    *)
(* one, whose place it takes, is not among them.                           *)
(***************************************************************************)
EXTENDS DamaLoop, SuperframePlan, SequenceLemmas

-----------------------------------------------------------------------------
(* The window of volumes requested                                         *)

\* The age of entry k when l is the latest, the n latest entries, and the entry whose
\* place the next request takes.
Age(l, k) == IF k <= l THEN l - k ELSE l + win_ - k
Recent(l, n) == {k \in 0 .. win_ - 1 : Age(l, k) < n}
Follows(k, l) == k = (l + 1) % win_

\* What the n latest requests ask for together was in the queue at one of them.
Covered(l, v, s) ==
    \A n \in 1 .. win_ :
        \E k \in Recent(l, n) : SumFunctionOnSet(v, Recent(l, n)) <= s[k]

WindowInv ==
    /\ backlog \in Nat /\ arrived \in Nat /\ prev_in \in 0 .. arrived /\ input_cur \in Nat
    /\ last \in 0 .. win_ - 1 /\ vec_vol \in [0 .. win_ - 1 -> Nat] /\ seen \in [0 .. win_ - 1 -> Nat]
    /\ total_vol = SumFunctionOnSet(vec_vol, 0 .. win_ - 1)
    /\ Covered(last, vec_vol, seen)

\* A sum of naturals over part of a set is not more than that over all of it.
LEMMA SumOfPart ==
    ASSUME NEW S, IsFiniteSet(S), NEW w, \A x \in S : w[x] \in Nat, NEW t \in SUBSET S
    PROVE  /\ SumFunctionOnSet(w, t) \in Nat
           /\ SumFunctionOnSet(w, t) <= SumFunctionOnSet(w, S)
<1> DEFINE Sum(u) == SumFunctionOnSet(w, u)
           Less(b) == {u \in SUBSET S : b \subseteq u /\ ~(Sum(b) <= Sum(u) /\ Sum(b) \in Int)}
           Sizes(b) == {Cardinality(u) : u \in Less(b)}
<1>1. \A u \in SUBSET S : IsFiniteSet(u) /\ Cardinality(u) \in Nat
  BY FS_Subset, FS_CardinalityType
<1>2. \A u \in SUBSET S : \A z \in u : /\ Sum(u \ {z}) \in Int /\ Sum(u) = Sum(u \ {z}) + w[z]
                                       /\ w[z] \in Nat
  <2> SUFFICES ASSUME NEW u \in SUBSET S, NEW z \in u
               PROVE  Sum(u \ {z}) \in Int /\ Sum(u) = Sum(u \ {z}) + w[z] /\ w[z] \in Nat
    OBVIOUS
  <2>1. IsFiniteSet(u) /\ \A x \in u : w[x] \in Int
    BY <1>1
  <2>2. w[z] \in Nat
    OBVIOUS
  <2> QED
    BY <2>1, <2>2, SumGrows
<1>3. \A u \in SUBSET S : Sum(u) \in Int
  <2> SUFFICES ASSUME NEW u \in SUBSET S PROVE Sum(u) \in Int
    OBVIOUS
  <2>1. CASE u = {}
    BY <2>1, SumOfNothing
  <2>2. ASSUME NEW z \in u PROVE Sum(u) \in Int
    <3>1. Sum(u \ {z}) \in Int /\ Sum(u) = Sum(u \ {z}) + w[z] /\ w[z] \in Nat
      BY <1>2
    <3> HIDE DEF Sum
    <3> QED
      BY <3>1
  <2> QED
    BY <2>1, <2>2
<1> HIDE DEF Sum
<1>4. ASSUME NEW b \in SUBSET S PROVE Less(b) = {}
  <2> SUFFICES ASSUME Less(b) # {} PROVE FALSE
    OBVIOUS
  <2>1. Sizes(b) \in SUBSET Nat /\ Sizes(b) # {}
    BY <1>1
  <2>2. PICK n \in Sizes(b) : \A m \in Sizes(b) : n <= m
    BY <2>1, LeastNumber
  <2>3. PICK u \in Less(b) : Cardinality(u) = n
    OBVIOUS
  <2>4. u # b /\ u \in SUBSET S /\ b \subseteq u
    BY <1>3, <2>3
  <2>5. PICK z \in u : z \notin b
    BY <2>4
  <2>6. Cardinality(u \ {z}) = n - 1 /\ n \in Nat
    BY <1>1, <2>3, <2>4, FS_RemoveElement
  <2>7. u \ {z} \notin Less(b)
    <3>1. ASSUME u \ {z} \in Less(b) PROVE FALSE
      <4>1. Cardinality(u \ {z}) \in Sizes(b)
        BY <3>1
      <4> HIDE DEF Sizes
      <4> QED
        BY <2>2, <2>6, <4>1
    <3> QED
      BY <3>1
  <2>8. Sum(b) <= Sum(u \ {z})
    BY <2>4, <2>5, <2>7
  <2>9. Sum(b) <= Sum(u)
    BY <1>2, <1>3, <2>4, <2>8
  <2> QED
    BY <1>3, <2>3, <2>9
<1>5. Sum({}) = 0
  BY SumOfNothing DEF Sum
<1>6. \A u \in SUBSET S : 0 <= Sum(u)
  BY <1>4, <1>5
<1> QED
  BY <1>3, <1>4, <1>6 DEF Sum

\* When a request takes the place of the oldest one, the n + 1 latest are it and the n
\* latest before; the oldest is none of those.
LEMMA RecentMoves ==
    ASSUME NEW l \in 0 .. win_ - 1, NEW k, Follows(k, l)
    PROVE  /\ k \in 0 .. win_ - 1
           /\ Recent(k, 1) = {k}
           /\ \A n \in 1 .. win_ : k \in Recent(k, n)
           /\ \A n \in 1 .. win_ - 1 : k \notin Recent(l, n) /\ Recent(k, n + 1) \ {k} = Recent(l, n)
<1>1. win_ \in Nat \ {0}
  BY LoopAssumption
<1>2. k = IF l + 1 = win_ THEN 0 ELSE l + 1
  BY <1>1 DEF Follows
<1>3. k \in 0 .. win_ - 1 /\ Age(k, k) = 0 /\ Age(l, k) = win_ - 1
  BY <1>1, <1>2 DEF Age
<1>4. \A j \in 0 .. win_ - 1 : j # k => Age(k, j) = Age(l, j) + 1 /\ Age(l, j) >= 0 /\ Age(l, j) \in Int
  BY <1>1, <1>2 DEF Age
<1>5. Recent(k, 1) = {k}
  BY <1>3, <1>4 DEF Recent
<1>6. \A n \in 1 .. win_ : k \in Recent(k, n)
  BY <1>3 DEF Recent
<1>7. ASSUME NEW n \in 1 .. win_ - 1
      PROVE  k \notin Recent(l, n) /\ Recent(k, n + 1) \ {k} = Recent(l, n)
  <2>1. k \notin Recent(l, n)
    BY <1>1, <1>3 DEF Recent
  <2>2. \A j \in 0 .. win_ - 1 : j # k => (Age(k, j) < n + 1 <=> Age(l, j) < n)
    BY <1>1, <1>4
  <2> QED
    BY <2>1, <2>2 DEF Recent
<1> QED
  BY <1>3, <1>5, <1>6, <1>7

\* A request is remembered.  It asks for nothing, or with those that are remembered for
\* no more than the queue holds.
LEMMA RequestCovered ==
    ASSUME WindowInv, NEW k, Follows(k, last), NEW m \in Nat, NEW b \in Nat,
           m = 0 \/ (total_vol - vec_vol[k]) + m <= b
    PROVE  LET v == [vec_vol EXCEPT ![k] = m]
               s == [seen EXCEPT ![k] = b]
           IN  /\ (total_vol - vec_vol[k]) + m = SumFunctionOnSet(v, 0 .. win_ - 1)
               /\ Covered(k, v, s)
<1> DEFINE W == 0 .. win_ - 1
           v == [vec_vol EXCEPT ![k] = m]
           s == [seen EXCEPT ![k] = b]
           Sum(f, u) == SumFunctionOnSet(f, u)
<1>1. /\ win_ \in Nat \ {0} /\ last \in W /\ vec_vol \in [W -> Nat] /\ seen \in [W -> Nat]
      /\ total_vol = Sum(vec_vol, W) /\ Covered(last, vec_vol, seen)
  <2>1. win_ \in Nat \ {0}
    BY LoopAssumption
  <2> QED
    BY <2>1, Zenon DEF WindowInv
<1>2. /\ k \in W /\ Recent(k, 1) = {k} /\ \A n \in 1 .. win_ : k \in Recent(k, n)
      /\ \A n \in 1 .. win_ - 1 : k \notin Recent(last, n) /\ Recent(k, n + 1) \ {k} = Recent(last, n)
  <2>1. last \in 0 .. win_ - 1
    BY DEF WindowInv
  <2> HIDE DEF W
  <2> QED
    BY <2>1, RecentMoves, Zenon DEF W
<1>3. IsFiniteSet(W) /\ \A l, n : Recent(l, n) \subseteq W /\ IsFiniteSet(Recent(l, n))
  <2>1. IsFiniteSet(W)
    <3>1. 0 \in Int /\ win_ - 1 \in Int
      BY <1>1
    <3> QED
      BY <3>1, FS_Interval, Zenon
  <2>2. \A l, n : Recent(l, n) \subseteq W
    BY DEF Recent
  <2> QED
    BY <2>1, <2>2, FS_Subset
<1>4. /\ \A x \in W : vec_vol[x] \in Nat /\ v[x] \in Nat /\ (x # k => v[x] = vec_vol[x])
      /\ v[k] = m /\ v \in [W -> Nat]
  BY <1>1, <1>2
<1>5. \A x \in W : (x # k => s[x] = seen[x]) /\ s[k] = b
  BY <1>1, <1>2
<1> HIDE DEF v, s, W
<1>6. \A u \in SUBSET W : k \notin u => Sum(v, u) = Sum(vec_vol, u)
  <2> SUFFICES ASSUME NEW u \in SUBSET W, k \notin u PROVE Sum(v, u) = Sum(vec_vol, u)
    OBVIOUS
  <2>1. IsFiniteSet(u)
    BY <1>3, FS_Subset
  <2>2. \A x \in u : v[x] \in Int /\ vec_vol[x] = v[x]
    BY <1>4
  <2> HIDE DEF Sum
  <2> QED
    BY <2>1, <2>2, SumSame DEF Sum
\* The sums of the window with and without the entry.
<1>7. \A u \in SUBSET W : k \in u =>
         /\ Sum(v, u) = Sum(vec_vol, u \ {k}) + m
         /\ Sum(vec_vol, u) = Sum(vec_vol, u \ {k}) + vec_vol[k]
         /\ Sum(vec_vol, u \ {k}) \in Int
  <2> SUFFICES ASSUME NEW u \in SUBSET W, k \in u
               PROVE  /\ Sum(v, u) = Sum(vec_vol, u \ {k}) + m
                      /\ Sum(vec_vol, u) = Sum(vec_vol, u \ {k}) + vec_vol[k]
                      /\ Sum(vec_vol, u \ {k}) \in Int
    OBVIOUS
  <2>1. IsFiniteSet(u)
    BY <1>3, FS_Subset
  <2>2. (\A x \in u : v[x] \in Int) /\ \A x \in u : vec_vol[x] \in Int
    BY <1>4
  <2>3. Sum(v, u) = Sum(v, u \ {k}) + v[k]
    BY <2>1, <2>2, SumGrows
  <2>4. Sum(vec_vol, u) = Sum(vec_vol, u \ {k}) + vec_vol[k] /\ Sum(vec_vol, u \ {k}) \in Int
    BY <2>1, <2>2, SumGrows
  <2>5. Sum(v, u \ {k}) = Sum(vec_vol, u \ {k})
    BY <1>6
  <2> QED
    BY <1>4, <2>3, <2>4, <2>5
<1>8. /\ Sum(v, W) = Sum(vec_vol, W \ {k}) + m
      /\ total_vol - vec_vol[k] = Sum(vec_vol, W \ {k})
  <2>1. Sum(v, W) = Sum(vec_vol, W \ {k}) + m
    BY <1>2, <1>7
  <2>2. Sum(vec_vol, W) = Sum(vec_vol, W \ {k}) + vec_vol[k] /\ Sum(vec_vol, W \ {k}) \in Int
    BY <1>2, <1>7
  <2>3. vec_vol[k] \in Nat
    BY <1>2, <1>4
  <2> HIDE DEF Sum
  <2> QED
    BY <1>1, <2>1, <2>2, <2>3
<1>9. ASSUME NEW n \in 1 .. win_
      PROVE  \E x \in Recent(k, n) : Sum(v, Recent(k, n)) <= s[x]
  <2>1. CASE n = 1
    <3>1. Sum(v, {k}) = Sum(vec_vol, {k} \ {k}) + m
      BY <1>2, <1>7
    <3>2. {k} \ {k} = {} /\ Sum(vec_vol, {}) = 0
      BY SumOfNothing
    <3>3. Sum(vec_vol, W \ {k}) \in Nat
      <4>1. \A x \in W : vec_vol[x] \in Nat
        BY <1>4
      <4> QED
        BY <1>3, <4>1, SumOfPart
    <3> HIDE DEF Sum
    <3>4. Sum(v, {k}) = m
      <4>1. Sum(v, {k}) = 0 + m
        BY <3>1, <3>2
      <4> QED
        BY <4>1
    <3>5. m <= b
      BY <1>8, <3>3
    <3>6. Recent(k, n) = {k} /\ s[k] = b
      BY <1>2, <1>5, <2>1
    <3>7. Sum(v, {k}) <= s[k]
      BY <3>4, <3>5, <3>6
    <3> QED
      BY <3>6, <3>7, Zenon
  <2>2. CASE n # 1
    <3> DEFINE R == Recent(last, n - 1)
    <3>1. n - 1 \in 1 .. win_ - 1 /\ (n - 1) + 1 = n /\ n - 1 \in 1 .. win_
      BY <1>1, <2>2
    <3>2. k \notin R /\ Recent(k, n) \ {k} = R /\ R \subseteq W /\ k \in Recent(k, n)
      BY <1>2, <1>3, <3>1
    <3>3. PICK x \in R : Sum(vec_vol, R) <= seen[x]
      BY <1>1, <3>1 DEF Covered
    <3>4. Sum(v, Recent(k, n)) = Sum(vec_vol, R) + m /\ Sum(vec_vol, R) \in Int
      BY <1>3, <1>7, <3>2
    <3>5. Sum(vec_vol, R) <= Sum(vec_vol, W \ {k}) /\ Sum(vec_vol, W \ {k}) \in Nat
      <4>1. R \in SUBSET (W \ {k}) /\ IsFiniteSet(W \ {k})
        BY <1>3, <3>2, FS_Subset
      <4>2. \A y \in W \ {k} : vec_vol[y] \in Nat
        BY <1>4
      <4> HIDE DEF R
      <4> QED
        BY <4>1, <4>2, SumOfPart
    <3>6. s[x] = seen[x] /\ x \in Recent(k, n) /\ s[k] = b
      BY <1>2, <1>5, <3>2
    <3> HIDE DEF Sum, R
    <3>7. CASE m = 0
      BY <3>3, <3>4, <3>6, <3>7
    <3>8. CASE m # 0
      <4>1. Sum(vec_vol, R) + m <= b
        BY <1>8, <3>4, <3>5, <3>8
      <4> QED
        BY <3>2, <3>4, <3>6, <4>1
    <3> QED
      BY <3>7, <3>8
  <2> QED
    BY <2>1, <2>2
<1> QED
  BY <1>8, <1>9 DEF Covered, v, s, W

LEMMA WindowInit == Init => WindowInv
<1> SUFFICES ASSUME Init PROVE WindowInv
  OBVIOUS
<1> DEFINE W == 0 .. win_ - 1
<1>1. win_ \in Nat \ {0} /\ IsFiniteSet(W)
  <2>1. win_ \in Nat \ {0}
    BY LoopAssumption
  <2>2. 0 \in Int /\ win_ - 1 \in Int
    BY <2>1
  <2>3. IsFiniteSet(W)
    BY <2>2, FS_Interval, Zenon
  <2> QED
    BY <2>1, <2>3
<1>2. /\ backlog = 0 /\ arrived = 0 /\ prev_in = 0 /\ input_cur = 0 /\ last = 0 /\ total_vol = 0
      /\ vec_vol = [k \in W |-> 0] /\ seen = [k \in W |-> 0]
  BY DEF Init
<1>3. last \in W /\ vec_vol \in [W -> Nat] /\ seen \in [W -> Nat]
  BY <1>1, <1>2
<1>4. \A u \in SUBSET W : SumFunctionOnSet(vec_vol, u) = 0
  <2> SUFFICES ASSUME NEW u \in SUBSET W PROVE SumFunctionOnSet(vec_vol, u) = 0
    OBVIOUS
  <2> DEFINE Some == {x \in SUBSET W : SumFunctionOnSet(vec_vol, x) # 0}
             Sizes == {Cardinality(x) : x \in Some}
  <2> SUFFICES ASSUME Some # {} PROVE FALSE
    OBVIOUS
  <2>1. \A x \in SUBSET W : IsFiniteSet(x) /\ Cardinality(x) \in Nat
    BY <1>1, FS_Subset, FS_CardinalityType
  <2>2. Sizes \in SUBSET Nat /\ Sizes # {}
    BY <2>1
  <2>3. PICK n \in Sizes : \A m \in Sizes : n <= m
    BY <2>2, LeastNumber
  <2>4. PICK x \in Some : Cardinality(x) = n
    OBVIOUS
  <2>5. PICK z \in x : TRUE
    BY <2>4, SumOfNothing
  <2>6. Cardinality(x \ {z}) = n - 1 /\ n \in Nat /\ IsFiniteSet(x)
    BY <2>1, <2>4, <2>5, FS_RemoveElement
  <2>7. SumFunctionOnSet(vec_vol, x \ {z}) = 0
    <3>1. n - 1 \notin Sizes
      BY <2>2, <2>3, <2>6
    <3>2. x \ {z} \in SUBSET W
      BY <2>4
    <3> QED
      BY <2>6, <3>1, <3>2
  <2>8. (\A y \in x : vec_vol[y] \in Int) /\ vec_vol[z] = 0
    BY <1>2, <2>4, <2>5
  <2>9. SumFunctionOnSet(vec_vol, x) = SumFunctionOnSet(vec_vol, x \ {z}) + vec_vol[z]
    BY <2>5, <2>6, <2>8, SumGrows
  <2> QED
    BY <2>4, <2>7, <2>8, <2>9
<1>5. Covered(last, vec_vol, seen)
  <2> SUFFICES ASSUME NEW n \in 1 .. win_
               PROVE  \E k \in Recent(last, n) : SumFunctionOnSet(vec_vol, Recent(last, n)) <= seen[k]
    BY DEF Covered
  <2>1. Recent(last, n) \in SUBSET W
    BY DEF Recent
  <2>2. 0 \in Recent(last, n) /\ seen[0] = 0
    BY <1>1, <1>2 DEF Recent, Age
  <2> QED
    BY <1>4, <2>1, <2>2
<1>6. SumFunctionOnSet(vec_vol, W) = 0
  BY <1>4
<1> QED
  BY <1>2, <1>3, <1>5, <1>6 DEF WindowInv

\* Only a request changes the window.
LEMMA WindowStep == WindowInv /\ [Next]_vars => WindowInv'
<1> SUFFICES ASSUME WindowInv, [Next]_vars PROVE WindowInv'
  OBVIOUS
<1> DEFINE W == 0 .. win_ - 1
<1>1. /\ win_ \in Nat \ {0} /\ limit_ \in Nat /\ rbdc_ \in BOOLEAN /\ vbdc_ \in BOOLEAN
      /\ backlog \in Nat /\ arrived \in Nat /\ prev_in \in 0 .. arrived /\ input_cur \in Nat
      /\ last \in W /\ vec_vol \in [W -> Nat] /\ seen \in [W -> Nat]
  BY LoopAssumption DEF WindowInv
<1>2. ASSUME NEW lost, Request(lost) PROVE WindowInv'
  <2> DEFINE input == IF rbdc_ THEN Fresh ELSE input_cur
             k == (last + 1) % win_
             missing == Missing(Kept(k), input)
  <2>1. /\ UNCHANGED <<backlog, arrived>>
        /\ rbdc_ => prev_in' = arrived /\ input_cur' = Fresh
        /\ ~rbdc_ => UNCHANGED <<prev_in, input_cur>>
        /\ vbdc_ => /\ last' = k /\ vec_vol' = [vec_vol EXCEPT ![k] = missing]
                    /\ total_vol' = Kept(k) + missing /\ seen' = [seen EXCEPT ![k] = backlog]
        /\ ~vbdc_ => UNCHANGED <<last, vec_vol, total_vol, seen>>
    BY <1>2 DEF Request, queued, window
  <2>2. Fresh \in Nat /\ input \in Nat
    BY <1>1 DEF Fresh
  <2>3. prev_in' \in 0 .. arrived' /\ input_cur' \in Nat
    BY <1>1, <2>1, <2>2
  <2>4. CASE ~vbdc_
    BY <1>1, <2>1, <2>3, <2>4 DEF WindowInv
  <2>5. CASE vbdc_
    <3>1. k \in W
      <4> HIDE DEF k
      <4>1. Follows(k, last)
        BY DEF k, Follows
      <4> QED
        BY <1>1, <4>1, RecentMoves, Zenon
    <3>2. Kept(k) = total_vol - vec_vol[k] /\ Kept(k) \in Int
      <4>0. 0 \in Int /\ win_ - 1 \in Int
        BY <1>1
      <4>1. IsFiniteSet(W) /\ \A x \in W : vec_vol[x] \in Nat
        BY <1>1, <4>0, FS_Interval, Zenon
      <4>2. total_vol \in Nat
        BY <4>1, SumOfPart DEF WindowInv
      <4> QED
        BY <1>1, <3>1, <4>2 DEF Kept
    <3> HIDE DEF k, input
    <3>3. missing \in Nat /\ (missing = 0 \/ Kept(k) + missing <= backlog)
      BY <1>1, <2>2, <3>2 DEF Missing
    <3> HIDE DEF missing
    <3>4. /\ (total_vol - vec_vol[k]) + missing
               = SumFunctionOnSet([vec_vol EXCEPT ![k] = missing], W)
          /\ Covered(k, [vec_vol EXCEPT ![k] = missing], [seen EXCEPT ![k] = backlog])
      BY <1>1, <3>2, <3>3, RequestCovered DEF k, Follows
    <3>5. /\ last' = k /\ vec_vol' = [vec_vol EXCEPT ![k] = missing]
          /\ total_vol' = Kept(k) + missing /\ seen' = [seen EXCEPT ![k] = backlog]
      BY <2>1, <2>5
    <3>6. vec_vol' \in [W -> Nat] /\ seen' \in [W -> Nat]
      BY <1>1, <3>1, <3>3, <3>5
    <3> QED
      BY <1>1, <2>1, <2>3, <3>1, <3>2, <3>4, <3>5, <3>6 DEF WindowInv
  <2> QED
    BY <1>1, <2>4, <2>5
<1>3. CASE Arrive
  <2>1. /\ arrived' = arrived + 1 /\ backlog' \in Nat
        /\ UNCHANGED <<prev_in, input_cur, last, vec_vol, total_vol, seen>>
    BY <1>1, <1>3 DEF Arrive, requester, window
  <2> QED
    BY <1>1, <2>1 DEF WindowInv
<1>4. CASE SlotHandler
  <2>1. /\ backlog' \in Nat
        /\ UNCHANGED <<arrived, prev_in, input_cur, last, vec_vol, total_vol, seen>>
    BY <1>1, <1>4 DEF SlotHandler, requester, window
  <2> QED
    BY <1>1, <2>1 DEF WindowInv
<1>5. ASSUME UNCHANGED <<backlog, arrived, prev_in, input_cur, last, vec_vol, total_vol, seen>>
      PROVE  WindowInv'
  BY <1>5 DEF WindowInv
<1>6. CASE StartStop
  BY <1>5, <1>6 DEF StartStop, queued, window
<1>7. CASE BtpDecoding
  BY <1>5, <1>7 DEF BtpDecoding, queued, requester, window
<1>8. CASE RecvControl
  BY <1>5, <1>8 DEF RecvControl, queued, requester, window
<1>9. CASE Allocate
  BY <1>5, <1>9 DEF Allocate, queued, requester, window
<1>10. ASSUME NEW lost, SendPlan(lost) PROVE WindowInv'
  BY <1>5, <1>10 DEF SendPlan, queued, window
<1>11. CASE UNCHANGED vars
  BY <1>5, <1>11 DEF vars, queued, requester, window
<1> QED
  BY <1>2, <1>3, <1>4, <1>6, <1>7, <1>8, <1>9, <1>10, <1>11 DEF Next

\* "VBDC requests keep previous requests into account" (mac-requester.cc): total_vol is the sum
\* of the window, and no more is asked for than the queue held at one of its requests,
\* for any window, rates, losses and allocator.
THEOREM WindowIsSound == Spec => []WindowSound
<1>1. WindowInv => WindowSound
  <2> SUFFICES ASSUME WindowInv PROVE WindowSound
    OBVIOUS
  <2>1. DOMAIN vec_vol = 0 .. win_ - 1 /\ DOMAIN seen = 0 .. win_ - 1 /\ win_ \in 1 .. win_
    <3>1. win_ \in Nat \ {0}
      BY LoopAssumption
    <3> QED
      BY <3>1 DEF WindowInv
  <2>2. Recent(last, win_) = 0 .. win_ - 1
    <3>1. \A j \in 0 .. win_ - 1 : Age(last, j) < win_
      BY LoopAssumption DEF WindowInv, Age
    <3> QED
      BY <3>1 DEF Recent
  <2>3. total_vol = SumFunction(vec_vol)
    BY <2>1 DEF WindowInv, SumFunction
  <2>4. \E k \in 0 .. win_ - 1 : SumFunctionOnSet(vec_vol, 0 .. win_ - 1) <= seen[k]
    BY <2>1, <2>2 DEF WindowInv, Covered
  <2> QED
    BY <2>1, <2>3, <2>4 DEF WindowInv, WindowSound
<1> QED
  BY <1>1, WindowInit, WindowStep, PTL DEF Spec

-----------------------------------------------------------------------------
LEMMA FrameAccepted ==
  ASSUME TypeOK, NEW car \in Nat, NEW ts \in Nat, NEW bs \in Nat,
         Acceptable(car, ts, bs), AddNewFrame(car, ts, bs)
  PROVE  /\ car \in Nat \ {0} /\ ts \in Nat \ {0}
         /\ [carriers_ |-> car, timeslots_ |-> ts, burstsize_ |-> bs] \in Frame
         /\ sf' = Append(sf, [carriers_ |-> car, timeslots_ |-> ts, burstsize_ |-> bs])
         /\ sf' \in Seq(Frame)
         /\ masksize' = masksize * ts /\ masksize' \in Nat \ {0}
         /\ SlotsWith(car, ts) = slot_count_ + car * ts /\ SlotsWith(car, ts) \in Nat
<1>1. car \in Nat \ {0} /\ ts \in Nat \ {0}
  BY DEF Acceptable, MAX_CARR, MAX_TS
<1>2. [carriers_ |-> car, timeslots_ |-> ts, burstsize_ |-> bs] \in Frame
  BY <1>1 DEF Frame
<1>3. sf' = Append(sf, [carriers_ |-> car, timeslots_ |-> ts, burstsize_ |-> bs])
  BY DEF AddNewFrame
<1>4. sf' \in Seq(Frame)
  BY <1>2, <1>3 DEF TypeOK
<1>5. masksize' = masksize * ts /\ masksize' \in Nat \ {0}
  BY <1>1 DEF AddNewFrame, MaskWith, TypeOK
<1>6. car * ts \in Nat
  BY <1>1
<1>7. SlotsWith(car, ts) = slot_count_ + car * ts /\ SlotsWith(car, ts) \in Nat
  BY <1>6 DEF SlotsWith, TypeOK
<1>8. QED
  BY <1>1, <1>2, <1>3, <1>4, <1>5, <1>7

LEMMA ConfigStep == TypeOK /\ [PlanNext]_script => TypeOK'
<1>. SUFFICES ASSUME TypeOK, [PlanNext]_script PROVE TypeOK'
  OBVIOUS
<1>1. CASE NewNode
  BY <1>1 DEF NewNode, TypeOK
<1>2. CASE InstallAllocator
  BY <1>2 DEF InstallAllocator, Attach, TypeOK
<1>3. CASE Run
  BY <1>3 DEF Run, TypeOK
<1>4. ASSUME NEW car \in CarrierChoices, NEW ts \in SlotChoices, NEW bs \in BurstChoices,
             NewFrame(car, ts, bs) \/ OverlongFrame(car, ts, bs)
      PROVE  TypeOK'
  <2>1. car \in Nat /\ ts \in Nat /\ bs \in Nat
    BY ChoiceAssumption
  <2>2. Acceptable(car, ts, bs) /\ AddNewFrame(car, ts, bs)
    BY <1>4 DEF NewFrame, OverlongFrame
  <2>3. sf' \in Seq(Frame) /\ masksize' \in Nat \ {0} /\ SlotsWith(car, ts) \in Nat
    BY <2>1, <2>2, FrameAccepted
  <2>4. QED
    BY <1>4, <2>3 DEF NewFrame, OverlongFrame, Attach, TypeOK
<1>5. ASSUME NEW car \in CarrierChoices, NEW ts \in SlotChoices, NEW bs \in BurstChoices,
             RefuseFrame(car, ts, bs)
      PROVE  TypeOK'
  BY <1>5 DEF RefuseFrame, TypeOK
<1>6. ASSUME NEW t \in 0 .. nodes - 1, NEW f \in DOMAIN sf, AddRule(t, f)
      PROVE  TypeOK'
  <2>1. <<t, f>> \in Nat \X Nat
    BY DEF TypeOK
  <2>2. QED
    BY <1>6, <2>1 DEF AddRule, TypeOK
<1>7. CASE RefuseRule
  BY <1>7 DEF RefuseRule, TypeOK
<1>8. CASE UNCHANGED script
  BY <1>8 DEF script, TypeOK
<1>9. QED
  BY <1>1, <1>2, <1>3, <1>4, <1>5, <1>6, <1>7, <1>8 DEF PlanNext

LEMMA Divides ==
  ASSUME NEW m \in Nat \ {0}, NEW u \in Nat \ {0}, NEW ts \in Nat \ {0}
  PROVE  (m * u) * ts = (m * ts) * u /\ m * ts \in 1 .. (m * u) * ts
<1>1. (m * u) * ts = (m * ts) * u
  BY SMT
<1>2. m * ts \in Nat \ {0}
  BY SMT
<1>3. m * ts <= (m * ts) * u
  BY <1>2, SMT
<1>4. QED
  BY <1>1, <1>2, <1>3

LEMMA MaskStep == TypeOK /\ MaskDivides /\ [PlanNext]_script => MaskDivides'
<1>. SUFFICES ASSUME TypeOK, MaskDivides, [PlanNext]_script PROVE MaskDivides'
  OBVIOUS
<1>1. ASSUME NEW car \in CarrierChoices, NEW ts \in SlotChoices, NEW bs \in BurstChoices,
             NewFrame(car, ts, bs) \/ OverlongFrame(car, ts, bs)
      PROVE  MaskDivides'
  <2>0. Acceptable(car, ts, bs) /\ AddNewFrame(car, ts, bs)
    BY <1>1 DEF NewFrame, OverlongFrame
  <2>1. car \in Nat /\ ts \in Nat /\ bs \in Nat
    BY ChoiceAssumption
  <2>2. /\ ts \in Nat \ {0} /\ masksize' = masksize * ts /\ masksize \in Nat \ {0}
        /\ sf' = Append(sf, [carriers_ |-> car, timeslots_ |-> ts, burstsize_ |-> bs])
        /\ sf \in Seq(Frame)
    BY <2>0, <2>1, FrameAccepted DEF TypeOK
  <2>3. SUFFICES ASSUME NEW k \in DOMAIN sf'
                 PROVE  \E m \in 1 .. masksize' : masksize' = m * sf'[k].timeslots_
    BY DEF MaskDivides
  <2>4. CASE k \in DOMAIN sf
    <3>1. sf'[k] = sf[k] /\ sf[k] \in Frame
      BY <2>2, <2>4
    <3>2. sf[k].timeslots_ \in Nat \ {0}
      BY <3>1 DEF Frame
    <3>3. PICK m \in 1 .. masksize : masksize = m * sf[k].timeslots_
      BY <2>4 DEF MaskDivides
    <3>4. m \in Nat \ {0}
      BY <2>2, <3>3
    <3>5. /\ (m * sf[k].timeslots_) * ts = (m * ts) * sf[k].timeslots_
          /\ m * ts \in 1 .. (m * sf[k].timeslots_) * ts
      BY <2>2, <3>2, <3>4, Divides
    <3>6. QED
      BY <2>2, <3>1, <3>3, <3>5
  <2>5. CASE k = Len(sf) + 1
    <3>1. sf'[k].timeslots_ = ts
      BY <2>2, <2>5
    <3>2. masksize <= masksize * ts /\ masksize * ts \in Nat
      BY <2>2
    <3>3. masksize \in 1 .. masksize' /\ masksize' = masksize * ts
      BY <2>2, <3>2
    <3>4. QED
      BY <3>1, <3>3
  <2>6. k \in DOMAIN sf \/ k = Len(sf) + 1
    BY <2>2
  <2>7. QED
    BY <2>4, <2>5, <2>6
<1>2. CASE UNCHANGED <<sf, masksize>>
  BY <1>2 DEF MaskDivides
<1>3. QED
  BY <1>1, <1>2
     DEF PlanNext, NewNode, InstallAllocator, Run, RefuseFrame,
         AddRule, RefuseRule, script

\* The configuration keeps its types, whatever the script asks for.
THEOREM ConfigTyped == PlanSpec => []TypeOK
<1>1. PlanInit => TypeOK
  BY DEF PlanInit, TypeOK, Frame
<1>2. QED
  BY <1>1, ConfigStep, PTL DEF PlanSpec

\* The timeslots of every frame divide the mask, for any frames in any order:
\* the assumption under which the allocator's plans are exclusive in time.
THEOREM MaskDivided == PlanSpec => []MaskDivides
<1>1. PlanInit => MaskDivides
  BY DEF PlanInit, MaskDivides
<1>2. QED
  BY <1>1, MaskStep, ConfigTyped, PTL DEF PlanSpec
-----------------------------------------------------------------------------
(* The slots that Tcl and the allocator count                              *)

CellsIn(q) == FoldSeq(LAMBDA f, n : n + f.carriers_ * f.timeslots_, 0, q)
CellsOf(q) == [k \in DOMAIN q |-> q[k].carriers_ * q[k].timeslots_]

\* The frames of a superframe are finitely many, and each has some cells.
LEMMA CellsTyped ==
  ASSUME NEW q \in Seq(Frame)
  PROVE  IsFiniteSet(DOMAIN q) /\ \A k \in DOMAIN q : CellsOf(q)[k] \in Int
<1>1. IsFiniteSet(1 .. Len(q)) /\ DOMAIN q = 1 .. Len(q)
  BY FS_Interval
<1>2. ASSUME NEW k \in DOMAIN q PROVE CellsOf(q)[k] \in Int
  <2>1. q[k] \in Frame
    OBVIOUS
  <2>2. q[k].carriers_ \in Nat /\ q[k].timeslots_ \in Nat
    BY <2>1 DEF Frame
  <2>3. q[k].carriers_ * q[k].timeslots_ \in Int
    BY <2>2
  <2>. QED
    BY <2>3 DEF CellsOf
<1>. QED
  BY <1>1, <1>2

\* The fold over the frames is the sum of their cells.
LEMMA CellsAdded ==
  ASSUME NEW q \in Seq(Frame)
  PROVE  CellsIn(q) = SumFunctionOnSet(CellsOf(q), DOMAIN q)
<1>. DEFINE S == DOMAIN q
            w == CellsOf(q)
            Iter(H) == H = [s \in SUBSET S |->
                              IF s = {} THEN 0
                              ELSE H[s \ {Pick(s)}] + q[Pick(s)].carriers_ * q[Pick(s)].timeslots_]
            G == CHOOSE H : Iter(H)
<1>1. IsFiniteSet(S) /\ \A k \in S : w[k] \in Int
  BY CellsTyped
<1>2. \A s \in SUBSET S : s # {} =>
         Pick(s) \in S /\ w[Pick(s)] = q[Pick(s)].carriers_ * q[Pick(s)].timeslots_
  BY PickInside DEF CellsOf
<1>. HIDE DEF w
<1>3. \E H : Iter(H)
  <2>1. PICK F \in [SUBSET S -> Int] : Adds(F, w, SUBSET S)
    BY <1>1, SumExists
  <2>2. ASSUME NEW s \in SUBSET S
        PROVE  F[s] = IF s = {} THEN 0
                      ELSE F[s \ {Pick(s)}] + q[Pick(s)].carriers_ * q[Pick(s)].timeslots_
    <3>1. F[s] = IF s = {} THEN 0 ELSE w[Pick(s)] + F[s \ {Pick(s)}]
      BY <2>1 DEF Adds, SumStep
    <3>2. s # {} => w[Pick(s)] \in Int /\ F[s \ {Pick(s)}] \in Int
      BY <1>1, <1>2, <2>1
    <3>3. s # {} => F[s] = F[s \ {Pick(s)}] + w[Pick(s)]
      BY <3>1, <3>2
    <3>. QED
      BY <1>2, <3>1, <3>3
  <2>3. Iter(F)
    BY <2>1, <2>2
  <2>. QED
    BY <2>3
<1>4. Iter(G)
  <2>. HIDE DEF Iter
  <2>. QED
    BY <1>3, Zenon
<1>5. CellsIn(q) = G[S]
  BY Zenon DEF CellsIn, FoldSeq, FoldFunction, FoldFunctionOnSet, MapThenFoldSet, Pick
<1>. HIDE DEF G
<1>6. AddsBehind(G, w, SUBSET S)
  BY <1>2, <1>4 DEF AddsBehind
<1>7. G[S] = SumFunctionOnSet(w, S)
  BY <1>1, <1>6, SumOfFold
<1>. QED
  BY <1>5, <1>7 DEF w

\* A frame adds its cells.
LEMMA CellsGrow ==
  ASSUME NEW q \in Seq(Frame), NEW f \in Frame
  PROVE  CellsIn(Append(q, f)) = CellsIn(q) + f.carriers_ * f.timeslots_
<1>0. SUFFICES ASSUME NEW r, r = Append(q, f), NEW end, end = Len(q) + 1
               PROVE  CellsIn(r) = CellsIn(q) + f.carriers_ * f.timeslots_
  OBVIOUS
<1>1. /\ r \in Seq(Frame) /\ end \in DOMAIN r /\ DOMAIN r \ {end} = DOMAIN q
      /\ r[end] = f /\ \A k \in DOMAIN q : r[k] = q[k] /\ k \in DOMAIN r
  <2>1. DOMAIN r = 1 .. Len(q) + 1 /\ DOMAIN q = 1 .. Len(q) /\ Len(q) \in Nat
    BY <1>0
  <2>2. r \in Seq(Frame) /\ r[end] = f /\ \A k \in DOMAIN q : r[k] = q[k]
    BY <1>0
  <2>. QED
    BY <1>0, <2>1, <2>2
<1>2. /\ IsFiniteSet(DOMAIN r) /\ \A k \in DOMAIN r : CellsOf(r)[k] \in Int
      /\ IsFiniteSet(DOMAIN q) /\ \A k \in DOMAIN q : CellsOf(q)[k] \in Int
  BY <1>1, CellsTyped
<1>3. CellsIn(r) = SumFunctionOnSet(CellsOf(r), DOMAIN r)
      /\ CellsIn(q) = SumFunctionOnSet(CellsOf(q), DOMAIN q)
  BY <1>1, CellsAdded
<1>4. SumFunctionOnSet(CellsOf(r), DOMAIN r) =
        SumFunctionOnSet(CellsOf(r), DOMAIN r \ {end}) + CellsOf(r)[end]
  BY <1>1, <1>2, SumGrows, ZenonT(30)
<1>5. \A k \in DOMAIN q : CellsOf(q)[k] = CellsOf(r)[k]
  BY <1>1 DEF CellsOf
<1>6. SumFunctionOnSet(CellsOf(r), DOMAIN q) = SumFunctionOnSet(CellsOf(q), DOMAIN q)
  BY <1>2, <1>5, SumSame
<1>7. CellsOf(r)[end] = f.carriers_ * f.timeslots_
  BY <1>1 DEF CellsOf
<1>. QED
  BY <1>1, <1>3, <1>4, <1>6, <1>7

\* As long as the script goes on, what it counts in Tcl is what the frames of the
\* allocator hold, the busy mask of a terminal fits in its bytes, and no terminal is beyond
\* the tables, for any frames in any order: the frame whose mask is too long, which the
\* allocator has taken by then, and the terminal too many end the script.
THEOREM CellsCounted == PlanSpec => []SuperframeUsable
<1>. DEFINE Usable == phase # "exited" => /\ masksize <= MSK_LEN * 8
                                          /\ slot_count_ = CellsIn(sf)
                                          /\ nodes <= MAX_TERM
<1>1. PlanInit => Usable
  <2>. SUFFICES ASSUME PlanInit PROVE Usable
    OBVIOUS
  <2>1. /\ sf = << >> /\ masksize = 1 /\ slot_count_ = 0 /\ nodes = 0
        /\ sf \in Seq(Frame) /\ DOMAIN sf = {}
    BY DEF PlanInit
  <2>2. CellsIn(sf) = 0
    BY <2>1, CellsAdded, SumOfNothing
  <2>3. 0 <= MAX_TERM
    BY ChoiceAssumption
  <2>. QED
    BY <2>1, <2>2, <2>3 DEF MSK_LEN
<1>2. TypeOK /\ Usable /\ [PlanNext]_script => Usable'
  <2>. SUFFICES ASSUME TypeOK, Usable, [PlanNext]_script, phase' # "exited"
               PROVE  /\ masksize' <= MSK_LEN * 8
                      /\ slot_count_' = CellsIn(sf')
                      /\ nodes' <= MAX_TERM
    BY Zenon
  <2>1. ASSUME NEW car \in CarrierChoices, NEW ts \in SlotChoices, NEW bs \in BurstChoices,
               NewFrame(car, ts, bs)
        PROVE  masksize' <= MSK_LEN * 8 /\ slot_count_' = CellsIn(sf') /\ nodes' <= MAX_TERM
    <3>. DEFINE f == [carriers_ |-> car, timeslots_ |-> ts, burstsize_ |-> bs]
    <3>1. car \in Nat /\ ts \in Nat /\ bs \in Nat
      BY ChoiceAssumption
    <3>2. Acceptable(car, ts, bs) /\ AddNewFrame(car, ts, bs) /\ phase = "script"
      BY <2>1 DEF NewFrame, CanConfigure
    <3>3. /\ f \in Frame /\ f.carriers_ = car /\ f.timeslots_ = ts
          /\ sf' = Append(sf, f) /\ sf \in Seq(Frame)
      BY <3>1, <3>2, FrameAccepted DEF TypeOK
    <3>4. slot_count_' = slot_count_ + car * ts /\ masksize' <= MSK_LEN * 8 /\ nodes' = nodes
      BY <2>1 DEF NewFrame, SlotsWith, MaskHolds
    <3>5. CellsIn(sf') = CellsIn(sf) + car * ts
      <4>. HIDE DEF f
      <4>. QED
        BY <3>3, CellsGrow
    <3>. QED
      BY <3>2, <3>4, <3>5
  <2>2. CASE NewNode
    <3>1. /\ phase = "script" /\ nodes' <= MAX_TERM
          /\ UNCHANGED <<sf, masksize, slot_count_>>
      BY <2>2, ChoiceAssumption DEF NewNode, TypeOK
    <3>. QED
      BY <3>1
  <2>3. CASE phase # "exited" /\ UNCHANGED <<sf, masksize, slot_count_, nodes>>
    BY <2>3
  <2>. QED
    BY <2>1, <2>2, <2>3
       DEF PlanNext, InstallAllocator, Run, RefuseFrame, OverlongFrame,
           AddRule, RefuseRule, CanConfigure, script
<1>3. Usable => SuperframeUsable
  BY Zenon DEF SuperframeUsable, CellsIn
<1>. QED
  BY <1>1, <1>2, <1>3, ConfigTyped, PTL DEF PlanSpec
=============================================================================
