-------------------------- MODULE PcntlSignals_proof --------------------------
(***************************************************************************)
(* What is proved of a request (MCRequest): the queue of signals, by the   *)
(* inductive invariant QueueInv, and output buffers and directives, whose  *)
(* proofs are in modules of their own, next to it.                         *)
(*                                                                         *)
(* QueueInv names the three lists in memory: S of the spare entries, P of  *)
(* what remains to be played and W of what waits, so that no step has to   *)
(* reason about a walk along pointers; that the walks find these lists is  *)
(* one lemma (WalkIsPath).                                                 *)
(***************************************************************************)
EXTENDS MCRequest, SequenceTheorems, FiniteSetTheorems, WellFoundedInduction, TLAPS

-----------------------------------------------------------------------------
(* The queue of signals: types *)

Ats == {"script", "alloc", "add", "clear", "user", "give", "drop", "free head", "spares",
        "free spare", "off"}

Frame == [sig : Sigs, at : {"pop", "test", "append", "first", "tail"}, psig : Entries,
          old : Pointers]

Mains == [at : Ats, back : {"script", "user"}, queue : Pointers, entry : Pointers, left : 0 .. Batch]

MainOK ==
    /\ main \in Mains
    /\ main.at \in {"user", "clear", "give"} => main.queue # NULL
    /\ main.at \in {"alloc", "add"} => (main.back = "user" <=> main.queue # NULL)
    /\ main.at \notin {"user", "clear", "give", "alloc", "add"} => main.queue = NULL
    /\ main.queue # NULL => processing
    /\ main.at \in {"add", "free head", "free spare"} => main.entry # NULL
    /\ main.at \in {"alloc", "add"} => main.left > 0

\* pcntl_signal() has room for what it allocates.
Room ==
    /\ main.at = "alloc" => Cardinality(memory) + main.left <= MaxEntries
    /\ main.at = "add" => Cardinality(memory) + main.left <= MaxEntries + 1

\* The handlers that have not queued their signal yet.
Active(fs) == {i \in DOMAIN fs : fs[i].at # "tail"}

\* A handler of each signal at most, and each may yet queue a signal (Counted).
FramesOK ==
    /\ frames \in Seq(Frame)
    /\ \A i, j \in DOMAIN frames : i # j => frames[i].sig # frames[j].sig

Counted ==
    /\ linked \in Nat /\ called \in Nat
    /\ linked + Cardinality(Active(frames)) <= MaxSignals

Types ==
    /\ next \in [Entries -> Pointers] /\ head \in Pointers /\ tail \in Pointers
    /\ spares \in Pointers /\ seq \in [Entries -> Nat]
    /\ memory \in SUBSET Entries /\ abandoned \in SUBSET Entries
    /\ processing \in BOOLEAN /\ torn \in BOOLEAN
    /\ request \in 1 .. MaxRequests
    /\ MainOK /\ Room /\ FramesOK /\ Counted

-----------------------------------------------------------------------------
(* The queue of signals: the lists *)

\* The entries of s are the ones from e on.
Path(nx, e, s) ==
    /\ s \in Seq(Entries)
    /\ e = IF s = <<>> THEN NULL ELSE s[1]
    /\ \A i \in 1 .. Len(s) : nx[s[i]] = IF i < Len(s) THEN s[i+1] ELSE NULL

\* What remains to be played, what waits, and the one of the two a handler appends to.
Rest     == IF main.at = "give" THEN main.entry ELSE main.queue
Filling(P, W) == IF main.at = "clear" THEN P ELSE W

Lists(S, P, W) ==
    /\ Path(next, spares, S)
    /\ Path(next, Rest, P)
    /\ Path(next, IF main.at = "clear" THEN NULL ELSE head, W)
    /\ main.at = "clear" => head = main.queue

\* The signals are numbered as they were queued, so that no entry is in both.
Numbered(P, W, lo) ==
    /\ lo \in Nat
    /\ \A i \in 1 .. Len(P) : seq[P[i]] = lo + i
    /\ \A i \in 1 .. Len(W) : seq[W[i]] = lo + Len(P) + i
    /\ linked = lo + Len(P) + Len(W)
    /\ Running => lo = called

\* The entries of the lists.
On(S, P, W) == ToSet(S) \cup ToSet(P) \cup ToSet(W)

Apart(S, P, W) ==
    /\ IsInjective(S)
    /\ ToSet(S) \cap (ToSet(P) \cup ToSet(W)) = {}
    /\ On(S, P, W) \cup InHand \subseteq memory
    /\ On(S, P, W) \cap InHand = {}
    /\ Running => On(S, P, W) \cup InHand = memory \ abandoned
    /\ Running => abandoned \subseteq memory

\* An entry that the script's process is about to put among the spares.
Between ==
    /\ main.at = "give" => next[main.queue] = spares
    /\ main.at = "add" => next[main.entry] = spares
    /\ main.at = "free spare" => main.entry = spares
    /\ main.at = "free head" => main.entry = head
    /\ main.at \in {"give", "add", "free spare"} => \A i \in DOMAIN frames : frames[i].at = "pop"

\* No handler that runs inside i is about to tear the queue.
Alone(i) == \A j \in 1 .. i - 1 : ~Linking(frames[j])

\* Handlers take their entries in turn, and finish before those they interrupt.
Nested ==
    \A i, j \in DOMAIN frames : i < j =>
        /\ frames[i].at = "pop" => frames[j].at = "pop"
        /\ Linking(frames[i]) => frames[j].at # "tail"
        /\ Holding(frames[i]) /\ Holding(frames[j]) => frames[i].psig # frames[j].psig

Hands ==
    \A i \in DOMAIN frames :
        /\ frames[i].at = "pop" => frames[i].psig = spares
        /\ Holding(frames[i]) => next[frames[i].psig] = NULL
        /\ frames[i].at = "append" /\ Alone(i) => frames[i].old = tail /\ head # NULL
        /\ frames[i].at = "first" /\ Alone(i) => head = NULL

\* The tail is the last of the list, but for the handler that has linked an entry to it.
Ends(Q) ==
    /\ \A i \in DOMAIN frames : frames[i].at = "tail" => Q # <<>> /\ frames[i].psig = Last(Q)
    /\ head # NULL /\ (\A i \in DOMAIN frames : frames[i].at # "tail") => tail = Last(Q)

Whole(S, P, W, lo) ==
    /\ Lists(S, P, W)
    /\ Numbered(P, W, lo)
    /\ Apart(S, P, W)
    /\ Between
    /\ Nested
    /\ Hands
    /\ Ends(Filling(P, W))

\* Some lists make up the queue.
Queue == \E S, P, W, lo : Whole(S, P, W, lo)

QueueInv ==
    /\ Types
    /\ called <= linked \/ torn
    /\ ~torn => Queue
-----------------------------------------------------------------------------
(* Following the pointers *)

\* Every set of naturals that is not empty has a least element.
LEMMA LeastNatural ==
    ASSUME NEW S \in SUBSET Nat, S # {}
    PROVE  \E m \in S : \A n \in S : m <= n
<1> DEFINE R == {ss \in Nat \X Nat : ss[1] < ss[2]}
<1>1. IsWellFoundedOn(R, Nat)
  BY NatLessThanWellFounded DEF OpToRel
<1>2. PICK m \in S : \A n \in S : <<n, m>> \notin R
  <2> HIDE DEF R
  <2> QED
    BY <1>1, WFMin
<1>3. \A n \in S : n \in Nat /\ m \in Nat /\ ~(n < m)
  BY <1>2
<1> QED
  BY <1>3

\* A set of naturals with 0 and the successor of each of its elements has them all.
LEMMA Induction ==
    ASSUME NEW S \in SUBSET Nat, 0 \in S, \A n \in S : n + 1 \in S
    PROVE  S = Nat
<1> SUFFICES ASSUME Nat \ S # {} PROVE FALSE
  OBVIOUS
<1>1. PICK m \in Nat \ S : \A n \in Nat \ S : m <= n
  BY LeastNatural
<1>2. m - 1 \in Nat /\ m - 1 \notin Nat \ S
  BY <1>1
<1> QED
  BY <1>1, <1>2

\* A list without repetitions is no longer than the memory.
LEMMA InjectiveIsShort ==
    ASSUME NEW s \in Seq(Entries), IsInjective(s)
    PROVE  Len(s) \in Nat /\ Len(s) <= MaxEntries
<1>1. Len(s) \in Nat /\ s \in [1 .. Len(s) -> Entries] /\ DOMAIN s = 1 .. Len(s)
  BY LenProperties
<1>2. s \in Injection(1 .. Len(s), Entries)
  BY <1>1 DEF Injection, IsInjective
<1>3. IsFiniteSet(Entries) /\ Cardinality(Entries) = MaxEntries
  BY MaxEntriesNat, FS_Interval DEF Entries
<1>4. Cardinality(1 .. Len(s)) = Len(s)
  BY <1>1, FS_Interval
<1>5. Cardinality(1 .. Len(s)) <= Cardinality(Entries)
  BY <1>2, <1>3, FS_Injection
<1> QED
  BY <1>1, <1>3, <1>4, <1>5

\* The walk from the first entry of a list is the list.
LEMMA WalkIsPath ==
    ASSUME NEW nx, NEW e, NEW s, Path(nx, e, s), IsInjective(s)
    PROVE  Walk(nx, e) = s
<1> DEFINE Low(n) == IF n < Len(s) THEN n ELSE Len(s)
           Step(c, n) == IF n = 0 THEN IF e = NULL THEN <<>> ELSE <<e>>
                         ELSE IF c[n-1] = <<>> \/ nx[Last(c[n-1])] = NULL THEN c[n-1]
                         ELSE Append(c[n-1], nx[Last(c[n-1])])
           g == [n \in 0 .. MaxEntries |-> SubSeq(s, 1, Low(n + 1))]
<1>1. s \in Seq(Entries) /\ Len(s) \in Nat /\ Len(s) <= MaxEntries /\ MaxEntries \in Nat
  BY InjectiveIsShort, MaxEntriesNat DEF Path
<1>2. \A i \in 1 .. Len(s) : s[i] \in Entries
  BY <1>1, ElementOfSeq
<1>3. ASSUME NEW m \in Nat, m <= Len(s)
      PROVE  /\ SubSeq(s, 1, m) \in Seq(Entries) /\ Len(SubSeq(s, 1, m)) = m
             /\ \A i \in 1 .. m : SubSeq(s, 1, m)[i] = s[i]
  <2>1. 1 \in Int /\ m \in Int /\ \A i \in 1 .. m : s[i] \in Entries
    BY <1>1, <1>2, <1>3
  <2> HIDE <1>1, <1>2
  <2>2. /\ SubSeq(s, 1, m) \in Seq(Entries)
        /\ Len(SubSeq(s, 1, m)) = IF 1 <= m THEN m - 1 + 1 ELSE 0
        /\ \A i \in 1 .. m - 1 + 1 : SubSeq(s, 1, m)[i] = s[1 + i - 1]
    BY ONLY <2>1, SubSeqProperties
  <2> QED
    BY ONLY <2>2, <1>3
<1>4. ASSUME NEW n \in 0 .. MaxEntries
      PROVE  Step(g, n) = SubSeq(s, 1, Low(n + 1))
  <2>1. CASE n = 0
    <3>1. CASE s = <<>>
      BY <1>1, <1>3, <2>1, <3>1, EmptySeq DEF Path
    <3>2. CASE s # <<>>
      <4>1. Len(s) >= 1 /\ e = s[1] /\ e # NULL /\ Low(n + 1) = 1
        <5>1. Len(s) >= 1
          BY <1>1, <3>2, EmptySeq
        <5>2. e = s[1] /\ 1 \in 1 .. Len(s)
          BY <1>1, <3>2, <5>1 DEF Path
        <5>3. e # NULL
          BY <1>2, <5>2 DEF Entries, NULL
        <5>4. Low(n + 1) = 1
          <6>1. n + 1 = 1 /\ Len(s) \in Nat
            BY <1>1, <2>1
          <6> QED
            BY <6>1, <5>1
        <5> QED
          BY <5>1, <5>2, <5>3, <5>4
      <4>2. <<e>> \in Seq(Entries) /\ Len(<<e>>) = 1 /\ <<e>>[1] = e
        BY <1>2, <4>1
      <4>3. SubSeq(s, 1, 1) = <<e>>
        <5>1. /\ SubSeq(s, 1, 1) \in Seq(Entries) /\ Len(SubSeq(s, 1, 1)) = 1
              /\ SubSeq(s, 1, 1)[1] = s[1]
          BY <1>1, <1>3, <4>1
        <5>2. \A i \in 1 .. 1 : SubSeq(s, 1, 1)[i] = <<e>>[i]
          BY <4>1, <4>2, <5>1
        <5> QED
          BY <4>2, <5>1, <5>2, SeqEqual
      <4> QED
        BY <2>1, <4>1, <4>3
    <3> QED
      BY <3>1, <3>2
  <2>2. CASE n > 0
    <3> DEFINE k == Low(n)
    <3>1. n - 1 \in 0 .. MaxEntries /\ g[n-1] = SubSeq(s, 1, k) /\ k \in Nat /\ k <= Len(s)
      BY <1>1, <2>2
    <3>2. /\ SubSeq(s, 1, k) \in Seq(Entries) /\ Len(SubSeq(s, 1, k)) = k
          /\ \A i \in 1 .. k : SubSeq(s, 1, k)[i] = s[i]
      BY <1>3, <3>1
    <3>3. CASE k = 0
      <4>1. SubSeq(s, 1, k) = <<>> /\ Low(n + 1) = 0
        BY <1>1, <2>2, <3>1, <3>2, <3>3, EmptySeq
      <4> QED
        BY <2>2, <3>1, <3>3, <4>1
    <3>4. CASE k > 0
      <4>1. SubSeq(s, 1, k) # <<>> /\ Last(SubSeq(s, 1, k)) = s[k]
        BY <3>1, <3>2, <3>4, EmptySeq DEF Last
      <4>2. k \in 1 .. Len(s) /\ nx[s[k]] = IF k < Len(s) THEN s[k+1] ELSE NULL
        BY <1>1, <3>1, <3>4 DEF Path
      <4>3. CASE k = Len(s)
        BY <1>1, <2>2, <3>1, <3>4, <4>1, <4>2, <4>3
      <4>4. CASE k < Len(s)
        <5>1. k = n /\ Low(n + 1) = n + 1 /\ s[k+1] \in Entries /\ s[k+1] # NULL
          BY <1>1, <1>2, <2>2, <4>4 DEF Entries, NULL
        <5>2. Step(g, n) = Append(SubSeq(s, 1, k), s[k+1])
          BY <2>2, <3>1, <4>1, <4>2, <4>4, <5>1
        <5>3. Append(SubSeq(s, 1, k), s[k+1]) = SubSeq(s, 1, k + 1)
          <6> DEFINE t == SubSeq(s, 1, k)
                     u == SubSeq(s, 1, k + 1)
          <6>1. t \in Seq(Entries) /\ Len(t) = k /\ \A i \in 1 .. k : t[i] = s[i]
            BY <3>2
          <6>2. u \in Seq(Entries) /\ Len(u) = k + 1 /\ \A i \in 1 .. k + 1 : u[i] = s[i]
            BY <1>1, <1>3, <3>1, <4>4
          <6> HIDE DEF t, u
          <6>3. /\ Append(t, s[k+1]) \in Seq(Entries) /\ Len(Append(t, s[k+1])) = k + 1
                /\ \A i \in 1 .. k : Append(t, s[k+1])[i] = t[i]
                /\ Append(t, s[k+1])[k+1] = s[k+1]
            BY <5>1, <6>1, AppendProperties
          <6>4. \A i \in 1 .. k + 1 : Append(t, s[k+1])[i] = u[i]
            BY <3>1, <6>1, <6>2, <6>3
          <6>5. Append(t, s[k+1]) = u
            BY <6>2, <6>3, <6>4, SeqEqual
          <6> QED
            BY <6>5 DEF t, u
        <5> QED
          BY <5>1, <5>2, <5>3
      <4> QED
        BY <1>1, <3>1, <4>3, <4>4
    <3> QED
      BY <3>1, <3>3, <3>4
  <2>3. n = 0 \/ n > 0
    BY <1>1
  <2> QED
    BY ONLY <2>1, <2>2, <2>3
<1>5. g = [n \in 0 .. MaxEntries |-> Step(g, n)]
  BY <1>4
<1> DEFINE h == CHOOSE c : c = [n \in 0 .. MaxEntries |-> Step(c, n)]
<1>6. h = [n \in 0 .. MaxEntries |-> Step(h, n)]
  <2> HIDE DEF g, Step
  <2> QED
    BY <1>5
<1>7. Walk(nx, e) = h[MaxEntries]
  BY DEF Walk
<1> HIDE DEF h, g
<1>8. {n \in Nat : n <= MaxEntries => h[n] = g[n]} = Nat
  <2> DEFINE T == {n \in Nat : n <= MaxEntries => h[n] = g[n]}
  <2>1. 0 \in T
    <3>1. 0 \in 0 .. MaxEntries
      BY <1>1
    <3> QED
      BY <1>5, <1>6, <3>1
  <2>2. ASSUME NEW n \in T PROVE n + 1 \in T
    <3> SUFFICES ASSUME n + 1 <= MaxEntries PROVE h[n + 1] = g[n + 1]
      OBVIOUS
    <3>1. n + 1 \in 0 .. MaxEntries /\ n + 1 # 0 /\ n + 1 - 1 = n /\ h[n] = g[n]
      BY <1>1
    <3>2. h[n + 1] = Step(h, n + 1) /\ g[n + 1] = Step(g, n + 1)
      <4> HIDE DEF Step
      <4> QED
        BY <1>5, <1>6, <3>1
    <3> QED
      BY ONLY <3>1, <3>2
  <2>3. T \in SUBSET Nat
    OBVIOUS
  <2> HIDE DEF T
  <2>4. T = Nat
    BY <2>1, <2>2, <2>3, Induction
  <2> QED
    BY <2>4 DEF T
<1>9. h[MaxEntries] = SubSeq(s, 1, Len(s))
  <2>1. MaxEntries \in {n \in Nat : n <= MaxEntries => h[n] = g[n]}
    BY <1>1, <1>8
  <2>2. MaxEntries \in 0 .. MaxEntries /\ Low(MaxEntries + 1) = Len(s)
    BY <1>1
  <2> QED
    BY <1>1, <2>1, <2>2 DEF g
<1>10. SubSeq(s, 1, Len(s)) = s
  BY <1>1, <1>3, SeqEqual
<1> QED
  BY <1>7, <1>9, <1>10
-----------------------------------------------------------------------------
(* The frames of the handlers *)

Places == {"pop", "test", "append", "first", "tail"}

\* What the handlers that run are.
LEMMA FramesAre ==
    ASSUME NEW fs \in Seq(Frame)
    PROVE  /\ Len(fs) \in Nat /\ DOMAIN fs = 1 .. Len(fs)
           /\ \A i \in 1 .. Len(fs) : fs[i] \in Frame
           /\ fs # <<>> => Len(fs) \in 1 .. Len(fs)
           /\ IsFiniteSet(Active(fs)) /\ Cardinality(Active(fs)) \in Nat
           /\ Cardinality(Active(fs)) <= Len(fs)
<1>1. Len(fs) \in Nat /\ DOMAIN fs = 1 .. Len(fs) /\ \A i \in 1 .. Len(fs) : fs[i] \in Frame
  BY LenProperties, ElementOfSeq
<1>2. fs # <<>> => Len(fs) \in 1 .. Len(fs)
  <2>1. fs # <<>> => Len(fs) \in Nat \ {0}
    BY EmptySeq
  <2> QED
    BY <2>1
<1>3. IsFiniteSet(1 .. Len(fs)) /\ Cardinality(1 .. Len(fs)) = Len(fs)
  <2> PICK n : n = Len(fs)
    OBVIOUS
  <2>1. n \in Nat /\ 1 \in Int /\ n \in Int
    BY <1>1
  <2>2. IsFiniteSet(1 .. n) /\ Cardinality(1 .. n) = IF 1 > n THEN 0 ELSE n - 1 + 1
    BY <2>1, FS_Interval
  <2> QED
    BY <2>1, <2>2
<1>4. Active(fs) \in SUBSET (1 .. Len(fs))
  BY <1>1 DEF Active
<1>5. IsFiniteSet(Active(fs)) /\ Cardinality(Active(fs)) <= Len(fs)
  BY <1>3, <1>4, FS_Subset
<1>6. Cardinality(Active(fs)) \in Nat
  BY <1>5, FS_CardinalityType
<1> QED
  BY <1>1, <1>2, <1>5, <1>6

\* A handler starts.
LEMMA FrameAdded ==
    ASSUME NEW fs \in Seq(Frame), NEW f \in Frame, NEW gs, gs = Append(fs, f)
    PROVE  /\ gs \in Seq(Frame) /\ gs # <<>> /\ Len(gs) = Len(fs) + 1
           /\ \A i \in 1 .. Len(fs) : gs[i] = fs[i]
           /\ gs[Len(fs) + 1] = f
BY AppendProperties

\* The innermost handler goes on.
LEMMA FrameReplaced ==
    ASSUME NEW fs \in Seq(Frame), fs # <<>>, NEW f \in Frame, NEW gs,
           gs = [fs EXCEPT ![Len(fs)] = f]
    PROVE  /\ gs \in Seq(Frame) /\ Len(gs) = Len(fs)
           /\ \A i \in 1 .. Len(fs) - 1 : gs[i] = fs[i]
           /\ gs[Len(fs)] = f
<1> PICK n : n = Len(fs)
  OBVIOUS
<1>1. n \in 1 .. Len(fs) /\ n \in Nat
  BY FramesAre
<1>2. gs = [fs EXCEPT ![n] = f]
  OBVIOUS
<1>3. /\ gs \in Seq(Frame) /\ Len(gs) = Len(fs)
      /\ \A j \in 1 .. Len(fs) : gs[j] = IF j = n THEN f ELSE fs[j]
  BY <1>1, <1>2, ExceptSeq
<1> QED
  BY <1>1, <1>3

\* The innermost handler returns.
LEMMA FrameLeft ==
    ASSUME NEW fs \in Seq(Frame), fs # <<>>, NEW gs, gs = Front(fs)
    PROVE  /\ gs \in Seq(Frame) /\ Len(gs) = Len(fs) - 1
           /\ \A i \in 1 .. Len(fs) - 1 : gs[i] = fs[i]
<1> PICK n : n = Len(fs) - 1
  OBVIOUS
<1>1. n \in Nat /\ n < Len(fs) /\ \A i \in 1 .. n : fs[i] \in Frame
  BY FramesAre
<1>2. gs = SubSeq(fs, 1, n)
  BY DEF Front
<1>3. 1 \in Int /\ n \in Int
  BY <1>1
<1>4. /\ gs \in Seq(Frame) /\ Len(gs) = IF 1 <= n THEN n - 1 + 1 ELSE 0
      /\ \A i \in 1 .. n - 1 + 1 : gs[i] = fs[1 + i - 1]
  BY <1>1, <1>2, <1>3, SubSeqProperties
<1> QED
  BY <1>1, <1>4
-----------------------------------------------------------------------------
(* Types *)

\* What the innermost handler is replaced by.
Moved(fs, gs, at) ==
    /\ gs \in Seq(Frame) /\ Len(gs) = Len(fs)
    /\ \A i \in 1 .. Len(fs) - 1 : gs[i] = fs[i]
    /\ gs[Len(fs)].at = at
    /\ gs[Len(fs)].sig = fs[Len(fs)].sig /\ gs[Len(fs)].psig = fs[Len(fs)].psig

\* The innermost handler goes to its next statement.
LEMMA GotoMoves ==
    ASSUME frames \in Seq(Frame), frames # <<>>, NEW at \in Places, Goto(at)
    PROVE  Moved(frames, frames', at) /\ frames'[Len(frames)].old = frames[Len(frames)].old
<1>1. frames[Len(frames)] \in Frame
  BY FramesAre
<1> PICK f : f = [frames[Len(frames)] EXCEPT !.at = at]
  OBVIOUS
<1>2. f \in Frame /\ f.at = at /\ f.sig = frames[Len(frames)].sig
      /\ f.psig = frames[Len(frames)].psig /\ f.old = frames[Len(frames)].old
  BY <1>1 DEF Frame, Places
<1>3. frames' = [frames EXCEPT ![Len(frames)] = f]
  BY DEF Goto
<1>4. /\ frames' \in Seq(Frame) /\ Len(frames') = Len(frames)
      /\ \A i \in 1 .. Len(frames) - 1 : frames'[i] = frames[i]
      /\ frames'[Len(frames)] = f
  BY <1>2, <1>3, FrameReplaced
<1> QED
  BY <1>2, <1>4 DEF Moved

\* The innermost handler has looked at the queue.
LEMMA TestMoves ==
    ASSUME frames \in Seq(Frame), tail \in Pointers, Test
    PROVE  \E at \in {"append", "first"} :
               /\ Moved(frames, frames', at)
               /\ at = "append" <=> head # NULL /\ tail # NULL
               /\ frames'[Len(frames)].old = tail
<1> PICK at : at = IF head # NULL /\ tail # NULL THEN "append" ELSE "first"
  OBVIOUS
<1>1. frames # <<>> /\ at \in {"append", "first"}
      /\ (at = "append" <=> head # NULL /\ tail # NULL)
  BY DEF Test
<1>2. frames[Len(frames)] \in Frame
  BY <1>1, FramesAre
<1> PICK e : e = [frames[Len(frames)] EXCEPT !.at = at]
  OBVIOUS
<1>3. e \in Frame /\ e.at = at /\ e.sig = frames[Len(frames)].sig
      /\ e.psig = frames[Len(frames)].psig
  BY <1>1, <1>2 DEF Frame
<1> PICK f : f = [e EXCEPT !.old = tail]
  OBVIOUS
<1>4. f \in Frame /\ f.at = at /\ f.sig = frames[Len(frames)].sig
      /\ f.psig = frames[Len(frames)].psig /\ f.old = tail
  BY <1>3 DEF Frame
<1>5. frames' = [frames EXCEPT ![Len(frames)] = f]
  BY DEF Test
<1>6. /\ frames' \in Seq(Frame) /\ Len(frames') = Len(frames)
      /\ \A i \in 1 .. Len(frames) - 1 : frames'[i] = frames[i]
      /\ frames'[Len(frames)] = f
  <2>1. frames \in Seq(Frame) /\ frames # <<>> /\ f \in Frame
    BY <1>1, <1>4
  <2> QED
    BY ONLY <2>1, <1>5, FrameReplaced
<1> QED
  BY <1>1, <1>4, <1>6 DEF Moved

Store ==
    /\ next \in [Entries -> Pointers] /\ head \in Pointers /\ tail \in Pointers
    /\ spares \in Pointers /\ seq \in [Entries -> Nat]
    /\ memory \in SUBSET Entries /\ abandoned \in SUBSET Entries
    /\ processing \in BOOLEAN /\ torn \in BOOLEAN
    /\ request \in 1 .. MaxRequests

\* No handler runs and there is no entry yet.
LEMMA TypesInit == Init => Types
<1> SUFFICES ASSUME Init PROVE Types
  OBVIOUS
<1>1. frames = <<>> /\ frames \in Seq(Frame) /\ Len(frames) = 0 /\ DOMAIN frames = {}
  BY EmptySeq DEF Init
<1>2. Active(frames) = {}
  BY <1>1 DEF Active
<1>3. Counted /\ FramesOK
  BY <1>1, <1>2, FS_EmptySet, MaxSignalsNat DEF Counted, FramesOK, Init
<1>4. MainOK /\ Room
  BY BatchPos DEF Init, Idle, MainOK, Mains, Room, Ats, Pointers
<1>5. next \in [Entries -> Pointers] /\ seq \in [Entries -> Nat]
  BY DEF Init, Pointers
<1>6. request \in 1 .. MaxRequests
  BY MaxRequestsPos DEF Init
<1> QED
  BY <1>3, <1>4, <1>5, <1>6 DEF Types, Init, Pointers

\* A handler starts with the first spare entry.
LEMMA TypesArrive ==
    ASSUME Types, NEW s \in Sigs, Arrive(s)
    PROVE  Types'
<1> PICK n : n = Len(frames)
  OBVIOUS
<1> PICK f : f = [sig |-> s, at |-> "pop", psig |-> spares, old |-> NULL]
  OBVIOUS
<1>1. frames \in Seq(Frame) /\ DOMAIN frames = 1 .. n /\ n \in Nat
  BY FramesAre DEF Types, FramesOK
<1>2. f \in Frame /\ f.sig = s /\ f.at = "pop"
  BY DEF Arrive, Frame, Types, Pointers
<1>3. /\ frames' \in Seq(Frame) /\ Len(frames') = n + 1
      /\ \A i \in 1 .. n : frames'[i] = frames[i]
      /\ frames'[n + 1] = f
  BY <1>1, <1>2, FrameAdded DEF Arrive
<1>4. DOMAIN frames' = 1 .. n + 1
  BY <1>3, FramesAre
<1>5. FramesOK'
  <2>1. ASSUME NEW i \in 1 .. n + 1, NEW j \in 1 .. n + 1, i # j
        PROVE  frames'[i].sig # frames'[j].sig
    <3>1. \A k \in 1 .. n : frames[k].sig # s
      BY <1>1 DEF Arrive
    <3>2. i \in 1 .. n \/ i = n + 1
      BY <1>1
    <3>3. j \in 1 .. n \/ j = n + 1
      BY <1>1
    <3>4. \A k, l \in 1 .. n : k # l => frames[k].sig # frames[l].sig
      BY <1>1 DEF Types, FramesOK
    <3> QED
      BY <1>2, <1>3, <2>1, <3>1, <3>2, <3>3, <3>4
  <2> QED
    BY <1>3, <1>4, <2>1 DEF FramesOK
<1>6. Counted'
  <2>1. IsFiniteSet(Active(frames)) /\ Cardinality(Active(frames)) \in Nat
        /\ Cardinality(Active(frames)) <= n
    BY <1>1, FramesAre
  <2>2. Active(frames') = Active(frames) \cup {n + 1}
    BY <1>1, <1>2, <1>3, <1>4 DEF Active
  <2>3. n + 1 \notin Active(frames)
    BY <1>1 DEF Active
  <2>4. Cardinality(Active(frames')) = Cardinality(Active(frames)) + 1
    BY <2>1, <2>2, <2>3, FS_AddElement
  <2>5. linked' = linked /\ called' = called /\ linked + n < MaxSignals
    BY DEF Arrive, past
  <2>6. linked \in Nat /\ called \in Nat
    BY DEF Types, Counted
  <2>7. linked' + Cardinality(Active(frames')) <= MaxSignals
    BY <1>1, <2>1, <2>4, <2>5, <2>6, MaxSignalsNat
  <2> QED
    BY <2>5, <2>6, <2>7 DEF Counted
<1>7. Store' /\ MainOK' /\ Room'
  BY DEF Arrive, Types, Store, lists, past, MainOK, Room
<1> QED
  BY <1>5, <1>6, <1>7 DEF Types, Store

\* A step of the innermost handler that does not end it and leaves the signals uncounted.
LEMMA TypesMoved ==
    ASSUME Types, frames # <<>>, NEW at \in Places, Moved(frames, frames', at)
    PROVE  /\ FramesOK'
           /\ DOMAIN frames = 1 .. Len(frames) /\ DOMAIN frames' = 1 .. Len(frames)
           /\ frames[Len(frames)].at # "tail" /\ at # "tail"
                 => Active(frames') = Active(frames)
           /\ frames[Len(frames)].at # "tail" /\ at = "tail"
                 => Active(frames') = Active(frames) \ {Len(frames)}
<1> PICK n : n = Len(frames)
  OBVIOUS
<1>1. /\ frames \in Seq(Frame) /\ DOMAIN frames = 1 .. n /\ DOMAIN frames' = 1 .. n
      /\ n \in Nat /\ n \in 1 .. n
  <2>1. frames \in Seq(Frame) /\ frames' \in Seq(Frame) /\ Len(frames') = n
    BY DEF Types, FramesOK, Moved
  <2>2. DOMAIN frames' = 1 .. n
    BY ONLY <2>1, FramesAre
  <2>3. DOMAIN frames = 1 .. n /\ n \in Nat /\ n \in 1 .. n
    BY <2>1, FramesAre
  <2> QED
    BY <2>1, <2>2, <2>3
<1>2. \A i \in 1 .. n : i = n \/ i \in 1 .. n - 1
  <2>1. n \in Nat
    BY <1>1
  <2> QED
    BY ONLY <2>1
<1>6. /\ \A i \in 1 .. n - 1 : frames'[i] = frames[i]
      /\ frames'[n].sig = frames[n].sig /\ frames'[n].at = at
  BY DEF Moved
<1>3. ASSUME NEW i \in 1 .. n
      PROVE  frames'[i].sig = frames[i].sig
  <2>1. CASE i = n
    BY <1>6, <2>1
  <2>2. CASE i \in 1 .. n - 1
    BY <1>6, <2>2
  <2> QED
    BY <1>2, <2>1, <2>2
<1>4. FramesOK'
  <2>1. frames' \in Seq(Frame)
    BY DEF Moved
  <2>2. \A i, j \in 1 .. n : i # j => frames[i].sig # frames[j].sig
    BY <1>1 DEF Types, FramesOK
  <2> QED
    BY <1>1, <1>3, <2>1, <2>2 DEF FramesOK
<1>5. \A i \in 1 .. n : i # n => frames'[i].at = frames[i].at
  BY <1>1, <1>2, <1>6
<1> QED
  BY <1>1, <1>4, <1>5, <1>6 DEF Active

\* A handler takes its entry.
LEMMA TypesPop ==
    ASSUME Types, Pop
    PROVE  Types'
<1>1. frames \in Seq(Frame) /\ frames # <<>> /\ frames[Len(frames)].at = "pop"
      /\ frames[Len(frames)] \in Frame
  BY FramesAre DEF Types, FramesOK, Pop, Top
<1>2. "test" \in Places /\ Goto("test")
  BY DEF Pop, Places
<1>3. FramesOK' /\ Active(frames') = Active(frames)
  BY <1>1, <1>2, GotoMoves, TypesMoved
<1>4. Counted'
  BY <1>3 DEF Types, Counted, Pop
<1>5. MainOK' /\ Room'
  BY DEF Types, MainOK, Room, Pop
<1>6. frames[Len(frames)].psig \in Entries
  BY <1>1 DEF Frame
<1>7. next' \in [Entries -> Pointers] /\ spares' \in Pointers
  BY <1>6 DEF Types, Pop, Top, Pointers
<1>8. torn' \in BOOLEAN
  BY DEF Types, Pop
<1> QED
  BY <1>3, <1>4, <1>5, <1>7, <1>8 DEF Types, Pop

\* A handler reads the queue.
LEMMA TypesTest ==
    ASSUME Types, Test
    PROVE  Types'
<1>1. frames \in Seq(Frame) /\ frames # <<>> /\ frames[Len(frames)].at = "test"
  BY DEF Types, FramesOK, Test, Top
<1>2. PICK at \in {"append", "first"} : Moved(frames, frames', at)
  BY <1>1, TestMoves DEF Types
<1>3. at \in Places /\ at # "tail"
  BY DEF Places
<1>4. FramesOK' /\ Active(frames') = Active(frames)
  BY <1>1, <1>2, <1>3, TypesMoved
<1>5. Counted'
  BY <1>4 DEF Types, Counted, Test, past
<1>6. MainOK' /\ Room'
  BY DEF Types, MainOK, Room, Test
<1> QED
  BY <1>4, <1>5, <1>6 DEF Types, Test, lists, past

\* One signal more is queued, by a handler that has not queued one yet.
LEMMA TypesLink ==
    ASSUME Types, Link
    PROVE  Types'
<1> PICK n : n = Len(frames)
  OBVIOUS
<1>1. /\ frames \in Seq(Frame) /\ frames # <<>> /\ frames[n].at \in {"append", "first"}
      /\ frames[n] \in Frame /\ n \in 1 .. n /\ n \in Nat /\ DOMAIN frames = 1 .. n
  BY FramesAre DEF Types, FramesOK, Link, Top
<1>2. "tail" \in Places /\ Goto("tail")
  BY DEF Link, Places
<1>3. FramesOK' /\ Active(frames') = Active(frames) \ {n}
  BY <1>1, <1>2, GotoMoves, TypesMoved
<1>4. Counted'
  <2>1. IsFiniteSet(Active(frames)) /\ Cardinality(Active(frames)) \in Nat
    BY <1>1, FramesAre
  <2>2. n \in Active(frames)
    BY <1>1 DEF Active
  <2>3. Cardinality(Active(frames')) = Cardinality(Active(frames)) - 1
    BY <1>3, <2>1, <2>2, FS_RemoveElement
  <2>4. linked' = linked + 1 /\ called' = called /\ linked \in Nat /\ called \in Nat
        /\ linked + Cardinality(Active(frames)) <= MaxSignals
    BY DEF Link, Types, Counted
  <2>5. linked' + Cardinality(Active(frames')) <= MaxSignals /\ linked' \in Nat
    BY <2>1, <2>3, <2>4, MaxSignalsNat
  <2> QED
    BY <2>4, <2>5 DEF Counted
<1>5. MainOK' /\ Room'
  BY DEF Types, MainOK, Room, Link
<1>6. frames[n].psig \in Entries
  BY <1>1 DEF Frame
<1>7. next' \in [Entries -> Pointers] /\ head' \in Pointers
  BY <1>6 DEF Types, Link, Top, Pointers
<1>8. seq' \in [Entries -> Nat]
  BY <1>6 DEF Types, Link, Top, Counted
<1>9. torn' \in BOOLEAN
  BY DEF Types, Link
<1> QED
  BY <1>3, <1>4, <1>5, <1>7, <1>8, <1>9 DEF Types, Link

\* A handler ends.
LEMMA TypesSetTail ==
    ASSUME Types, SetTail
    PROVE  Types'
<1> PICK n : n = Len(frames)
  OBVIOUS
<1>1. /\ frames \in Seq(Frame) /\ frames # <<>> /\ frames[n].at = "tail"
      /\ frames[n] \in Frame /\ n \in 1 .. n /\ n \in Nat /\ DOMAIN frames = 1 .. n
  BY FramesAre DEF Types, FramesOK, SetTail, Top
<1>2. /\ frames' \in Seq(Frame) /\ Len(frames') = n - 1
      /\ \A i \in 1 .. n - 1 : frames'[i] = frames[i]
  BY <1>1, FrameLeft DEF SetTail
<1>3. DOMAIN frames' = 1 .. n - 1
  BY <1>2, FramesAre
<1>4. FramesOK'
  <2>1. \A i \in 1 .. n - 1 : i \in 1 .. n
    BY <1>1
  <2>2. \A i, j \in 1 .. n : i # j => frames[i].sig # frames[j].sig
    BY <1>1 DEF Types, FramesOK
  <2> QED
    BY <1>2, <1>3, <2>1, <2>2 DEF FramesOK
<1>5. Active(frames') = Active(frames)
  <2>1. \A i \in 1 .. n : i = n \/ i \in 1 .. n - 1
    BY <1>1
  <2> QED
    BY <1>1, <1>2, <1>3, <2>1 DEF Active
<1>6. Counted'
  BY <1>5 DEF Types, Counted, SetTail, past
<1>7. MainOK' /\ Room'
  BY DEF Types, MainOK, Room, SetTail
<1>8. tail' \in Pointers
  BY <1>1 DEF SetTail, Top, Frame, Pointers
<1> QED
  BY <1>4, <1>6, <1>7, <1>8 DEF Types, SetTail, past

\* The steps of the script's process leave the handlers alone.
LEMMA TypesScript ==
    ASSUME Types, frames' = frames, called' \in Nat,
           linked' = linked \/ (linked' = 0 /\ frames = <<>>)
    PROVE  FramesOK' /\ Counted'
<1>1. FramesOK'
  BY DEF Types, FramesOK
<1>2. CASE linked' = linked
  <2>1. Active(frames') = Active(frames)
    OBVIOUS
  <2>2. linked \in Nat /\ linked + Cardinality(Active(frames)) <= MaxSignals
    BY DEF Types, Counted
  <2> QED
    BY <1>1, <1>2, <2>1, <2>2 DEF Counted
<1>3. CASE linked' = 0 /\ frames = <<>>
  <2>1. Active(frames') = {}
    BY <1>3 DEF Active
  <2>2. Cardinality(Active(frames')) = 0
    BY <2>1, FS_EmptySet
  <2> QED
    BY <1>1, <1>3, <2>2, MaxSignalsNat DEF Counted
<1> QED
  BY <1>1, <1>2, <1>3

\* The local variables of what is done next.
LEMMA NewMain ==
    ASSUME NEW at \in Ats, NEW queue \in Pointers, NEW entry \in Pointers, NEW m,
           m = [at |-> at, back |-> "script", queue |-> queue, entry |-> entry, left |-> 0]
    PROVE  /\ m \in Mains
           /\ m.at = at /\ m.queue = queue /\ m.entry = entry
<1>1. 0 \in 0 .. Batch
  BY BatchPos
<1> QED
  BY <1>1 DEF Mains

\* The types of what the script's process has in its local variables.
LEMMA MainsAre ==
    ASSUME NEW m \in Mains
    PROVE  /\ m.at \in Ats /\ m.back \in {"script", "user"} /\ m.queue \in Pointers /\ m.entry \in Pointers
           /\ m.left \in Nat /\ m.left <= Batch
           /\ m = [at |-> m.at, back |-> m.back, queue |-> m.queue, entry |-> m.entry, left |-> m.left]
BY BatchPos DEF Mains

\* One of them changes.
LEMMA MainAt ==
    ASSUME NEW m \in Mains, NEW at \in Ats, NEW g, g = [m EXCEPT !.at = at]
    PROVE  /\ g \in Mains /\ g.at = at
           /\ g.back = m.back /\ g.queue = m.queue /\ g.entry = m.entry /\ g.left = m.left
BY DEF Mains

\* As above.
LEMMA MainLeft ==
    ASSUME NEW m \in Mains, NEW left \in 0 .. Batch, NEW g, g = [m EXCEPT !.left = left]
    PROVE  /\ g \in Mains /\ g.left = left
           /\ g.at = m.at /\ g.back = m.back /\ g.queue = m.queue /\ g.entry = m.entry
BY DEF Mains

\* As above.
LEMMA MainBack ==
    ASSUME NEW m \in Mains, NEW back \in {"script", "user"}, NEW g, g = [m EXCEPT !.back = back]
    PROVE  /\ g \in Mains /\ g.back = back
           /\ g.at = m.at /\ g.queue = m.queue /\ g.entry = m.entry /\ g.left = m.left
BY DEF Mains

\* As above.
LEMMA MainQueue ==
    ASSUME NEW m \in Mains, NEW queue \in Pointers, NEW g, g = [m EXCEPT !.queue = queue]
    PROVE  /\ g \in Mains /\ g.queue = queue
           /\ g.at = m.at /\ g.back = m.back /\ g.entry = m.entry /\ g.left = m.left
BY DEF Mains

\* As above.
LEMMA MainEntry ==
    ASSUME NEW m \in Mains, NEW entry \in Pointers, NEW g, g = [m EXCEPT !.entry = entry]
    PROVE  /\ g \in Mains /\ g.entry = entry
           /\ g.at = m.at /\ g.back = m.back /\ g.queue = m.queue /\ g.left = m.left
BY DEF Mains

\* Entries can be counted, and there is one to allocate unless all are.
LEMMA MemoryIsFinite ==
    ASSUME Types
    PROVE  /\ IsFiniteSet(memory) /\ Cardinality(memory) \in Nat
           /\ Entries \ memory = {} => Cardinality(memory) = MaxEntries
<1>1. IsFiniteSet(Entries) /\ Cardinality(Entries) = MaxEntries
  BY MaxEntriesNat, FS_Interval DEF Entries
<1>2. IsFiniteSet(memory)
  BY <1>1, FS_Subset DEF Types
<1> QED
  BY <1>1, <1>2, FS_CardinalityType DEF Types

\* pcntl_signal() begins to allocate, and has room for a batch.
LEMMA TypesPcntlSignal ==
    ASSUME Types, PcntlSignal
    PROVE  Types'
<1>1. FramesOK' /\ Counted'
  BY TypesScript DEF Types, Counted, PcntlSignal, past
<1> PICK m1 : m1 = [main EXCEPT !.at = "alloc"]
  OBVIOUS
<1> PICK m2 : m2 = [m1 EXCEPT !.back = main.at]
  OBVIOUS
<1>2. main \in Mains /\ "alloc" \in Ats
  BY DEF Types, MainOK, Ats
<1>7. main.at \in {"script", "user"}
  BY DEF PcntlSignal, At
<1>3. m1 \in Mains /\ m1.at = "alloc" /\ m1.queue = main.queue
  BY <1>2, MainAt
<1>4. m2 \in Mains /\ m2.at = "alloc" /\ m2.back = main.at /\ m2.queue = main.queue
  BY <1>3, <1>7, MainBack
<1>5. main' = [m2 EXCEPT !.left = Batch] /\ Batch \in 0 .. Batch
  BY BatchPos DEF PcntlSignal
<1>6. main' \in Mains /\ main'.at = "alloc" /\ main'.back = main.at /\ main'.queue = main.queue
      /\ main'.left = Batch
  BY ONLY <1>4, <1>5, MainLeft
<1>8. MainOK'
  <2>1. main.at = "user" <=> main.queue # NULL
    BY <1>7 DEF Types, MainOK
  <2>2. main.queue # NULL => processing'
    BY DEF Types, MainOK, PcntlSignal
  <2> QED
    BY <1>6, <2>1, <2>2, BatchPos DEF MainOK
<1>9. Room'
  BY <1>6 DEF Types, Room, PcntlSignal
<1> QED
  BY <1>1, <1>8, <1>9 DEF Types, PcntlSignal, lists, past

\* One entry is allocated, ...
LEMMA TypesAlloc ==
    ASSUME Types, Alloc
    PROVE  Types'
<1>1. FramesOK' /\ Counted'
  BY TypesScript DEF Types, Counted, Alloc, past
<1> PICK psig : psig = CHOOSE e \in Entries \ memory : TRUE
  OBVIOUS
<1>2. psig \in Entries \ memory
  <2>1. Cardinality(memory) + main.left <= MaxEntries /\ main.left > 0 /\ main.left \in Nat
    BY MainsAre DEF Types, Room, MainOK, Alloc, At
  <2>2. Entries \ memory # {}
    BY <2>1, MemoryIsFinite, MaxEntriesNat, BatchPos
  <2> QED
    BY <2>2
<1>3. /\ memory' = memory \cup {psig}
      /\ next' = [next EXCEPT ![psig] = spares]
      /\ main' = [main EXCEPT !.at = "add", !.entry = psig]
  BY DEF Alloc
<1>6. /\ main' \in Mains /\ main'.at = "add" /\ main'.entry = psig
      /\ main'.back = main.back /\ main'.queue = main.queue /\ main'.left = main.left
  <2> PICK m : m = [main EXCEPT !.at = "add"]
    OBVIOUS
  <2>1. main \in Mains /\ "add" \in Ats /\ psig \in Pointers
    BY <1>2 DEF Types, MainOK, Ats, Pointers
  <2>2. /\ m \in Mains /\ m.at = "add" /\ m.back = main.back /\ m.queue = main.queue
        /\ m.left = main.left
    BY <2>1, MainAt
  <2>3. main' = [m EXCEPT !.entry = psig]
    BY <1>3
  <2> QED
    BY ONLY <2>1, <2>2, <2>3, MainEntry
<1>4. MainOK'
  <2>1. psig # NULL /\ main.at = "alloc" /\ processing' = processing
    BY <1>2 DEF Entries, NULL, Alloc, At
  <2> QED
    BY <1>6, <2>1 DEF Types, MainOK
<1>5. Room'
  <2>1. Cardinality(memory') = Cardinality(memory) + 1
    BY <1>2, <1>3, MemoryIsFinite, FS_AddElement
  <2>2. Cardinality(memory) + main.left <= MaxEntries /\ main.left \in Int
    BY MainsAre DEF Types, Room, MainOK, Alloc, At
  <2>4. Cardinality(memory) + 1 + main.left <= MaxEntries + 1
    BY <2>2, MemoryIsFinite, MaxEntriesNat
  <2> QED
    BY <1>6, <2>1, <2>4 DEF Room
<1> QED
  BY <1>1, <1>2, <1>3, <1>4, <1>5 DEF Types, Alloc, past, Pointers

\* ... and is added to the spares.
LEMMA TypesAdd ==
    ASSUME Types, Add
    PROVE  Types'
<1>1. FramesOK' /\ Counted'
  BY TypesScript DEF Types, Counted, Add, past
<1> PICK at : at = IF main.left > 1 THEN "alloc" ELSE main.back
  OBVIOUS
<1> PICK m1 : m1 = [main EXCEPT !.left = main.left - 1]
  OBVIOUS
<1> PICK m2 : m2 = [m1 EXCEPT !.entry = NULL]
  OBVIOUS
<1>3. main \in Mains /\ main.left \in Nat /\ main.left > 0 /\ main.left - 1 \in 0 .. Batch
  BY MainsAre, BatchPos DEF Types, MainOK, Add, At
<1>2. /\ m1 \in Mains /\ m1.at = main.at /\ m1.back = main.back /\ m1.queue = main.queue
      /\ m1.left = main.left - 1
  BY <1>3, MainLeft
<1>7. /\ m2 \in Mains /\ m2.back = main.back /\ m2.queue = main.queue
      /\ m2.left = main.left - 1 /\ m2.entry = NULL
  <2>1. NULL \in Pointers
    BY DEF Pointers
  <2>2. m2 = [m1 EXCEPT !.entry = NULL]
    OBVIOUS
  <2> QED
    BY ONLY <1>2, <2>1, <2>2, MainEntry
<1>8. main' = [m2 EXCEPT !.at = at] /\ at \in Ats
  BY <1>3, MainsAre DEF Add, Ats
<1>4. /\ main'.left = main.left - 1 /\ main'.entry = NULL /\ main'.at = at
      /\ main'.queue = main.queue /\ main'.back = main.back
      /\ main' \in Mains
  BY ONLY <1>7, <1>8, MainAt
<1>5. MainOK'
  <2>1. processing' = processing /\ (main.back = "user" <=> main.queue # NULL) /\ main.back \in {"script", "user"}
    BY <1>3, MainsAre DEF Add, At, Types, MainOK
  <2>2. main.queue # NULL => processing'
    BY DEF Types, MainOK, Add
  <2>3. at \in {"alloc", "user", "script"} /\ (at = "alloc" => main.left - 1 > 0)
        /\ (at # "alloc" => at = main.back)
    BY <1>3, <2>1
  <2> QED
    BY <1>4, <2>1, <2>2, <2>3 DEF MainOK
<1>6. Room'
  BY <1>3, <1>4, MemoryIsFinite, MaxEntriesNat DEF Types, Room, Add, At
<1> QED
  BY <1>1, <1>3, <1>5, <1>6, MainsAre DEF Types, Add, past

\* Dispatch reads the queue, ...
LEMMA TypesDispatch ==
    ASSUME Types, Dispatch
    PROVE  Types'
<1>1. FramesOK' /\ Counted'
  BY TypesScript DEF Types, Counted, Dispatch, past
<1>3. /\ main' \in Mains /\ main'.at = "clear" /\ main'.queue = head
  <2> PICK m : m = [main EXCEPT !.at = "clear"]
    OBVIOUS
  <2>1. main \in Mains /\ "clear" \in Ats /\ head \in Pointers
    BY DEF Types, MainOK, Ats
  <2>2. m \in Mains /\ m.at = "clear"
    BY <2>1, MainAt
  <2>3. main' = [m EXCEPT !.queue = head]
    BY DEF Dispatch
  <2> QED
    BY ONLY <2>1, <2>2, <2>3, MainQueue
<1>2. MainOK' /\ Room'
  BY <1>3 DEF MainOK, Room, Dispatch
<1> QED
  BY <1>1, <1>2 DEF Types, Dispatch, lists, past

\* ... empties it, ...
LEMMA TypesClear ==
    ASSUME Types, Clear
    PROVE  Types'
<1>1. FramesOK' /\ Counted'
  BY TypesScript DEF Types, Counted, Clear, past
<1>3. /\ main' \in Mains /\ main'.at = "user" /\ main'.queue = main.queue
  <2>1. main \in Mains /\ "user" \in Ats /\ main' = [main EXCEPT !.at = "user"]
    BY DEF Types, MainOK, Ats, Clear
  <2> QED
    BY ONLY <2>1, MainAt
<1>2. MainOK' /\ Room'
  BY <1>3 DEF Types, MainOK, Room, Clear, At
<1> QED
  BY <1>1, <1>2 DEF Types, Clear, past, Pointers

\* ... calls the function of the script for each signal, ...
LEMMA TypesCalled ==
    ASSUME Types, Called
    PROVE  Types'
<1>1. FramesOK' /\ Counted'
  BY TypesScript DEF Types, Counted, Called
<1>2. main.queue \in Entries
  BY MainsAre DEF Types, MainOK, Called, At, Pointers
<1>4. /\ main' \in Mains /\ main'.at = "give" /\ main'.queue = main.queue
      /\ main'.entry = next[main.queue]
  <2> PICK m : m = [main EXCEPT !.at = "give"]
    OBVIOUS
  <2>1. main \in Mains /\ "give" \in Ats /\ next[main.queue] \in Pointers
    BY <1>2 DEF Types, MainOK, Ats
  <2>2. m \in Mains /\ m.at = "give" /\ m.queue = main.queue
    BY <2>1, MainAt
  <2>3. main' = [m EXCEPT !.entry = next[main.queue]]
    BY DEF Called
  <2> QED
    BY ONLY <2>1, <2>2, <2>3, MainEntry
<1>3. MainOK' /\ Room'
  BY <1>4 DEF Types, MainOK, Room, Called, At
<1> QED
  BY <1>1, <1>2, <1>3 DEF Types, Called

\* ... and gives its entry back.
LEMMA TypesGive ==
    ASSUME Types, Give
    PROVE  Types'
<1>1. FramesOK' /\ Counted'
  BY TypesScript DEF Types, Counted, Give, past
<1>2. processing' \in BOOLEAN /\ (main.entry # NULL => processing')
  BY DEF Give
<1>3. CASE main.entry = NULL
  <2>1. main' \in Mains /\ main'.at = "script" /\ main'.queue = NULL
    <3>1. main' = [at |-> "script", back |-> "script", queue |-> NULL, entry |-> NULL, left |-> 0]
      BY <1>3 DEF Give, Idle
    <3>2. "script" \in Ats /\ NULL \in Pointers
      BY DEF Ats, Pointers
    <3> QED
      BY ONLY <3>1, <3>2, NewMain
  <2>2. MainOK' /\ Room'
    BY <2>1 DEF MainOK, Room
  <2>3. main.queue \in Pointers
    BY MainsAre DEF Types, MainOK
  <2> QED
    BY <1>1, <1>2, <2>2, <2>3 DEF Types, Give, past
<1>4. CASE main.entry # NULL
  <2>1. main' = [at |-> "user", back |-> "script", queue |-> main.entry, entry |-> NULL, left |-> 0]
    BY <1>4 DEF Give, Idle
  <2>2. main.entry \in Pointers /\ main.queue \in Pointers
    BY MainsAre DEF Types, MainOK
  <2>3. "user" \in Ats /\ NULL \in Pointers
    BY DEF Ats, Pointers
  <2>4. main' \in Mains /\ main'.at = "user" /\ main'.queue = main.entry
    BY ONLY <2>1, <2>2, <2>3, NewMain
  <2>5. MainOK' /\ Room'
    BY <1>2, <1>4, <2>4 DEF MainOK, Room
  <2> QED
    BY <1>1, <1>2, <2>2, <2>5 DEF Types, Give, past
<1> QED
  BY <1>3, <1>4

\* exit() leaves what was to be played.
LEMMA TypesExit ==
    ASSUME Types, Exit, Chain(main.queue) \in Seq(Entries) \/ torn
    PROVE  Types'
<1> PICK rest : rest = IF torn THEN <<>> ELSE Chain(main.queue)
  OBVIOUS
<1>1. rest \in Seq(Entries)
  BY EmptySeq
<1>2. Len(rest) \in Nat /\ ToSet(rest) \in SUBSET Entries
  BY <1>1, LenProperties, ElementOfSeq DEF ToSet
<1>3. abandoned' = abandoned \cup ToSet(rest) /\ called' = called + Len(rest)
  BY DEF Exit
<1>4. FramesOK' /\ Counted'
  BY <1>2, <1>3, TypesScript DEF Types, Counted, Exit
<1>5. MainOK' /\ Room'
  <2>1. main' = [at |-> "script", back |-> "script", queue |-> NULL, entry |-> NULL, left |-> 0]
    BY DEF Exit, Idle
  <2>2. "script" \in Ats /\ NULL \in Pointers
    BY DEF Ats, Pointers
  <2>3. main' \in Mains /\ main'.at = "script" /\ main'.queue = NULL
    BY ONLY <2>1, <2>2, NewMain
  <2> QED
    BY <2>3 DEF MainOK, Room
<1> QED
  BY <1>2, <1>3, <1>4, <1>5 DEF Types, Exit, lists

\* The request comes to its end.
LEMMA TypesEnd ==
    ASSUME Types, EndScript \/ EndRequest
    PROVE  Types'
<1>1. FramesOK' /\ Counted'
  BY TypesScript DEF Types, Counted, EndScript, EndRequest, past
<1>2. MainOK' /\ Room'
  <2>1. CASE EndScript
    BY <2>1 DEF Types, MainOK, Room, EndScript
  <2>2. CASE EndRequest
    <3> PICK at : at = IF head # NULL THEN "drop" ELSE "spares"
      OBVIOUS
    <3>1. main' = [at |-> at, back |-> "script", queue |-> NULL, entry |-> NULL, left |-> 0]
      BY <2>2 DEF EndRequest, Idle
    <3>2. at \in Ats /\ NULL \in Pointers
      BY DEF Ats, Pointers
    <3>3. main' \in Mains /\ main'.at = at /\ main'.queue = NULL
      BY ONLY <3>1, <3>2, NewMain
    <3> QED
      BY <3>3 DEF MainOK, Room
  <2> QED
    BY <2>1, <2>2
<1> QED
  BY <1>1, <1>2 DEF Types, EndScript, EndRequest, lists, past

\* RSHUTDOWN frees an entry, or goes on to the next one.
LEMMA TypesShutdown ==
    ASSUME Types, Shutdown
    PROVE  Types'
<1>1. FramesOK' /\ Counted'
  BY TypesScript DEF Types, Counted, Shutdown, ReadHead, FreeHead, ReadSpares, FreeSpare, past, At
<1>2. CASE ReadHead
  <2> PICK at : at = IF head = NULL THEN "spares" ELSE "free head"
    OBVIOUS
  <2>1. main' = [at |-> at, back |-> "script", queue |-> NULL, entry |-> head, left |-> 0]
    BY <1>2 DEF ReadHead, Idle
  <2>4. at \in Ats /\ NULL \in Pointers /\ head \in Pointers
    BY DEF Ats, Pointers, Types
  <2>5. main' \in Mains /\ main'.at = at /\ main'.queue = NULL /\ main'.entry = head
    BY ONLY <2>1, <2>4, NewMain
  <2>2. MainOK' /\ Room'
    BY <2>5 DEF MainOK, Room
  <2> QED
    BY <1>1, <1>2, <2>2 DEF Types, ReadHead, lists, past
<1>3. CASE FreeHead
  <2>1. main' = [at |-> "drop", back |-> "script", queue |-> NULL, entry |-> NULL, left |-> 0]
    BY <1>3 DEF FreeHead, Idle
  <2>4. "drop" \in Ats /\ NULL \in Pointers /\ NULL \in Pointers
    BY DEF Ats, Pointers, Types
  <2>5. main' \in Mains /\ main'.at = "drop" /\ main'.queue = NULL /\ main'.entry = NULL
    BY ONLY <2>1, <2>4, NewMain
  <2>2. MainOK' /\ Room'
    BY <2>5 DEF MainOK, Room
  <2>3. main.entry \in Entries
    BY <1>3, MainsAre DEF Types, MainOK, FreeHead, At, Pointers
  <2> QED
    BY <1>1, <1>3, <2>2, <2>3 DEF Types, FreeHead, past
<1>4. CASE ReadSpares
  <2> PICK at : at = IF spares = NULL THEN "off" ELSE "free spare"
    OBVIOUS
  <2>1. main' = [at |-> at, back |-> "script", queue |-> NULL, entry |-> spares, left |-> 0]
    BY <1>4 DEF ReadSpares, Idle
  <2>4. at \in Ats /\ NULL \in Pointers /\ spares \in Pointers
    BY DEF Ats, Pointers, Types
  <2>5. main' \in Mains /\ main'.at = at /\ main'.queue = NULL /\ main'.entry = spares
    BY ONLY <2>1, <2>4, NewMain
  <2>2. MainOK' /\ Room'
    BY <2>5 DEF MainOK, Room
  <2> QED
    BY <1>1, <1>4, <2>2 DEF Types, ReadSpares, lists, past
<1>5. CASE FreeSpare
  <2>1. main' = [at |-> "spares", back |-> "script", queue |-> NULL, entry |-> NULL, left |-> 0]
    BY <1>5 DEF FreeSpare, Idle
  <2>4. "spares" \in Ats /\ NULL \in Pointers /\ NULL \in Pointers
    BY DEF Ats, Pointers, Types
  <2>5. main' \in Mains /\ main'.at = "spares" /\ main'.queue = NULL /\ main'.entry = NULL
    BY ONLY <2>1, <2>4, NewMain
  <2>2. MainOK' /\ Room'
    BY <2>5 DEF MainOK, Room
  <2>3. main.entry \in Entries
    BY <1>5, MainsAre DEF Types, MainOK, FreeSpare, At, Pointers
  <2> QED
    BY <1>1, <1>5, <2>2, <2>3 DEF Types, FreeSpare, past
<1> QED
  BY <1>2, <1>3, <1>4, <1>5 DEF Shutdown

\* A request starts with nothing.
LEMMA TypesNextRequest ==
    ASSUME Types, NextRequest
    PROVE  Types'
<1>1. FramesOK' /\ Counted'
  BY TypesScript DEF Types, Counted, NextRequest, At
<1>2. MainOK' /\ Room'
  <2>1. main' = [at |-> "script", back |-> "script", queue |-> NULL, entry |-> NULL, left |-> 0]
    BY DEF NextRequest, Idle
  <2>2. "script" \in Ats /\ NULL \in Pointers
    BY DEF Ats, Pointers
  <2>3. main' \in Mains /\ main'.at = "script" /\ main'.queue = NULL
    BY ONLY <2>1, <2>2, NewMain
  <2> QED
    BY <2>3 DEF MainOK, Room
<1>3. request' \in 1 .. MaxRequests
  BY MaxRequestsPos DEF Types, NextRequest
<1>4. next' \in [Entries -> Pointers] /\ seq' \in [Entries -> Nat]
  BY DEF NextRequest, Pointers
<1> QED
  BY <1>1, <1>2, <1>3, <1>4 DEF Types, NextRequest, Pointers
-----------------------------------------------------------------------------
(* Lists *)

\* What a list of entries is.
LEMMA ListIs ==
    ASSUME NEW s \in Seq(Entries)
    PROVE  /\ Len(s) \in Nat /\ DOMAIN s = 1 .. Len(s)
           /\ s = <<>> <=> Len(s) = 0
           /\ s # <<>> => 1 \in 1 .. Len(s) /\ Len(s) \in 1 .. Len(s) /\ Len(s) > 0
           /\ \A i \in 1 .. Len(s) : s[i] \in Entries /\ s[i] \in ToSet(s)
           /\ \A x \in ToSet(s) : \E i \in 1 .. Len(s) : s[i] = x
           /\ ToSet(s) \in SUBSET Entries
<1>1. Len(s) \in Nat /\ DOMAIN s = 1 .. Len(s) /\ \A i \in 1 .. Len(s) : s[i] \in Entries
  BY LenProperties, ElementOfSeq
<1>2. s # <<>> => Len(s) \in Nat \ {0}
  BY EmptySeq
<1>3. s = <<>> => Len(s) = 0
  BY EmptySeq
<1>4. s # <<>> => 1 \in 1 .. Len(s) /\ Len(s) \in 1 .. Len(s) /\ Len(s) > 0
  BY <1>2
<1> QED
  BY <1>1, <1>2, <1>3, <1>4 DEF ToSet

\* The list of no entry.
LEMMA EmptyList == <<>> \in Seq(Entries) /\ Len(<<>>) = 0 /\ ToSet(<<>>) = {} /\ IsInjective(<<>>)
<1>1. <<>> \in Seq(Entries) /\ Len(<<>>) = 0
  BY EmptySeq
<1>2. DOMAIN <<>> = {}
  BY <1>1, LenProperties
<1> QED
  BY <1>1, <1>2 DEF ToSet, IsInjective

\* A list without its first entry.
LEMMA TailIs ==
    ASSUME NEW s \in Seq(Entries), s # <<>>
    PROVE  /\ Tail(s) \in Seq(Entries) /\ Len(Tail(s)) = Len(s) - 1
           /\ \A i \in 1 .. Len(s) - 1 : Tail(s)[i] = s[i+1]
           /\ ToSet(s) = {s[1]} \cup ToSet(Tail(s))
           /\ IsInjective(s) => IsInjective(Tail(s)) /\ s[1] \notin ToSet(Tail(s))
<1> PICK t : t = Tail(s)
  OBVIOUS
<1>1. t \in Seq(Entries) /\ Len(t) = Len(s) - 1 /\ \A i \in 1 .. Len(t) : t[i] = s[i+1]
  BY HeadTailProperties
<1>2. Len(s) \in Nat /\ Len(s) > 0 /\ DOMAIN s = 1 .. Len(s) /\ DOMAIN t = 1 .. Len(s) - 1
  BY <1>1, ListIs
<1>3. \A i \in 1 .. Len(s) - 1 : i + 1 \in 1 .. Len(s) /\ t[i] = s[i+1] /\ i + 1 # 1
  BY <1>1, <1>2
<1>4. \A i \in 1 .. Len(s) : i = 1 \/ (i - 1 \in 1 .. Len(s) - 1 /\ t[i-1] = s[i])
  BY <1>1, <1>2
<1>5. ToSet(s) = {s[1]} \cup ToSet(t)
  <2>1. ASSUME NEW y \in ToSet(s)
        PROVE  y \in {s[1]} \cup ToSet(t)
    <3> PICK i \in 1 .. Len(s) : y = s[i]
      BY <1>2 DEF ToSet
    <3>1. CASE i = 1
      BY <3>1
    <3>2. CASE i # 1
      <4>1. i - 1 \in DOMAIN t /\ t[i-1] = y
        BY <1>2, <1>4, <3>2
      <4> QED
        BY <4>1 DEF ToSet
    <3> QED
      BY <3>1, <3>2
  <2>2. ASSUME NEW y \in ToSet(t)
        PROVE  y \in ToSet(s)
    <3> PICK i \in 1 .. Len(s) - 1 : y = t[i]
      BY <1>2 DEF ToSet
    <3>1. i + 1 \in DOMAIN s /\ s[i+1] = y
      BY <1>2, <1>3
    <3> QED
      BY <3>1 DEF ToSet
  <2>3. s[1] \in ToSet(s)
    BY <1>2, ListIs
  <2> QED
    BY <2>1, <2>2, <2>3
<1>6. ASSUME IsInjective(s)
      PROVE  IsInjective(t) /\ s[1] \notin ToSet(t)
  <2>1. \A i, j \in 1 .. Len(s) - 1 : t[i] = t[j] => i = j
    BY <1>2, <1>3, <1>6 DEF IsInjective
  <2>2. \A i \in 1 .. Len(s) - 1 : t[i] # s[1]
    BY <1>2, <1>3, <1>6 DEF IsInjective
  <2> QED
    BY <1>2, <2>1, <2>2 DEF IsInjective, ToSet
<1> QED
  BY <1>1, <1>5, <1>6

\* A list with one entry more in front.
LEMMA ConsIs ==
    ASSUME NEW s \in Seq(Entries), NEW x \in Entries
    PROVE  /\ <<x>> \o s \in Seq(Entries) /\ Len(<<x>> \o s) = Len(s) + 1
           /\ (<<x>> \o s)[1] = x
           /\ \A i \in 2 .. Len(s) + 1 : (<<x>> \o s)[i] = s[i-1]
           /\ ToSet(<<x>> \o s) = {x} \cup ToSet(s)
           /\ IsInjective(s) /\ x \notin ToSet(s) => IsInjective(<<x>> \o s)
<1> PICK t : t = <<x>> \o s
  OBVIOUS
<1>1. <<x>> \in Seq(Entries) /\ Len(<<x>>) = 1 /\ <<x>>[1] = x
  OBVIOUS
<1>2. /\ t \in Seq(Entries) /\ Len(t) = 1 + Len(s)
      /\ \A i \in 1 .. 1 + Len(s) : t[i] = IF i <= 1 THEN <<x>>[i] ELSE s[i - 1]
  BY <1>1, ConcatProperties
<1>3. Len(s) \in Nat /\ DOMAIN s = 1 .. Len(s) /\ DOMAIN t = 1 .. Len(s) + 1
  BY <1>2, ListIs
<1>4. t[1] = x /\ \A i \in 2 .. Len(s) + 1 : t[i] = s[i-1] /\ i - 1 \in 1 .. Len(s)
  BY <1>1, <1>2, <1>3
<1>5. \A i \in 1 .. Len(s) : i + 1 \in 2 .. Len(s) + 1 /\ t[i+1] = s[i]
  BY <1>3, <1>4
<1>6. \A i \in 1 .. Len(s) + 1 : i = 1 \/ i \in 2 .. Len(s) + 1
  BY <1>3
<1>7. ToSet(t) = {x} \cup ToSet(s)
  <2>1. ASSUME NEW y \in ToSet(t)
        PROVE  y \in {x} \cup ToSet(s)
    <3> PICK i \in 1 .. Len(s) + 1 : y = t[i]
      BY <1>3 DEF ToSet
    <3>1. CASE i = 1
      BY <1>4, <3>1
    <3>2. CASE i \in 2 .. Len(s) + 1
      <4>1. i - 1 \in DOMAIN s /\ s[i-1] = y
        BY <1>3, <1>4, <3>2
      <4> QED
        BY <4>1 DEF ToSet
    <3> QED
      BY <1>6, <3>1, <3>2
  <2>2. ASSUME NEW y \in ToSet(s)
        PROVE  y \in ToSet(t)
    <3> PICK i \in 1 .. Len(s) : y = s[i]
      BY <1>3 DEF ToSet
    <3>1. i + 1 \in DOMAIN t /\ t[i+1] = y
      BY <1>3, <1>5
    <3> QED
      BY <3>1 DEF ToSet
  <2>3. 1 \in DOMAIN t
    BY <1>3
  <2>4. x \in ToSet(t)
    BY <1>4, <2>3 DEF ToSet
  <2> QED
    BY <2>1, <2>2, <2>4
<1>8. ASSUME IsInjective(s), x \notin ToSet(s)
      PROVE  IsInjective(t)
  <2>1. ASSUME NEW i \in 1 .. Len(s) + 1, NEW j \in 1 .. Len(s) + 1, t[i] = t[j]
        PROVE  i = j
    <3>1. CASE i = 1 /\ j = 1
      BY <3>1
    <3>2. CASE i = 1 /\ j \in 2 .. Len(s) + 1
      BY <1>3, <1>4, <1>8, <2>1, <3>2 DEF ToSet
    <3>3. CASE j = 1 /\ i \in 2 .. Len(s) + 1
      BY <1>3, <1>4, <1>8, <2>1, <3>3 DEF ToSet
    <3>4. CASE i \in 2 .. Len(s) + 1 /\ j \in 2 .. Len(s) + 1
      <4>1. i - 1 = j - 1
        <5>1. t[i] = s[i-1] /\ i - 1 \in DOMAIN s
          BY <1>3, <1>4, <3>4
        <5>2. t[j] = s[j-1] /\ j - 1 \in DOMAIN s
          BY <1>3, <1>4, <3>4
        <5> QED
          BY <1>8, <2>1, <5>1, <5>2 DEF IsInjective
      <4> QED
        BY <4>1, <3>4, <1>3
    <3> QED
      BY <1>6, <3>1, <3>2, <3>3, <3>4
  <2> QED
    BY <1>3, <2>1 DEF IsInjective
<1> QED
  BY <1>2, <1>3, <1>4, <1>7, <1>8

\* A list with one entry more at its end.
LEMMA AddedIs ==
    ASSUME NEW s \in Seq(Entries), NEW x \in Entries
    PROVE  /\ Append(s, x) \in Seq(Entries) /\ Len(Append(s, x)) = Len(s) + 1
           /\ Append(s, x) # <<>>
           /\ \A i \in 1 .. Len(s) : Append(s, x)[i] = s[i]
           /\ Append(s, x)[Len(s) + 1] = x /\ Last(Append(s, x)) = x
           /\ ToSet(Append(s, x)) = ToSet(s) \cup {x}
<1> PICK t : t = Append(s, x)
  OBVIOUS
<1>1. /\ t \in Seq(Entries) /\ t # <<>> /\ Len(t) = Len(s) + 1
      /\ \A i \in 1 .. Len(s) : t[i] = s[i]
      /\ t[Len(s) + 1] = x
  BY AppendProperties
<1>2. Len(s) \in Nat /\ DOMAIN s = 1 .. Len(s) /\ DOMAIN t = 1 .. Len(s) + 1
  BY <1>1, ListIs
<1>3. \A i \in 1 .. Len(s) + 1 : i \in 1 .. Len(s) \/ i = Len(s) + 1
  BY <1>2
<1>4. \A i \in 1 .. Len(s) : i \in 1 .. Len(s) + 1
  BY <1>2
<1>5. Len(s) + 1 \in 1 .. Len(s) + 1
  BY <1>2
<1>6. ToSet(t) = ToSet(s) \cup {x}
  BY <1>1, <1>2, <1>3, <1>4, <1>5 DEF ToSet
<1> QED
  BY <1>1, <1>6 DEF Last

\* The list of one entry.
LEMMA OneIs ==
    ASSUME NEW x \in Entries
    PROVE  /\ <<x>> \in Seq(Entries) /\ Len(<<x>>) = 1 /\ <<x>> # <<>> /\ <<x>>[1] = x
           /\ Last(<<x>>) = x /\ ToSet(<<x>>) = {x}
<1>1. <<x>> \in Seq(Entries) /\ Len(<<x>>) = 1 /\ <<x>>[1] = x
  OBVIOUS
<1>2. <<x>> # <<>>
  BY <1>1, EmptySeq
<1>3. DOMAIN <<x>> = {1}
  BY <1>1, LenProperties
<1> QED
  BY <1>1, <1>2, <1>3 DEF Last, ToSet

-----------------------------------------------------------------------------
(* Lists in memory *)

\* A list is empty when there is no first entry.
LEMMA PathNull ==
    ASSUME NEW nx, NEW e, NEW s, Path(nx, e, s)
    PROVE  /\ s \in Seq(Entries)
           /\ e = NULL <=> s = <<>>
           /\ s # <<>> => e = s[1] /\ e \in Entries /\ e \in ToSet(s) /\ Last(s) \in ToSet(s)
                          /\ Last(s) \in Entries /\ Last(s) # NULL
<1>1. s \in Seq(Entries)
  BY DEF Path
<1>2. s = <<>> => e = NULL
  BY DEF Path
<1>3. ASSUME s # <<>>
      PROVE  e = s[1] /\ e \in Entries /\ e \in ToSet(s) /\ Last(s) \in ToSet(s) /\ Last(s) \in Entries
  BY <1>1, <1>3, ListIs DEF Path, Last
<1>4. \A x \in Entries : x # NULL
  BY DEF Entries, NULL
<1> QED
  BY <1>1, <1>2, <1>3, <1>4

\* No entry leads nowhere.
LEMMA PathEmpty ==
    ASSUME NEW nx
    PROVE  Path(nx, NULL, <<>>)
BY EmptyList DEF Path

\* What is not on a list may change.
LEMMA PathSame ==
    ASSUME NEW nx, NEW my, NEW e, NEW s, Path(nx, e, s),
           \A x \in ToSet(s) : my[x] = nx[x]
    PROVE  Path(my, e, s)
BY ListIs DEF Path

\* The second entry leads to the rest of the list.
LEMMA PathTail ==
    ASSUME NEW nx, NEW e, NEW s, Path(nx, e, s), s # <<>>
    PROVE  Path(nx, nx[e], Tail(s))
<1> PICK t : t = Tail(s)
  OBVIOUS
<1>1. s \in Seq(Entries) /\ e = s[1]
  BY DEF Path
<1>2. Len(s) \in Nat /\ Len(s) > 0 /\ 1 \in 1 .. Len(s)
  BY <1>1, ListIs
<1>3. t \in Seq(Entries) /\ Len(t) = Len(s) - 1 /\ \A i \in 1 .. Len(s) - 1 : t[i] = s[i+1]
  BY <1>1, TailIs
<1>4. t = <<>> <=> Len(t) = 0
  BY <1>3, ListIs
<1>5. \A i \in 1 .. Len(s) : nx[s[i]] = IF i < Len(s) THEN s[i+1] ELSE NULL
  BY DEF Path
<1>6. nx[e] = IF t = <<>> THEN NULL ELSE t[1]
  BY <1>1, <1>2, <1>3, <1>4, <1>5
<1>7. ASSUME NEW i \in 1 .. Len(t)
      PROVE  nx[t[i]] = IF i < Len(t) THEN t[i+1] ELSE NULL
  <2>1. i \in Nat /\ i + 1 \in 1 .. Len(s) /\ t[i] = s[i+1] /\ (i + 1 < Len(s) <=> i < Len(t))
    BY <1>2, <1>3
  <2>2. CASE i < Len(t)
    <3>1. t[i+1] = s[i+1+1]
      BY <1>2, <1>3, <2>1, <2>2
    <3> QED
      BY <1>5, <2>1, <2>2, <3>1
  <2>3. CASE ~(i < Len(t))
    BY <1>5, <2>1, <2>3
  <2> QED
    BY <2>2, <2>3
<1> QED
  BY <1>3, <1>6, <1>7 DEF Path

\* An entry that points to the first one makes the list longer.
LEMMA PathCons ==
    ASSUME NEW nx, NEW e, NEW s, Path(nx, e, s), NEW x \in Entries, nx[x] = e
    PROVE  Path(nx, x, <<x>> \o s)
<1> PICK t : t = <<x>> \o s
  OBVIOUS
<1>1. s \in Seq(Entries) /\ e = IF s = <<>> THEN NULL ELSE s[1]
  BY DEF Path
<1>2. Len(s) \in Nat /\ (s = <<>> <=> Len(s) = 0)
  BY <1>1, ListIs
<1>3. t \in Seq(Entries) /\ Len(t) = Len(s) + 1 /\ t[1] = x
      /\ \A i \in 2 .. Len(s) + 1 : t[i] = s[i-1]
  BY <1>1, ConsIs
<1>4. t # <<>>
  BY <1>2, <1>3, ListIs
<1>5. \A i \in 1 .. Len(s) : nx[s[i]] = IF i < Len(s) THEN s[i+1] ELSE NULL
  BY DEF Path
<1>6. ASSUME NEW i \in 1 .. Len(t)
      PROVE  nx[t[i]] = IF i < Len(t) THEN t[i+1] ELSE NULL
  <2>1. CASE i = 1
    <3>1. CASE Len(s) = 0
      BY <1>1, <1>2, <1>3, <2>1, <3>1
    <3>2. CASE Len(s) > 0
      <4>1. t[1+1] = s[1]
        BY <1>2, <1>3, <3>2
      <4> QED
        BY <1>1, <1>2, <1>3, <2>1, <3>2, <4>1
    <3> QED
      BY <1>2, <3>1, <3>2
  <2>2. CASE i > 1
    <3>1. i - 1 \in 1 .. Len(s) /\ t[i] = s[i-1] /\ (i < Len(t) <=> i - 1 < Len(s)) /\ i \in Nat
      BY <1>2, <1>3, <2>2
    <3>2. CASE i < Len(t)
      <4>1. t[i+1] = s[i-1+1]
        BY <1>2, <1>3, <2>2, <3>2
      <4> QED
        BY <1>5, <3>1, <3>2, <4>1
    <3>3. CASE ~(i < Len(t))
      BY <1>5, <3>1, <3>3
    <3> QED
      BY <3>2, <3>3
  <2>3. i = 1 \/ i > 1
    BY <1>2, <1>3
  <2> QED
    BY <2>1, <2>2, <2>3
<1> QED
  BY <1>3, <1>4, <1>6 DEF Path

\* An entry that points nowhere.
LEMMA PathOne ==
    ASSUME NEW nx, NEW x \in Entries, nx[x] = NULL
    PROVE  Path(nx, x, <<x>>)
<1>1. /\ <<x>> \in Seq(Entries) /\ Len(<<x>>) = 1 /\ <<x>> # <<>> /\ <<x>>[1] = x
  BY OneIs
<1> QED
  BY <1>1 DEF Path

\* The last entry is made to point to a new one.
LEMMA PathAppend ==
    ASSUME NEW nx \in [Entries -> Pointers], NEW e, NEW s, Path(nx, e, s), s # <<>>,
           IsInjective(s), NEW x \in Entries, x \notin ToSet(s), nx[x] = NULL,
           NEW my, my = [nx EXCEPT ![Last(s)] = x]
    PROVE  Path(my, e, Append(s, x))
<1> PICK t : t = Append(s, x)
  OBVIOUS
<1> PICK n : n = Len(s)
  OBVIOUS
<1>1. s \in Seq(Entries) /\ e = s[1]
  BY DEF Path
<1>2. n \in Nat /\ n > 0 /\ DOMAIN s = 1 .. n /\ n \in 1 .. n /\ 1 \in 1 .. n
      /\ \A i \in 1 .. n : s[i] \in Entries /\ s[i] \in ToSet(s)
  BY <1>1, ListIs
<1>3. t \in Seq(Entries) /\ t # <<>> /\ Len(t) = n + 1 /\ (\A i \in 1 .. n : t[i] = s[i])
      /\ t[n + 1] = x
  BY <1>1, AddedIs
<1>4. Last(s) = s[n] /\ s[n] \in Entries
  BY <1>2 DEF Last
<1>5. my[s[n]] = x /\ \A y \in Entries : y # s[n] => my[y] = nx[y]
  BY <1>4
<1>6. \A i \in 1 .. n : nx[s[i]] = IF i < n THEN s[i+1] ELSE NULL
  BY DEF Path
<1>7. ASSUME NEW i \in 1 .. Len(t)
      PROVE  my[t[i]] = IF i < Len(t) THEN t[i+1] ELSE NULL
  <2>1. CASE i = n + 1
    <3>1. x # s[n]
      BY <1>2
    <3> QED
      BY <1>2, <1>3, <1>5, <2>1, <3>1
  <2>2. CASE i = n
    BY <1>2, <1>3, <1>5, <2>2
  <2>3. CASE i < n
    <3>1. i \in 1 .. n /\ i + 1 \in 1 .. n /\ i < Len(t) /\ i # n
      BY <1>2, <1>3, <2>3
    <3>2. s[i] # s[n]
      BY <1>2, <3>1 DEF IsInjective
    <3>3. my[s[i]] = nx[s[i]]
      BY <1>2, <1>5, <3>1, <3>2
    <3> QED
      BY <1>3, <1>6, <2>3, <3>1, <3>3
  <2>4. i = n + 1 \/ i = n \/ i < n
    BY <1>2, <1>3
  <2> QED
    BY <2>1, <2>2, <2>3, <2>4
<1> QED
  BY <1>1, <1>2, <1>3, <1>7 DEF Path
-----------------------------------------------------------------------------
(* The lists and the handlers *)

\* What the parts of the invariant say of the lists.
LEMMA WholeIs ==
    ASSUME Types, NEW S, NEW P, NEW W, NEW lo, Whole(S, P, W, lo)
    PROVE  /\ S \in Seq(Entries) /\ P \in Seq(Entries) /\ W \in Seq(Entries) /\ lo \in Nat
           /\ IsInjective(P) /\ IsInjective(W) /\ ToSet(P) \cap ToSet(W) = {}
           /\ Path(next, head, Filling(P, W))
           /\ main.at = "clear" => W = <<>>
<1>1. /\ Path(next, spares, S) /\ Path(next, Rest, P)
      /\ Path(next, IF main.at = "clear" THEN NULL ELSE head, W)
  BY DEF Whole, Lists
<1>2. S \in Seq(Entries) /\ P \in Seq(Entries) /\ W \in Seq(Entries)
  BY <1>1 DEF Path
<1>3. /\ DOMAIN P = 1 .. Len(P) /\ DOMAIN W = 1 .. Len(W) /\ Len(P) \in Nat /\ Len(W) \in Nat
      /\ lo \in Nat
      /\ \A i \in 1 .. Len(P) : seq[P[i]] = lo + i
      /\ \A i \in 1 .. Len(W) : seq[W[i]] = lo + Len(P) + i
  BY <1>2, ListIs DEF Whole, Numbered
<1>4. IsInjective(P)
  <2>1. ASSUME NEW i \in 1 .. Len(P), NEW j \in 1 .. Len(P), P[i] = P[j]
        PROVE  i = j
    <3>1. lo + i = lo + j
      BY <1>3, <2>1
    <3> QED
      BY <1>3, <3>1
  <2> QED
    BY <1>3, <2>1 DEF IsInjective
<1>5. IsInjective(W)
  <2>1. ASSUME NEW i \in 1 .. Len(W), NEW j \in 1 .. Len(W), W[i] = W[j]
        PROVE  i = j
    <3>1. lo + Len(P) + i = lo + Len(P) + j
      BY <1>3, <2>1
    <3> QED
      BY <1>3, <3>1
  <2> QED
    BY <1>3, <2>1 DEF IsInjective
<1>6. ToSet(P) \cap ToSet(W) = {}
  <2> SUFFICES ASSUME NEW x \in ToSet(P), x \in ToSet(W)
               PROVE  FALSE
    OBVIOUS
  <2> PICK i \in 1 .. Len(P) : P[i] = x
    BY <1>2, ListIs
  <2> PICK j \in 1 .. Len(W) : W[j] = x
    BY <1>2, ListIs
  <2>1. lo + i = lo + Len(P) + j
    BY <1>3
  <2> QED
    BY <1>3, <2>1
<1>7. main.at = "clear" => W = <<>>
  BY <1>1, PathNull
<1>8. Path(next, head, Filling(P, W))
  <2>1. CASE main.at = "clear"
    <3>1. Rest = head
      BY <2>1 DEF Whole, Lists, Rest
    <3> QED
      BY <1>1, <2>1, <3>1 DEF Filling
  <2>2. CASE main.at # "clear"
    BY <1>1, <2>2 DEF Filling
  <2> QED
    BY <2>1, <2>2
<1> QED
  BY <1>2, <1>3, <1>4, <1>5, <1>6, <1>7, <1>8

\* When no handler runs.
LEMMA Quiet ==
    ASSUME frames = <<>>
    PROVE  /\ DOMAIN frames = {}
           /\ InHand = (IF main.at = "give" THEN {main.queue} ELSE {})
                       \cup (IF main.at = "add" THEN {main.entry} ELSE {})
<1>1. DOMAIN frames = {}
  BY EmptySeq, LenProperties
<1> QED
  BY <1>1 DEF InHand, Held

\* As above, of the state after a step.
LEMMA QuietNext ==
    ASSUME frames' = <<>>
    PROVE  /\ Nested' /\ Hands' /\ DOMAIN frames' = {}
           /\ InHand' = (IF main.at = "give" THEN {main.queue} ELSE {})'
                        \cup (IF main.at = "add" THEN {main.entry} ELSE {})'
<1>1. DOMAIN frames' = {}
  BY EmptySeq, LenProperties
<1> QED
  BY <1>1 DEF InHand, Held, Nested, Hands

\* A step that changes nothing but the place in the script's process.
LEMMA StepPlace ==
    ASSUME Types, NEW S, NEW P, NEW W, NEW lo, Whole(S, P, W, lo),
           frames = <<>>, UNCHANGED <<lists, seq, linked, called, memory, abandoned, frames>>,
           main.at \notin {"give", "clear", "add"}, main'.at \notin {"give", "clear", "add"},
           main'.queue = main.queue, Running' => Running,
           main'.at = "free spare" => main'.entry = spares,
           main'.at = "free head" => main'.entry = head
    PROVE  Whole(S, P, W, lo)'
<1>1. DOMAIN frames = {} /\ InHand = {}
  BY Quiet
<1>2. Nested' /\ Hands' /\ DOMAIN frames' = {} /\ InHand' = {}
  BY QuietNext
<1>3. Lists(S, P, W)'
  BY DEF Whole, Lists, Rest, lists
<1>4. Numbered(P, W, lo)'
  BY DEF Whole, Numbered
<1>5. Apart(S, P, W)'
  BY <1>1, <1>2 DEF Whole, Apart, On
<1>6. Between'
  BY <1>2 DEF Between, lists
<1>7. Ends(Filling(P, W))'
  BY <1>1, <1>2 DEF Whole, Ends, Filling, lists
<1> QED
  BY <1>2, <1>3, <1>4, <1>5, <1>6, <1>7 DEF Whole

\* pcntl_signal() leaves the lists alone until it has allocated an entry.
LEMMA StepPcntlSignal ==
    ASSUME Types, Types', NEW S, NEW P, NEW W, NEW lo, Whole(S, P, W, lo), PcntlSignal
    PROVE  Queue'
<1>1. main \in Mains /\ main'.at = "alloc" /\ main'.queue = main.queue
  BY DEF Types, MainOK, Mains, PcntlSignal
<1>2. frames = <<>> /\ main.at \in {"script", "user"}
  BY DEF PcntlSignal, At
<1>3. Whole(S, P, W, lo)'
  BY <1>1, <1>2, StepPlace DEF PcntlSignal, past, lists, Running
<1> QED
  BY <1>3 DEF Queue

\* The request comes to its end: nothing but the place changes.
LEMMA StepEnd ==
    ASSUME Types, Types', NEW S, NEW P, NEW W, NEW lo, Whole(S, P, W, lo),
           EndScript \/ EndRequest \/ ReadHead \/ ReadSpares
    PROVE  Queue'
<1>1. main.queue = NULL /\ main.at \in {"script", "drop", "spares"} /\ frames = <<>>
  BY DEF Types, MainOK, EndScript, EndRequest, ReadHead, ReadSpares, At
<1>2. UNCHANGED <<lists, seq, linked, called, memory, abandoned, frames>>
  BY DEF EndScript, EndRequest, ReadHead, ReadSpares, past
<1>3. /\ main'.queue = NULL /\ main'.at \notin {"give", "clear", "add"}
      /\ Running' => Running
      /\ main'.at = "free spare" => main'.entry = spares
      /\ main'.at = "free head" => main'.entry = head
  <2>1. CASE EndScript
    BY <1>1, <2>1 DEF EndScript, Running
  <2>2. CASE EndRequest
    <3> PICK at \in {"drop", "spares"} :
            main' = [at |-> at, back |-> "script", queue |-> NULL, entry |-> NULL, left |-> 0]
      BY <2>2 DEF EndRequest, Idle
    <3>1. main'.queue = NULL /\ main'.at = at
      OBVIOUS
    <3> QED
      BY <3>1 DEF Running
  <2>3. CASE ReadHead
    <3> PICK at \in {"spares", "free head"} :
            main' = [at |-> at, back |-> "script", queue |-> NULL, entry |-> head, left |-> 0]
      BY <2>3 DEF ReadHead, Idle
    <3>1. main'.queue = NULL /\ main'.at = at /\ main'.entry = head
      OBVIOUS
    <3> QED
      BY <3>1 DEF Running
  <2>4. CASE ReadSpares
    <3> PICK at \in {"off", "free spare"} :
            main' = [at |-> at, back |-> "script", queue |-> NULL, entry |-> spares, left |-> 0]
      BY <2>4 DEF ReadSpares, Idle
    <3>1. main'.queue = NULL /\ main'.at = at /\ main'.entry = spares
      OBVIOUS
    <3> QED
      BY <3>1 DEF Running
  <2> QED
    BY <2>1, <2>2, <2>3, <2>4
<1>4. Whole(S, P, W, lo)'
  BY <1>1, <1>2, <1>3, StepPlace
<1> QED
  BY <1>4 DEF Queue

\* The new entry is in the hand of pcntl_signal(), and points to the spares.
LEMMA StepAlloc ==
    ASSUME Types, Types', NEW S, NEW P, NEW W, NEW lo, Whole(S, P, W, lo), Alloc
    PROVE  Queue'
<1> PICK psig : psig = CHOOSE e \in Entries \ memory : TRUE
  OBVIOUS
<1>1. /\ frames = <<>> /\ frames' = <<>> /\ main.at = "alloc"
      /\ memory' = memory \cup {psig}
      /\ next' = [next EXCEPT ![psig] = spares]
      /\ main' = [main EXCEPT !.at = "add", !.entry = psig]
  BY DEF Alloc, At
<1>2. main \in Mains /\ main'.at = "add" /\ main'.queue = main.queue /\ main'.entry = psig
  BY <1>1 DEF Types, MainOK, Mains
<1>3. psig \in Entries \ memory
  <2>1. Cardinality(memory) + main.left <= MaxEntries /\ main.left > 0 /\ main.left \in Nat
    BY <1>1, MainsAre DEF Types, Room, MainOK
  <2>2. Entries \ memory # {}
    BY <2>1, MemoryIsFinite, MaxEntriesNat
  <2> QED
    BY <2>2
<1>4. DOMAIN frames = {} /\ InHand = {}
  BY <1>1, Quiet
<1>5. Nested' /\ Hands' /\ DOMAIN frames' = {} /\ InHand' = {psig}
  BY <1>1, <1>2, QuietNext
<1>6. S \in Seq(Entries) /\ P \in Seq(Entries) /\ W \in Seq(Entries)
  BY WholeIs
<1>7. On(S, P, W) \subseteq memory /\ memory \subseteq Entries
  BY DEF Whole, Apart, Types
<1>8. \A x \in On(S, P, W) : next'[x] = next[x]
  BY <1>1, <1>3, <1>7 DEF Types
<1>9. Lists(S, P, W)'
  <2>1. Path(next', spares', S)
    BY <1>8, PathSame DEF Whole, Lists, On, Alloc
  <2>2. Path(next', main.queue, P)
    BY <1>1, <1>8, PathSame DEF Whole, Lists, On, Rest
  <2>4. Path(next, head, W) /\ head' = head
    BY <1>1 DEF Whole, Lists, Alloc
  <2>3. Path(next', head', W)
    BY <1>8, <2>4, PathSame DEF On
  <2> QED
    BY <1>2, <2>1, <2>2, <2>3 DEF Lists, Rest
<1>10. Numbered(P, W, lo)'
  BY <1>1 DEF Whole, Numbered, Alloc, past, Running
<1>11. Apart(S, P, W)'
  <2>2. On(S, P, W) \cap {psig} = {} /\ On(S, P, W) \cup {psig} \subseteq memory'
    BY <1>1, <1>3, <1>7
  <2>3. On(S, P, W) = memory \ abandoned
    BY <1>1, <1>4 DEF Whole, Apart, Running
  <2>4. abandoned \subseteq memory /\ abandoned' = abandoned
    BY <1>1 DEF Whole, Apart, Running, Alloc, past
  <2>5. On(S, P, W) \cup {psig} = memory' \ abandoned'
    BY <1>1, <1>3, <2>3, <2>4
  <2>6. IsInjective(S) /\ ToSet(S) \cap (ToSet(P) \cup ToSet(W)) = {}
    BY DEF Whole, Apart
  <2> QED
    BY <1>1, <1>5, <2>2, <2>4, <2>5, <2>6 DEF Apart
<1>12. Between'
  BY <1>1, <1>2, <1>3, <1>5 DEF Between, Types, Alloc
<1>13. Ends(Filling(P, W))'
  BY <1>1, <1>2, <1>4, <1>5 DEF Whole, Ends, Filling, Alloc
<1>14. Whole(S, P, W, lo)'
  BY <1>5, <1>9, <1>10, <1>11, <1>12, <1>13 DEF Whole
<1> QED
  BY <1>14 DEF Queue

\* The new entry is the first spare one.
LEMMA StepAdd ==
    ASSUME Types, Types', NEW S, NEW P, NEW W, NEW lo, Whole(S, P, W, lo), Add
    PROVE  Queue'
<1> PICK x : x = main.entry
  OBVIOUS
<1> PICK T : T = <<x>> \o S
  OBVIOUS
<1>1. frames = <<>> /\ frames' = <<>> /\ main.at = "add" /\ spares' = x /\ next' = next
      /\ x \in Entries /\ next[x] = spares
  <2>1. x \in Pointers /\ x # NULL
    BY MainsAre DEF Types, MainOK, Add, At
  <2> QED
    BY <2>1 DEF Add, At, Pointers, Whole, Between
<1>2. main' \in Mains /\ main'.at \in {"alloc", "user", "script"} /\ main'.queue = main.queue
  <2>1. main.back \in {"user", "script"} /\ main \in Mains
    BY MainsAre DEF Types, MainOK
  <2>2. main' \in Mains
    BY DEF Types, MainOK
  <2> QED
    BY <2>1, <2>2 DEF Add, Mains
<1>3. DOMAIN frames = {} /\ InHand = {x}
  BY <1>1, Quiet
<1>4. Nested' /\ Hands' /\ DOMAIN frames' = {} /\ InHand' = {}
  BY <1>1, <1>2, QuietNext
<1>5. S \in Seq(Entries) /\ IsInjective(S) /\ x \notin ToSet(S)
  BY <1>3, WholeIs DEF Whole, Apart, On
<1>6. ToSet(T) = {x} \cup ToSet(S) /\ IsInjective(T)
  BY <1>1, <1>5, ConsIs
<1>7. Lists(T, P, W)'
  <2>1. Path(next', spares', T)
    BY <1>1, PathCons DEF Whole, Lists
  <2>2. Path(next', main.queue, P)
    BY <1>1 DEF Whole, Lists, Rest
  <2>3. Path(next', head', W)
    BY <1>1 DEF Whole, Lists, Add
  <2> QED
    BY <1>2, <2>1, <2>2, <2>3 DEF Lists, Rest
<1>8. Numbered(P, W, lo)'
  BY <1>1 DEF Whole, Numbered, Add, past, Running
<1>9. Apart(T, P, W)'
  <2>1. /\ x \notin ToSet(P) \cup ToSet(W) /\ ToSet(S) \cap (ToSet(P) \cup ToSet(W)) = {}
        /\ On(S, P, W) \cup {x} \subseteq memory /\ On(S, P, W) \cup {x} = memory \ abandoned
        /\ abandoned \subseteq memory
    BY <1>1, <1>3 DEF Whole, Apart, On, Running
  <2>2. On(T, P, W) = On(S, P, W) \cup {x}
    BY <1>6 DEF On
  <2>3. memory' = memory /\ abandoned' = abandoned
    BY DEF Add, past
  <2> QED
    BY <1>4, <1>6, <2>1, <2>2, <2>3 DEF Apart
<1>10. Between'
  BY <1>2, <1>4 DEF Between
<1>11. Ends(Filling(P, W))'
  BY <1>1, <1>2, <1>3, <1>4 DEF Whole, Ends, Filling, Add
<1>12. Whole(T, P, W, lo)'
  BY <1>4, <1>7, <1>8, <1>9, <1>10, <1>11 DEF Whole
<1> QED
  BY <1>12 DEF Queue

\* What waits is played, but a handler still finds it by `head'.
LEMMA StepDispatch ==
    ASSUME Types, Types', NEW S, NEW P, NEW W, NEW lo, Whole(S, P, W, lo), Dispatch
    PROVE  Queue'
<1>1. /\ frames = <<>> /\ frames' = <<>> /\ main.at = "script" /\ main.queue = NULL
      /\ next' = next /\ head' = head /\ spares' = spares /\ tail' = tail
  BY DEF Types, MainOK, Dispatch, At, lists
<1>2. main'.at = "clear" /\ main'.queue = head
  BY DEF Types, MainOK, Mains, Dispatch
<1>3. P = <<>>
  BY <1>1, PathNull DEF Whole, Lists, Rest
<1>4. DOMAIN frames = {} /\ InHand = {}
  BY <1>1, Quiet
<1>5. Nested' /\ Hands' /\ DOMAIN frames' = {} /\ InHand' = {}
  BY <1>1, <1>2, QuietNext
<1>6. Lists(S, W, <<>>)'
  <2>1. Path(next, head, W)
    BY <1>1 DEF Whole, Lists
  <2> QED
    BY <1>1, <1>2, <2>1, PathEmpty DEF Whole, Lists, Rest
<1>7. Numbered(W, <<>>, lo)'
  <2>1. W \in Seq(Entries) /\ lo \in Nat /\ Len(W) \in Nat
    BY WholeIs, ListIs
  <2>2. \A i \in 1 .. Len(W) : lo + Len(P) + i = lo + i
    BY <1>3, <2>1, EmptyList
  <2>3. /\ \A i \in 1 .. Len(W) : seq[W[i]] = lo + i
        /\ linked = lo + Len(W) + 0
        /\ lo = called
    BY <1>1, <1>3, <2>1, <2>2, EmptyList DEF Whole, Numbered, Running
  <2> QED
    BY <2>1, <2>3, EmptyList DEF Numbered, Dispatch, past
<1>8. Apart(S, W, <<>>)'
  <2>1. On(S, W, <<>>) = On(S, P, W)
    BY <1>3, EmptyList DEF On
  <2> QED
    BY <1>1, <1>3, <1>4, <1>5, <2>1, EmptyList DEF Whole, Apart, Running, Dispatch, past
<1>9. Between'
  BY <1>2, <1>5 DEF Between
<1>10. Ends(Filling(W, <<>>))'
  BY <1>1, <1>2, <1>4, <1>5 DEF Whole, Ends, Filling
<1>11. Whole(S, W, <<>>, lo)'
  BY <1>5, <1>6, <1>7, <1>8, <1>9, <1>10 DEF Whole
<1> QED
  BY <1>11 DEF Queue

\* What is played is no longer found by `head': nothing waits.
LEMMA StepClear ==
    ASSUME Types, Types', NEW S, NEW P, NEW W, NEW lo, Whole(S, P, W, lo), Clear
    PROVE  Queue'
<1>1. /\ frames = <<>> /\ frames' = <<>> /\ main.at = "clear"
      /\ next' = next /\ head' = NULL /\ spares' = spares /\ tail' = tail
  BY DEF Clear, At
<1>2. main'.at = "user" /\ main'.queue = main.queue
  BY DEF Types, MainOK, Mains, Clear
<1>3. W = <<>>
  BY <1>1, WholeIs
<1>4. DOMAIN frames = {} /\ InHand = {}
  BY <1>1, Quiet
<1>5. Nested' /\ Hands' /\ DOMAIN frames' = {} /\ InHand' = {}
  BY <1>1, <1>2, QuietNext
<1>6. Lists(S, P, W)'
  BY <1>1, <1>2, <1>3, PathEmpty DEF Whole, Lists, Rest
<1>7. Numbered(P, W, lo)'
  BY <1>1 DEF Whole, Numbered, Running, Clear, past
<1>8. Apart(S, P, W)'
  BY <1>1, <1>4, <1>5 DEF Whole, Apart, On, Running, Clear, past
<1>9. Between'
  BY <1>2, <1>5 DEF Between
<1>10. Ends(Filling(P, W))'
  BY <1>1, <1>5 DEF Ends
<1>11. Whole(S, P, W, lo)'
  BY <1>5, <1>6, <1>7, <1>8, <1>9, <1>10 DEF Whole
<1> QED
  BY <1>11 DEF Queue

\* The entry played is in the hand of dispatch, and points to the spares.
LEMMA StepCalled ==
    ASSUME Types, Types', NEW S, NEW P, NEW W, NEW lo, Whole(S, P, W, lo), Called, ~torn'
    PROVE  Queue'
<1> PICK x : x = main.queue
  OBVIOUS
<1> PICK T : T = Tail(P)
  OBVIOUS
<1>1. /\ frames = <<>> /\ frames' = <<>> /\ main.at = "user" /\ x # NULL
      /\ next' = [next EXCEPT ![x] = spares] /\ called' = called + 1
  BY DEF Called, At, Types, MainOK
<1>2. main'.at = "give" /\ main'.queue = x /\ main'.entry = next[x]
  BY DEF Types, MainOK, Mains, Called
<1>3. DOMAIN frames = {} /\ InHand = {}
  BY <1>1, Quiet
<1>4. Nested' /\ Hands' /\ DOMAIN frames' = {} /\ InHand' = {x}
  BY <1>1, <1>2, QuietNext
<1>5. Path(next, x, P) /\ P # <<>> /\ P \in Seq(Entries) /\ x = P[1] /\ x \in Entries
      /\ IsInjective(P) /\ S \in Seq(Entries) /\ W \in Seq(Entries) /\ lo \in Nat
  <2>1. Path(next, x, P)
    BY <1>1 DEF Whole, Lists, Rest
  <2> QED
    BY <1>1, <2>1, PathNull, WholeIs
<1>6. /\ T \in Seq(Entries) /\ Len(T) = Len(P) - 1 /\ Len(P) \in Nat
      /\ \A i \in 1 .. Len(P) - 1 : T[i] = P[i+1]
      /\ ToSet(P) = {x} \cup ToSet(T) /\ x \notin ToSet(T)
  BY <1>5, TailIs, ListIs
<1>7. /\ x \notin ToSet(S) /\ x \notin ToSet(W) /\ x \in memory
      /\ ToSet(S) \cap (ToSet(P) \cup ToSet(W)) = {} /\ ToSet(P) \cap ToSet(W) = {}
      /\ IsInjective(S) /\ On(S, P, W) \subseteq memory /\ On(S, P, W) = memory \ abandoned
      /\ abandoned \subseteq memory
  BY <1>1, <1>3, <1>6, WholeIs DEF Whole, Apart, On, Running
<1>8. \A y \in Entries : y # x => next'[y] = next[y]
  BY <1>1 DEF Types
<1>9. Lists(S, T, W)'
  <2>1. /\ \A y \in ToSet(S) : next'[y] = next[y]
        /\ \A y \in ToSet(T) : next'[y] = next[y]
        /\ \A y \in ToSet(W) : next'[y] = next[y]
    BY <1>5, <1>6, <1>7, <1>8, ListIs
  <2>2. Path(next, spares, S) /\ Path(next, next[x], T) /\ Path(next, head, W)
    BY <1>1, <1>5, PathTail DEF Whole, Lists
  <2>3. Path(next', spares, S)
    BY ONLY <2>1, <2>2, PathSame
  <2>4. Path(next', next[x], T)
    BY ONLY <2>1, <2>2, PathSame
  <2>5. Path(next', head, W)
    BY ONLY <2>1, <2>2, PathSame
  <2> QED
    BY <1>2, <2>3, <2>4, <2>5 DEF Lists, Rest, Called
<1>10. Numbered(T, W, lo + 1)'
  <2>1. /\ lo = called /\ linked = lo + Len(P) + Len(W) /\ Len(W) \in Nat
        /\ \A i \in 1 .. Len(P) : seq[P[i]] = lo + i
        /\ \A i \in 1 .. Len(W) : seq[W[i]] = lo + Len(P) + i
    BY <1>1, <1>5, ListIs DEF Whole, Numbered, Running
  <2>2. \A i \in 1 .. Len(T) : seq[T[i]] = lo + 1 + i
    BY <1>5, <1>6, <2>1
  <2>3. \A i \in 1 .. Len(W) : seq[W[i]] = lo + 1 + Len(T) + i
    BY <1>5, <1>6, <2>1
  <2>4. linked = lo + 1 + Len(T) + Len(W) /\ lo + 1 \in Nat
    BY <1>5, <1>6, <2>1
  <2>5. seq' = seq /\ linked' = linked /\ called' = lo + 1
    BY <1>1, <2>1 DEF Called
  <2> QED
    BY <2>2, <2>3, <2>4, <2>5 DEF Numbered
<1>11. Apart(S, T, W)'
  <2>1. On(S, P, W) = On(S, T, W) \cup {x}
    BY <1>6 DEF On
  <2>2. x \notin On(S, T, W)
    BY <1>6, <1>7 DEF On
  <2>3. memory' = memory /\ abandoned' = abandoned
    BY DEF Called
  <2> QED
    BY <1>4, <1>6, <1>7, <2>1, <2>2, <2>3 DEF Apart
<1>12. Between'
  BY <1>1, <1>2, <1>4, <1>5 DEF Between, Types, Called
<1>13. Ends(Filling(T, W))'
  BY <1>1, <1>2, <1>3, <1>4 DEF Whole, Ends, Filling, Called
<1>14. Whole(S, T, W, lo + 1)'
  BY <1>4, <1>9, <1>10, <1>11, <1>12, <1>13 DEF Whole
<1> QED
  BY <1>14 DEF Queue

\* The entry played is the first spare one.
LEMMA StepGive ==
    ASSUME Types, Types', NEW S, NEW P, NEW W, NEW lo, Whole(S, P, W, lo), Give
    PROVE  Queue'
<1> PICK x : x = main.queue
  OBVIOUS
<1> PICK T : T = <<x>> \o S
  OBVIOUS
<1>1. frames = <<>> /\ frames' = <<>> /\ main.at = "give" /\ spares' = x /\ next' = next
      /\ x \in Entries /\ next[x] = spares
  <2>1. x \in Pointers /\ x # NULL
    BY MainsAre DEF Types, MainOK, Give, At
  <2> QED
    BY <2>1 DEF Give, At, Pointers, Whole, Between
<1>2. main'.at \in {"user", "script"} /\ main'.queue = main.entry
  <2>1. CASE main.entry = NULL
    BY <2>1 DEF Give, Idle
  <2>2. CASE main.entry # NULL
    <3>1. main' = [at |-> "user", back |-> "script", queue |-> main.entry, entry |-> NULL,
                   left |-> 0]
      BY <2>2 DEF Give, Idle
    <3> QED
      BY <3>1
  <2> QED
    BY <2>1, <2>2
<1>3. DOMAIN frames = {} /\ InHand = {x}
  BY <1>1, Quiet
<1>4. Nested' /\ Hands' /\ DOMAIN frames' = {} /\ InHand' = {}
  BY <1>1, <1>2, QuietNext
<1>5. S \in Seq(Entries) /\ IsInjective(S) /\ x \notin ToSet(S)
  BY <1>3, WholeIs DEF Whole, Apart, On
<1>6. ToSet(T) = {x} \cup ToSet(S) /\ IsInjective(T)
  BY <1>1, <1>5, ConsIs
<1>7. Lists(T, P, W)'
  <2>1. Path(next', spares', T)
    BY <1>1, PathCons DEF Whole, Lists
  <2>2. Path(next', main.entry, P)
    BY <1>1 DEF Whole, Lists, Rest
  <2>3. Path(next', head', W)
    BY <1>1 DEF Whole, Lists, Give
  <2> QED
    BY <1>2, <2>1, <2>2, <2>3 DEF Lists, Rest
<1>8. Numbered(P, W, lo)'
  BY <1>1 DEF Whole, Numbered, Give, past, Running
<1>9. Apart(T, P, W)'
  <2>1. /\ x \notin ToSet(P) \cup ToSet(W) /\ ToSet(S) \cap (ToSet(P) \cup ToSet(W)) = {}
        /\ On(S, P, W) \cup {x} \subseteq memory /\ On(S, P, W) \cup {x} = memory \ abandoned
        /\ abandoned \subseteq memory
    BY <1>1, <1>3 DEF Whole, Apart, On, Running
  <2>2. On(T, P, W) = On(S, P, W) \cup {x}
    BY <1>6 DEF On
  <2>3. memory' = memory /\ abandoned' = abandoned
    BY DEF Give, past
  <2> QED
    BY <1>4, <1>6, <2>1, <2>2, <2>3 DEF Apart
<1>10. Between'
  BY <1>2, <1>4 DEF Between
<1>11. Ends(Filling(P, W))'
  BY <1>1, <1>2, <1>3, <1>4 DEF Whole, Ends, Filling, Give
<1>12. Whole(T, P, W, lo)'
  BY <1>4, <1>7, <1>8, <1>9, <1>10, <1>11 DEF Whole
<1> QED
  BY <1>12 DEF Queue

\* What exit() leaves behind is what remained to be played.
LEMMA StepExit ==
    ASSUME Types, Types', NEW S, NEW P, NEW W, NEW lo, Whole(S, P, W, lo), Exit, ~torn'
    PROVE  Queue'
<1>1. frames = <<>> /\ frames' = <<>> /\ main.at = "user" /\ ~torn
  BY DEF Exit, At
<1>2. main'.at = "script" /\ main'.queue = NULL
  BY DEF Exit, Idle
<1>3. DOMAIN frames = {} /\ InHand = {}
  BY <1>1, Quiet
<1>4. Nested' /\ Hands' /\ DOMAIN frames' = {} /\ InHand' = {}
  BY <1>1, <1>2, QuietNext
<1>5. Chain(main.queue) = P
  BY <1>1, WalkIsPath, WholeIs DEF Chain, Whole, Lists, Rest
<1>6. abandoned' = abandoned \cup ToSet(P) /\ called' = called + Len(P)
  BY <1>1, <1>5 DEF Exit
<1>7. Lists(S, <<>>, W)'
  BY <1>1, <1>2, PathEmpty DEF Whole, Lists, Rest, Exit, lists
<1>8. Numbered(<<>>, W, lo + Len(P))'
  <2>1. P \in Seq(Entries) /\ W \in Seq(Entries) /\ Len(P) \in Nat /\ Len(W) \in Nat /\ lo \in Nat
    BY WholeIs, ListIs
  <2>2. /\ lo = called /\ linked = lo + Len(P) + Len(W)
        /\ \A i \in 1 .. Len(W) : seq[W[i]] = lo + Len(P) + i
    BY <1>1 DEF Whole, Numbered, Running
  <2>3. /\ linked = lo + Len(P) + 0 + Len(W) /\ lo + Len(P) \in Nat
        /\ \A i \in 1 .. Len(W) : seq[W[i]] = lo + Len(P) + 0 + i
    BY <2>1, <2>2
  <2> QED
    BY <1>6, <2>2, <2>3, EmptyList DEF Numbered, Exit
<1>9. Apart(S, <<>>, W)'
  <2>1. /\ IsInjective(S) /\ ToSet(S) \cap (ToSet(P) \cup ToSet(W)) = {}
        /\ ToSet(P) \cap ToSet(W) = {} /\ On(S, P, W) = memory \ abandoned
        /\ On(S, P, W) \subseteq memory /\ abandoned \subseteq memory
    BY <1>1, <1>3, WholeIs DEF Whole, Apart, Running
  <2>2. memory' = memory
    BY DEF Exit
  <2>3. On(S, <<>>, W) = ToSet(S) \cup ToSet(W)
    BY EmptyList DEF On
  <2>4. On(S, <<>>, W) = memory \ abandoned' /\ abandoned' \subseteq memory
    BY <1>6, <2>1, <2>3 DEF On
  <2> QED
    BY <1>4, <2>1, <2>2, <2>3, <2>4, EmptyList DEF Apart
<1>10. Between'
  BY <1>2, <1>4 DEF Between
<1>11. Ends(Filling(<<>>, W))'
  BY <1>1, <1>2, <1>3, <1>4 DEF Whole, Ends, Filling, Exit, lists
<1>12. Whole(S, <<>>, W, lo + Len(P))'
  BY <1>4, <1>7, <1>8, <1>9, <1>10, <1>11 DEF Whole
<1> QED
  BY <1>12 DEF Queue

\* The first entry that waits is freed, and its signal given up.
LEMMA StepFreeHead ==
    ASSUME Types, Types', NEW S, NEW P, NEW W, NEW lo, Whole(S, P, W, lo), FreeHead
    PROVE  Queue'
<1> PICK x : x = main.entry
  OBVIOUS
<1> PICK T : T = Tail(W)
  OBVIOUS
<1>1. /\ frames = <<>> /\ frames' = <<>> /\ main.at = "free head" /\ x # NULL /\ x = head
      /\ next' = next /\ head' = next[x] /\ spares' = spares /\ tail' = tail
      /\ memory' = memory \ {x} /\ main.queue = NULL
  BY DEF FreeHead, At, Types, MainOK, Whole, Between
<1>2. main'.at = "drop" /\ main'.queue = NULL
  BY DEF FreeHead, Idle
<1>3. DOMAIN frames = {} /\ InHand = {}
  BY <1>1, Quiet
<1>4. Nested' /\ Hands' /\ DOMAIN frames' = {} /\ InHand' = {}
  BY <1>1, <1>2, QuietNext
<1>5. Path(next, x, W) /\ W # <<>> /\ W \in Seq(Entries) /\ x = W[1] /\ x \in Entries
      /\ IsInjective(W) /\ S \in Seq(Entries) /\ P = <<>> /\ lo \in Nat
  <2>1. Path(next, x, W) /\ Path(next, NULL, P)
    BY <1>1 DEF Whole, Lists, Rest
  <2> QED
    BY <1>1, <2>1, PathNull, WholeIs
<1>6. /\ T \in Seq(Entries) /\ Len(T) = Len(W) - 1 /\ Len(W) \in Nat
      /\ \A i \in 1 .. Len(W) - 1 : T[i] = W[i+1]
      /\ ToSet(W) = {x} \cup ToSet(T) /\ x \notin ToSet(T)
  BY <1>5, TailIs, ListIs
<1>7. /\ IsInjective(S) /\ ToSet(S) \cap (ToSet(P) \cup ToSet(W)) = {}
      /\ On(S, P, W) \subseteq memory
  BY <1>3 DEF Whole, Apart
<1>8. Path(next, next[x], T)
  BY <1>5, PathTail
<1>9. Lists(S, P, T)'
  BY <1>1, <1>2, <1>5, <1>8, PathEmpty DEF Whole, Lists, Rest
<1>10. Numbered(P, T, lo + 1)'
  <2>1. /\ linked = lo + Len(W) /\ Len(P) = 0
        /\ \A i \in 1 .. Len(W) : seq[W[i]] = lo + i
    <3>1. linked = lo + Len(P) + Len(W) /\ \A i \in 1 .. Len(W) : seq[W[i]] = lo + Len(P) + i
      BY DEF Whole, Numbered
    <3>2. Len(P) = 0
      BY <1>5, EmptyList
    <3> QED
      BY <1>5, <1>6, <3>1, <3>2
  <2>2. \A i \in 1 .. Len(T) : seq[T[i]] = lo + 1 + 0 + i
    BY <1>5, <1>6, <2>1
  <2>3. linked = lo + 1 + 0 + Len(T) /\ lo + 1 \in Nat
    BY <1>5, <1>6, <2>1
  <2>4. seq' = seq /\ linked' = linked /\ ~Running'
    BY <1>2 DEF FreeHead, past, Running
  <2> QED
    BY <2>1, <2>2, <2>3, <2>4 DEF Numbered
<1>11. Apart(S, P, T)'
  <2>1. x \notin ToSet(S) /\ ToSet(P) = {} /\ ToSet(T) \subseteq ToSet(W)
    BY <1>5, <1>6, <1>7, EmptyList
  <2>2. On(S, P, T) \subseteq memory \ {x}
    BY <1>6, <1>7, <2>1 DEF On
  <2> QED
    BY <1>1, <1>2, <1>4, <1>7, <2>1, <2>2 DEF Apart, Running
<1>12. Between'
  BY <1>2, <1>4 DEF Between
<1>13. Ends(Filling(P, T))'
  <2>1. ASSUME head' # NULL
        PROVE  tail' = Last(T)
    <3>1. T # <<>>
      BY <1>1, <1>8, <2>1, PathNull
    <3>2. Len(T) > 0
      BY <1>6, <3>1, ListIs
    <3>3. Last(T) = Last(W)
      BY <1>6, <3>2 DEF Last
    <3>4. tail = Last(W)
      BY <1>1, <1>3 DEF Whole, Ends, Filling
    <3> QED
      BY <1>1, <3>3, <3>4
  <2> QED
    BY <1>2, <1>4, <2>1 DEF Ends, Filling
<1>14. Whole(S, P, T, lo + 1)'
  BY <1>4, <1>9, <1>10, <1>11, <1>12, <1>13 DEF Whole
<1> QED
  BY <1>14 DEF Queue

\* The first spare entry is freed.
LEMMA StepFreeSpare ==
    ASSUME Types, Types', NEW S, NEW P, NEW W, NEW lo, Whole(S, P, W, lo), FreeSpare
    PROVE  Queue'
<1> PICK x : x = main.entry
  OBVIOUS
<1> PICK T : T = Tail(S)
  OBVIOUS
<1>1. /\ frames = <<>> /\ frames' = <<>> /\ main.at = "free spare" /\ x # NULL /\ x = spares
      /\ next' = next /\ head' = head /\ spares' = next[x] /\ tail' = tail
      /\ memory' = memory \ {x} /\ main.queue = NULL
  BY DEF FreeSpare, At, Types, MainOK, Whole, Between
<1>2. main'.at = "spares" /\ main'.queue = NULL
  BY DEF FreeSpare, Idle
<1>3. DOMAIN frames = {} /\ InHand = {}
  BY <1>1, Quiet
<1>4. Nested' /\ Hands' /\ DOMAIN frames' = {} /\ InHand' = {}
  BY <1>1, <1>2, QuietNext
<1>5. Path(next, x, S) /\ S # <<>> /\ S \in Seq(Entries) /\ x = S[1] /\ x \in Entries
      /\ IsInjective(S)
  <2>1. Path(next, x, S) /\ IsInjective(S)
    BY <1>1 DEF Whole, Lists, Apart
  <2> QED
    BY <1>1, <2>1, PathNull
<1>6. ToSet(S) = {x} \cup ToSet(T) /\ x \notin ToSet(T) /\ IsInjective(T)
  BY <1>5, TailIs
<1>7. Lists(T, P, W)'
  <2>1. Path(next, next[x], T)
    BY <1>5, PathTail
  <2> QED
    BY <1>1, <1>2, <2>1 DEF Whole, Lists, Rest
<1>8. Numbered(P, W, lo)'
  BY <1>2 DEF Whole, Numbered, FreeSpare, past, Running
<1>9. Apart(T, P, W)'
  <2>1. ToSet(S) \cap (ToSet(P) \cup ToSet(W)) = {} /\ On(S, P, W) \subseteq memory
    BY DEF Whole, Apart
  <2>2. On(T, P, W) \subseteq memory \ {x}
    BY <1>6, <2>1 DEF On
  <2> QED
    BY <1>1, <1>2, <1>4, <1>6, <2>1, <2>2 DEF Apart, Running
<1>10. Between'
  BY <1>2, <1>4 DEF Between
<1>11. Ends(Filling(P, W))'
  BY <1>1, <1>2, <1>3, <1>4 DEF Whole, Ends, Filling
<1>12. Whole(T, P, W, lo)'
  BY <1>4, <1>7, <1>8, <1>9, <1>10, <1>11 DEF Whole
<1> QED
  BY <1>12 DEF Queue

\* A request that starts.
LEMMA Started ==
    ASSUME frames = <<>>, head = NULL, tail = NULL, spares = NULL, main = Idle,
           linked = 0, called = 0, memory = {}, abandoned = {}
    PROVE  Whole(<<>>, <<>>, <<>>, 0)
<1>1. DOMAIN frames = {} /\ InHand = {} /\ Nested /\ Hands
  <2>1. main.at = "script"
    BY DEF Idle
  <2> QED
    BY <2>1, Quiet DEF Nested, Hands
<1>2. main.at = "script" /\ main.queue = NULL
  BY DEF Idle
<1>3. Lists(<<>>, <<>>, <<>>)
  BY <1>2, PathEmpty DEF Lists, Rest
<1>4. Numbered(<<>>, <<>>, 0)
  BY EmptyList DEF Numbered
<1>5. Apart(<<>>, <<>>, <<>>)
  BY <1>1, EmptyList DEF Apart, On
<1>6. Between /\ Ends(Filling(<<>>, <<>>))
  BY <1>1, <1>2 DEF Between, Ends, Filling
<1> QED
  BY <1>1, <1>3, <1>4, <1>5, <1>6 DEF Whole

\* A request starts with empty lists.
LEMMA StepNextRequest ==
    ASSUME Types, NextRequest
    PROVE  Queue'
<1>1. frames' = <<>> /\ head' = NULL /\ tail' = NULL /\ spares' = NULL /\ main' = Idle
      /\ linked' = 0 /\ called' = 0 /\ memory' = {} /\ abandoned' = {}
  BY DEF NextRequest, At
<1>2. Nested' /\ Hands' /\ DOMAIN frames' = {} /\ InHand' = {}
  <2>1. main'.at = "script"
    BY <1>1 DEF Idle
  <2> QED
    BY <1>1, <2>1, QuietNext
<1>3. main'.at = "script" /\ main'.queue = NULL
  BY <1>1 DEF Idle
<1>4. Lists(<<>>, <<>>, <<>>)'
  BY <1>1, <1>3, PathEmpty DEF Lists, Rest
<1>5. Numbered(<<>>, <<>>, 0)'
  BY <1>1, EmptyList DEF Numbered
<1>6. Apart(<<>>, <<>>, <<>>)'
  BY <1>1, <1>2, EmptyList DEF Apart, On
<1>7. Between' /\ Ends(Filling(<<>>, <<>>))'
  BY <1>1, <1>2, <1>3 DEF Between, Ends, Filling
<1>8. Whole(<<>>, <<>>, <<>>, 0)'
  BY <1>2, <1>4, <1>5, <1>6, <1>7 DEF Whole
<1> QED
  BY <1>8 DEF Queue

-----------------------------------------------------------------------------
(* The steps of the handlers *)

\* What one frame more, or a change of the innermost one, does to what is in hand.
LEMMA HeldIs ==
    ASSUME NEW fs, NEW x
    PROVE  x \in Held(fs) <=> \E i \in DOMAIN fs : Holding(fs[i]) /\ x = fs[i].psig
BY DEF Held

\* The innermost handler has its entry in hand until it has linked it.
LEMMA HeldMoved ==
    ASSUME NEW fs \in Seq(Frame), fs # <<>>, NEW at \in Places, NEW gs, Moved(fs, gs, at)
    PROVE  /\ DOMAIN fs = 1 .. Len(fs) /\ DOMAIN gs = 1 .. Len(fs)
           /\ Len(fs) \in 1 .. Len(fs)
           /\ \A i \in 1 .. Len(fs) : i = Len(fs) \/ i \in 1 .. Len(fs) - 1
           /\ \A i \in 1 .. Len(fs) - 1 : i \in 1 .. Len(fs) /\ i # Len(fs) /\ gs[i] = fs[i]
           /\ gs[Len(fs)].at = at /\ gs[Len(fs)].psig = fs[Len(fs)].psig
           /\ fs[Len(fs)].psig \in Entries
           /\ Holding(fs[Len(fs)]) => fs[Len(fs)].psig \in Held(fs)
           /\ \A i \in 1 .. Len(fs) - 1 : Holding(fs[i]) => fs[i].psig \in Held(fs)
           /\ at \in {"test", "append", "first"} =>
                  Held(gs) \cup {fs[Len(fs)].psig} = Held(fs) \cup {fs[Len(fs)].psig}
                  /\ fs[Len(fs)].psig \in Held(gs)
           /\ at = "tail" /\ Holding(fs[Len(fs)]) =>
                  Held(fs) = Held(gs) \cup {fs[Len(fs)].psig}
           /\ \A x \in Held(gs) : x = fs[Len(fs)].psig \/ \E i \in 1 .. Len(fs) - 1 :
                  Holding(fs[i]) /\ x = fs[i].psig
<1> PICK n : n = Len(fs)
  OBVIOUS
<1> PICK x : x = fs[n].psig
  OBVIOUS
<1>1. /\ n \in Nat /\ n \in 1 .. n /\ DOMAIN fs = 1 .. n /\ fs[n] \in Frame
  BY FramesAre
<1>2. /\ gs \in Seq(Frame) /\ Len(gs) = n
      /\ \A i \in 1 .. n - 1 : gs[i] = fs[i]
      /\ gs[n].at = at /\ gs[n].psig = x
  BY DEF Moved
<1>3. DOMAIN gs = 1 .. n
  BY <1>2, FramesAre
<1>4. /\ \A i \in 1 .. n : i = n \/ i \in 1 .. n - 1
      /\ \A i \in 1 .. n - 1 : i \in 1 .. n /\ i # n
  BY <1>1
<1>5. x \in Entries
  BY <1>1 DEF Frame
<1>6. Holding(fs[n]) => x \in Held(fs)
  BY <1>1, HeldIs
<1>7. \A i \in 1 .. n - 1 : Holding(fs[i]) => fs[i].psig \in Held(fs)
  BY <1>1, <1>4, HeldIs
<1>8. \A y \in Held(gs) : y = x \/ \E i \in 1 .. n - 1 : Holding(fs[i]) /\ y = fs[i].psig
  <2> SUFFICES ASSUME NEW y \in Held(gs), y # x
               PROVE  \E i \in 1 .. n - 1 : Holding(fs[i]) /\ y = fs[i].psig
    OBVIOUS
  <2> PICK i \in 1 .. n : Holding(gs[i]) /\ y = gs[i].psig
    BY <1>3, HeldIs
  <2>1. i \in 1 .. n - 1 /\ gs[i] = fs[i]
    BY <1>2, <1>4
  <2> QED
    BY <2>1
<1>9. \A y \in Held(fs) : y = x \/ y \in Held(gs)
  <2> SUFFICES ASSUME NEW y \in Held(fs), y # x
               PROVE  y \in Held(gs)
    OBVIOUS
  <2> PICK i \in 1 .. n : Holding(fs[i]) /\ y = fs[i].psig
    BY <1>1, HeldIs
  <2>1. i \in 1 .. n - 1 /\ gs[i] = fs[i] /\ i \in DOMAIN gs
    BY <1>2, <1>3, <1>4
  <2> QED
    BY <2>1, HeldIs
<1>10. \A y \in Held(gs) : y = x \/ y \in Held(fs)
  BY <1>7, <1>8
<1>11. at \in {"test", "append", "first"} => x \in Held(gs)
  <2> SUFFICES ASSUME at \in {"test", "append", "first"}
               PROVE  x \in Held(gs)
    OBVIOUS
  <2>1. Holding(gs[n]) /\ n \in DOMAIN gs
    BY <1>1, <1>2, <1>3 DEF Holding
  <2> QED
    BY <1>2, <2>1, HeldIs
<1> QED
  BY <1>1, <1>2, <1>3, <1>4, <1>5, <1>6, <1>7, <1>8, <1>9, <1>10, <1>11

\* A handler that starts holds nothing yet.
LEMMA StepArrive ==
    ASSUME Types, Types', NEW S, NEW P, NEW W, NEW lo, Whole(S, P, W, lo),
           NEW s \in Sigs, Arrive(s)
    PROVE  Queue'
<1> PICK n : n = Len(frames)
  OBVIOUS
<1> PICK f : f = [sig |-> s, at |-> "pop", psig |-> spares, old |-> NULL]
  OBVIOUS
<1>1. frames \in Seq(Frame) /\ DOMAIN frames = 1 .. n /\ n \in Nat
  BY FramesAre DEF Types, FramesOK
<1>2. f \in Frame /\ f.at = "pop" /\ f.psig = spares
  BY DEF Arrive, Frame, Types, Pointers
<1>3. /\ frames' \in Seq(Frame) /\ Len(frames') = n + 1
      /\ \A i \in 1 .. n : frames'[i] = frames[i]
      /\ frames'[n + 1] = f
  BY <1>1, <1>2, FrameAdded DEF Arrive
<1>4. DOMAIN frames' = 1 .. n + 1
  BY <1>3, FramesAre
<1>5. \A i \in 1 .. n + 1 : i = n + 1 \/ i \in 1 .. n
  BY <1>1
<1>6. \A i, j \in 1 .. n + 1 : i < j => i \in 1 .. n
  BY <1>1
<1>7. ~Holding(f) /\ ~Linking(f)
  BY <1>2 DEF Holding, Linking
<1>8. Held(frames') = Held(frames)
  <2>1. ASSUME NEW x \in Held(frames') PROVE x \in Held(frames)
    <3> PICK i \in 1 .. n + 1 : Holding(frames'[i]) /\ x = frames'[i].psig
      BY <1>4, HeldIs
    <3>1. i \in 1 .. n /\ frames'[i] = frames[i]
      BY <1>3, <1>5, <1>7
    <3> QED
      BY <1>1, <3>1, HeldIs
  <2>2. ASSUME NEW x \in Held(frames) PROVE x \in Held(frames')
    <3> PICK i \in 1 .. n : Holding(frames[i]) /\ x = frames[i].psig
      BY <1>1, HeldIs
    <3>1. i \in 1 .. n + 1 /\ frames'[i] = frames[i]
      BY <1>1, <1>3
    <3> QED
      BY <1>4, <3>1, HeldIs
  <2> QED
    BY <2>1, <2>2
<1>9. /\ next' = next /\ head' = head /\ tail' = tail /\ spares' = spares /\ main' = main
      /\ seq' = seq /\ linked' = linked /\ called' = called /\ memory' = memory
      /\ abandoned' = abandoned
  BY DEF Arrive, lists, past
<1>10. InHand' = InHand /\ (Running' <=> Running)
  BY <1>8, <1>9 DEF InHand, Running
<1>11. Lists(S, P, W)' /\ Numbered(P, W, lo)'
  BY <1>9, <1>10 DEF Whole, Lists, Rest, Numbered
<1>12. Apart(S, P, W)'
  BY <1>9, <1>10 DEF Whole, Apart
<1>13. Between'
  <2>1. ASSUME main.at \in {"give", "add", "free spare"}, NEW i \in 1 .. n + 1
        PROVE  frames'[i].at = "pop"
    <3>1. \A k \in 1 .. n : frames[k].at = "pop"
      BY <1>1, <2>1 DEF Whole, Between
    <3> QED
      BY <1>2, <1>3, <1>5, <3>1
  <2> QED
    BY <1>4, <1>9, <2>1 DEF Whole, Between
<1>14. Nested'
  <2> SUFFICES ASSUME NEW i \in 1 .. n + 1, NEW j \in 1 .. n + 1, i < j
               PROVE  /\ frames'[i].at = "pop" => frames'[j].at = "pop"
                      /\ Linking(frames'[i]) => frames'[j].at # "tail"
                      /\ Holding(frames'[i]) /\ Holding(frames'[j])
                            => frames'[i].psig # frames'[j].psig
    BY <1>4 DEF Nested
  <2>1. i \in 1 .. n /\ frames'[i] = frames[i]
    BY <1>3, <1>6
  <2>2. CASE j = n + 1
    BY <1>2, <1>3, <1>7, <2>2
  <2>3. CASE j \in 1 .. n
    BY <1>1, <1>3, <2>1, <2>3 DEF Whole, Nested
  <2> QED
    BY <1>5, <2>2, <2>3
<1>15. Hands'
  <2> SUFFICES ASSUME NEW i \in 1 .. n + 1
               PROVE  /\ frames'[i].at = "pop" => frames'[i].psig = spares
                      /\ Holding(frames'[i]) => next[frames'[i].psig] = NULL
                      /\ frames'[i].at = "append" /\ Alone(i)' => frames'[i].old = tail /\ head # NULL
                      /\ frames'[i].at = "first" /\ Alone(i)' => head = NULL
    BY <1>4, <1>9 DEF Hands
  <2>1. CASE i = n + 1
    BY <1>2, <1>3, <1>7, <2>1 DEF Holding
  <2>2. CASE i \in 1 .. n
    <3>1. frames'[i] = frames[i]
      BY <1>3, <2>2
    <3>2. \A j \in 1 .. i - 1 : frames'[j] = frames[j]
      BY <1>1, <1>3, <2>2
    <3>3. Alone(i)' => Alone(i)
      BY <3>2 DEF Alone
    <3> QED
      BY <1>1, <2>2, <3>1, <3>3 DEF Whole, Hands
  <2> QED
    BY <1>5, <2>1, <2>2
<1>16. Ends(Filling(P, W))'
  <2>1. \A i \in 1 .. n + 1 : frames'[i].at = "tail" => i \in 1 .. n /\ frames'[i] = frames[i]
    BY <1>2, <1>3, <1>5
  <2>2. (\A i \in 1 .. n + 1 : frames'[i].at # "tail") => \A i \in 1 .. n : frames[i].at # "tail"
    BY <1>1, <1>3
  <2>3. Filling(P, W)' = Filling(P, W)
    BY <1>9 DEF Filling
  <2> QED
    BY <1>1, <1>4, <1>9, <2>1, <2>2, <2>3 DEF Whole, Ends
<1>17. Whole(S, P, W, lo)'
  BY <1>11, <1>12, <1>13, <1>14, <1>15, <1>16 DEF Whole
<1> QED
  BY <1>17 DEF Queue

\* The place of the innermost handler, and that those it interrupts stay where they are.
LEMMA AloneMoved ==
    ASSUME NEW n \in Nat, \A i \in 1 .. n - 1 : frames'[i] = frames[i], NEW i \in 1 .. n
    PROVE  Alone(i)' <=> Alone(i)
<1>1. \A j \in 1 .. i - 1 : frames'[j] = frames[j]
  OBVIOUS
<1> QED
  BY <1>1 DEF Alone

\* The first spare entry is in the hand of the handler: nobody else is at it.
LEMMA StepPop ==
    ASSUME Types, Types', NEW S, NEW P, NEW W, NEW lo, Whole(S, P, W, lo), Pop, ~torn'
    PROVE  Queue'
<1> PICK n : n = Len(frames)
  OBVIOUS
<1> PICK x : x = frames[n].psig
  OBVIOUS
<1> PICK T : T = Tail(S)
  OBVIOUS
<1>1. /\ frames \in Seq(Frame) /\ frames # <<>> /\ frames[n].at = "pop" /\ n \in Nat
      /\ "test" \in Places /\ Goto("test")
  BY FramesAre DEF Types, FramesOK, Pop, Top, Places
<1>2. Moved(frames, frames', "test")
  BY <1>1, GotoMoves
<1>3. /\ DOMAIN frames = 1 .. n /\ DOMAIN frames' = 1 .. n /\ n \in 1 .. n
      /\ \A i \in 1 .. n : i = n \/ i \in 1 .. n - 1
      /\ \A i \in 1 .. n - 1 : i \in 1 .. n /\ i # n /\ frames'[i] = frames[i]
      /\ frames'[n].at = "test" /\ frames'[n].psig = x /\ x \in Entries
      /\ Held(frames') \cup {x} = Held(frames) \cup {x} /\ x \in Held(frames')
      /\ \A i \in 1 .. n - 1 : Holding(frames[i]) => frames[i].psig \in Held(frames)
  BY <1>1, <1>2, HeldMoved
<1>4. /\ next' = [next EXCEPT ![x] = NULL] /\ spares' = next[x]
      /\ head' = head /\ tail' = tail /\ main' = main
      /\ seq' = seq /\ linked' = linked /\ called' = called /\ memory' = memory
      /\ abandoned' = abandoned
  BY DEF Pop, Top
<1>5. main.at \notin {"give", "add", "free spare"} /\ \A i \in 1 .. n - 1 : frames[i].at # "pop"
  BY DEF Pop, Outer
<1>6. x = spares
  BY <1>1, <1>3 DEF Whole, Hands
<1>7. Path(next, x, S) /\ S # <<>> /\ S \in Seq(Entries) /\ x = S[1] /\ IsInjective(S)
      /\ P \in Seq(Entries) /\ W \in Seq(Entries)
  <2>1. Path(next, x, S) /\ IsInjective(S)
    BY <1>6 DEF Whole, Lists, Apart
  <2>2. x # NULL
    BY <1>3 DEF Entries, NULL
  <2> QED
    BY <2>1, <2>2, PathNull, WholeIs
<1>8. ToSet(S) = {x} \cup ToSet(T) /\ x \notin ToSet(T) /\ IsInjective(T) /\ T \in Seq(Entries)
  BY <1>7, TailIs
<1>9. /\ ToSet(S) \cap (ToSet(P) \cup ToSet(W)) = {} /\ On(S, P, W) \cap InHand = {}
      /\ On(S, P, W) \cup InHand \subseteq memory
      /\ Running => On(S, P, W) \cup InHand = memory \ abandoned
      /\ Running => abandoned \subseteq memory
  BY DEF Whole, Apart
<1>10. InHand = Held(frames) /\ InHand' = Held(frames') /\ (Running' <=> Running)
  BY <1>4, <1>5 DEF InHand, Running
<1>11. On(S, P, W) = {x} \cup On(T, P, W) /\ x \notin On(T, P, W) /\ x \notin Held(frames)
  BY <1>8, <1>9, <1>10 DEF On
<1>12. next' \in [Entries -> Pointers] /\ next'[x] = NULL
       /\ \A y \in Entries : y # x => next'[y] = next[y]
  BY <1>3, <1>4 DEF Types
<1>13. Lists(T, P, W)'
  <2>1. /\ \A y \in ToSet(T) : next'[y] = next[y]
        /\ \A y \in ToSet(P) : next'[y] = next[y]
        /\ \A y \in ToSet(W) : next'[y] = next[y]
    BY <1>7, <1>8, <1>11, <1>12, ListIs DEF On
  <2>2. Path(next, next[x], T)
    BY <1>7, PathTail
  <2>3. Path(next', next[x], T)
    BY ONLY <2>1, <2>2, PathSame
  <2>4. Path(next, Rest, P) /\ Path(next, IF main.at = "clear" THEN NULL ELSE head, W)
    BY DEF Whole, Lists
  <2>5. Path(next', Rest, P)
    BY ONLY <2>1, <2>4, PathSame
  <2>6. Path(next', IF main.at = "clear" THEN NULL ELSE head, W)
    BY ONLY <2>1, <2>4, PathSame
  <2> QED
    BY <1>4, <2>3, <2>5, <2>6 DEF Whole, Lists, Rest
<1>14. Numbered(P, W, lo)'
  BY <1>4, <1>10 DEF Whole, Numbered
<1>15. Apart(T, P, W)'
  <2>1. ToSet(T) \cap (ToSet(P) \cup ToSet(W)) = {}
    BY <1>8, <1>9
  <2>2. On(T, P, W) \cup Held(frames') = On(S, P, W) \cup Held(frames)
        /\ On(T, P, W) \cap Held(frames') = {}
    BY <1>3, <1>9, <1>10, <1>11
  <2> QED
    BY <1>4, <1>8, <1>9, <1>10, <2>1, <2>2 DEF Apart
<1>16. Between'
  BY <1>4, <1>5 DEF Whole, Between
<1>17. Nested'
  <2> SUFFICES ASSUME NEW i \in 1 .. n, NEW j \in 1 .. n, i < j
               PROVE  /\ frames'[i].at = "pop" => frames'[j].at = "pop"
                      /\ Linking(frames'[i]) => frames'[j].at # "tail"
                      /\ Holding(frames'[i]) /\ Holding(frames'[j])
                            => frames'[i].psig # frames'[j].psig
    BY <1>3 DEF Nested
  <2>1. i \in 1 .. n - 1 /\ frames'[i] = frames[i]
    BY <1>1, <1>3
  <2>2. CASE j = n
    BY <1>3, <1>5, <1>11, <2>1, <2>2
  <2>3. CASE j \in 1 .. n - 1
    BY <1>3, <2>1, <2>3 DEF Whole, Nested
  <2> QED
    BY <1>3, <2>2, <2>3
<1>18. Hands'
  <2> SUFFICES ASSUME NEW i \in 1 .. n
               PROVE  /\ frames'[i].at = "pop" => frames'[i].psig = spares'
                      /\ Holding(frames'[i]) => next'[frames'[i].psig] = NULL
                      /\ frames'[i].at = "append" /\ Alone(i)' => frames'[i].old = tail /\ head # NULL
                      /\ frames'[i].at = "first" /\ Alone(i)' => head = NULL
    BY <1>3, <1>4 DEF Hands
  <2>1. CASE i = n
    BY <1>3, <1>12, <2>1
  <2>2. CASE i \in 1 .. n - 1
    <3>1. frames'[i] = frames[i] /\ frames[i].at # "pop" /\ (Alone(i)' <=> Alone(i))
      BY <1>1, <1>3, <1>5, <2>2, AloneMoved
    <3>2. /\ Holding(frames[i]) => next[frames[i].psig] = NULL
          /\ frames[i].at = "append" /\ Alone(i) => frames[i].old = tail /\ head # NULL
          /\ frames[i].at = "first" /\ Alone(i) => head = NULL
      BY <1>3 DEF Whole, Hands
    <3>3. Holding(frames[i]) => frames[i].psig \in Entries /\ frames[i].psig # x
      <4>1. frames[i] \in Frame
        BY <1>1, FramesAre
      <4> QED
        BY <1>3, <1>11, <2>2, <4>1 DEF Frame
    <3> QED
      BY <1>12, <3>1, <3>2, <3>3
  <2> QED
    BY <1>3, <2>1, <2>2
<1>19. Ends(Filling(P, W))'
  <2>1. \A i \in 1 .. n : frames'[i].at = "tail" => frames'[i] = frames[i]
    BY <1>3
  <2>2. \A i \in 1 .. n : frames'[i].at # "tail" => frames[i].at # "tail"
    BY <1>1, <1>3
  <2>3. Filling(P, W)' = Filling(P, W)
    BY <1>4 DEF Filling
  <2> QED
    BY <1>3, <1>4, <2>1, <2>2, <2>3 DEF Whole, Ends
<1>20. Whole(T, P, W, lo)'
  BY <1>13, <1>14, <1>15, <1>16, <1>17, <1>18, <1>19 DEF Whole
<1> QED
  BY <1>20 DEF Queue

\* What the handler has read of the queue stays so: who interrupts it is done with it.
LEMMA StepTest ==
    ASSUME Types, Types', NEW S, NEW P, NEW W, NEW lo, Whole(S, P, W, lo), Test
    PROVE  Queue'
<1> PICK n : n = Len(frames)
  OBVIOUS
<1> PICK x : x = frames[n].psig
  OBVIOUS
<1>1. /\ frames \in Seq(Frame) /\ frames # <<>> /\ frames[n].at = "test" /\ n \in Nat
      /\ tail \in Pointers
  BY FramesAre DEF Types, FramesOK, Test, Top
<1> PICK at \in {"append", "first"} :
        /\ Moved(frames, frames', at)
        /\ at = "append" <=> head # NULL /\ tail # NULL
        /\ frames'[Len(frames)].old = tail
  BY <1>1, TestMoves
<1>2. at \in Places /\ at \in {"test", "append", "first"}
  BY DEF Places
<1>3. /\ DOMAIN frames = 1 .. n /\ DOMAIN frames' = 1 .. n /\ n \in 1 .. n
      /\ \A i \in 1 .. n : i = n \/ i \in 1 .. n - 1
      /\ \A i \in 1 .. n - 1 : i \in 1 .. n /\ i # n /\ frames'[i] = frames[i]
      /\ frames'[n].at = at /\ frames'[n].psig = x /\ x \in Entries
      /\ Held(frames') \cup {x} = Held(frames) \cup {x} /\ x \in Held(frames')
      /\ Holding(frames[n]) => x \in Held(frames)
  BY <1>1, <1>2, HeldMoved
<1>4. /\ next' = next /\ head' = head /\ tail' = tail /\ spares' = spares /\ main' = main
      /\ seq' = seq /\ linked' = linked /\ called' = called /\ memory' = memory
      /\ abandoned' = abandoned
  BY DEF Test, lists, past
<1>5. Holding(frames[n])
  BY <1>1 DEF Holding
<1>6. Held(frames') = Held(frames)
  <2>1. /\ x \in Held(frames) /\ x \in Held(frames')
        /\ Held(frames') \cup {x} = Held(frames) \cup {x}
    BY <1>3, <1>5
  <2> QED
    BY ONLY <2>1
<1>7. InHand' = InHand /\ (Running' <=> Running)
  BY <1>4, <1>6 DEF InHand, Running
<1>8. Lists(S, P, W)' /\ Numbered(P, W, lo)'
  BY <1>4, <1>7 DEF Whole, Lists, Rest, Numbered
<1>9. Apart(S, P, W)'
  BY <1>4, <1>7 DEF Whole, Apart
<1>10. Between'
  <2>1. main.at \notin {"give", "add", "free spare"}
    BY <1>1, <1>3 DEF Whole, Between
  <2> QED
    BY <1>4, <2>1 DEF Whole, Between
<1>11. \A i \in 1 .. n - 1 : frames[i].at # "pop"
                              /\ (Holding(frames[i]) => frames[i].psig # x)
  <2>1. \A i \in 1 .. n - 1 : i < n
    BY <1>1
  <2> QED
    BY <1>1, <1>3, <1>5, <2>1 DEF Whole, Nested
<1>12. Nested'
  <2> SUFFICES ASSUME NEW i \in 1 .. n, NEW j \in 1 .. n, i < j
               PROVE  /\ frames'[i].at = "pop" => frames'[j].at = "pop"
                      /\ Linking(frames'[i]) => frames'[j].at # "tail"
                      /\ Holding(frames'[i]) /\ Holding(frames'[j])
                            => frames'[i].psig # frames'[j].psig
    BY <1>3 DEF Nested
  <2>1. i \in 1 .. n - 1 /\ frames'[i] = frames[i]
    BY <1>1, <1>3
  <2>2. CASE j = n
    <3>1. frames[i].at # "pop" /\ (Holding(frames[i]) => frames[i].psig # x)
      BY <1>11, <2>1
    <3>2. frames'[n].at = at /\ at # "tail" /\ at # "pop" /\ frames'[n].psig = x
      BY <1>2, <1>3
    <3> QED
      BY <2>1, <2>2, <3>1, <3>2
  <2>3. CASE j \in 1 .. n - 1
    <3>1. /\ frames[i].at = "pop" => frames[j].at = "pop"
          /\ Linking(frames[i]) => frames[j].at # "tail"
          /\ Holding(frames[i]) /\ Holding(frames[j]) => frames[i].psig # frames[j].psig
      BY <1>3 DEF Whole, Nested
    <3> QED
      BY <1>3, <2>1, <2>3, <3>1
  <2> QED
    BY <1>3, <2>2, <2>3
<1>13. ASSUME Alone(n), head # NULL
       PROVE  tail # NULL
  <2>1. \A i \in 1 .. n - 1 : frames[i].at # "tail"
    BY <1>13 DEF Alone, Linking
  <2>2. \A i \in DOMAIN frames : frames[i].at # "tail"
    BY <1>1, <1>3, <2>1
  <2>3. tail = Last(Filling(P, W))
    BY <1>13, <2>2 DEF Whole, Ends
  <2>4. Path(next, head, Filling(P, W))
    BY WholeIs
  <2>5. Filling(P, W) # <<>> /\ Last(Filling(P, W)) # NULL
    BY <1>13, <2>4, PathNull
  <2> QED
    BY <2>3, <2>5
<1>14. Hands'
  <2> SUFFICES ASSUME NEW i \in 1 .. n
               PROVE  /\ frames'[i].at = "pop" => frames'[i].psig = spares
                      /\ Holding(frames'[i]) => next[frames'[i].psig] = NULL
                      /\ frames'[i].at = "append" /\ Alone(i)' => frames'[i].old = tail /\ head # NULL
                      /\ frames'[i].at = "first" /\ Alone(i)' => head = NULL
    BY <1>3, <1>4 DEF Hands
  <2>1. CASE i = n
    <3>1. next[x] = NULL
      BY <1>3, <1>5 DEF Whole, Hands
    <3>2. Alone(n)' <=> Alone(n)
      BY <1>1, <1>3, AloneMoved
    <3> QED
      BY <1>3, <1>13, <2>1, <3>1, <3>2
  <2>2. CASE i \in 1 .. n - 1
    <3>1. frames'[i] = frames[i] /\ (Alone(i)' <=> Alone(i))
      BY <1>1, <1>3, <2>2, AloneMoved
    <3> QED
      BY <1>3, <3>1 DEF Whole, Hands
  <2> QED
    BY <1>3, <2>1, <2>2
<1>15. Ends(Filling(P, W))'
  <2>1. \A i \in 1 .. n : frames'[i].at = "tail" => frames'[i] = frames[i]
    BY <1>2, <1>3
  <2>2. \A i \in 1 .. n : frames'[i].at # "tail" => frames[i].at # "tail"
    BY <1>1, <1>3
  <2>3. Filling(P, W)' = Filling(P, W)
    BY <1>4 DEF Filling
  <2> QED
    BY <1>3, <1>4, <2>1, <2>2, <2>3 DEF Whole, Ends
<1>16. Whole(S, P, W, lo)'
  BY <1>8, <1>9, <1>10, <1>12, <1>14, <1>15 DEF Whole
<1> QED
  BY <1>16 DEF Queue

\* The entry is the last one of what waits, or of what is about to be played.
LEMMA StepLink ==
    ASSUME Types, Types', NEW S, NEW P, NEW W, NEW lo, Whole(S, P, W, lo), Link, ~torn'
    PROVE  Queue'
<1> PICK n : n = Len(frames)
  OBVIOUS
<1> PICK x : x = frames[n].psig
  OBVIOUS
<1> PICK Q : Q = Filling(P, W)
  OBVIOUS
<1> PICK R : R = Append(Q, x)
  OBVIOUS
<1>1. /\ frames \in Seq(Frame) /\ frames # <<>> /\ frames[n].at \in {"append", "first"}
      /\ n \in Nat /\ "tail" \in Places /\ Goto("tail") /\ n \in 1 .. n
  BY FramesAre DEF Types, FramesOK, Link, Top, Places
<1>2. Moved(frames, frames', "tail")
  BY <1>1, GotoMoves
<1>3. Holding(frames[n])
  BY <1>1 DEF Holding
<1>4. /\ DOMAIN frames = 1 .. n /\ DOMAIN frames' = 1 .. n
      /\ \A i \in 1 .. n : i = n \/ i \in 1 .. n - 1
      /\ \A i \in 1 .. n - 1 : i \in 1 .. n /\ i # n /\ frames'[i] = frames[i]
      /\ frames'[n].at = "tail" /\ x \in Entries
      /\ frames'[n].psig = x
      /\ Held(frames) = Held(frames') \cup {x}
      /\ \A i \in 1 .. n - 1 : Holding(frames[i]) => frames[i].psig \in Held(frames)
      /\ x \in Held(frames)
  <2> PICK at : at = "tail"
    OBVIOUS
  <2>1. at \in Places /\ Moved(frames, frames', at)
    BY <1>1, <1>2
  <2> QED
    BY <1>1, <1>3, <2>1, HeldMoved
<1>5. /\ tail' = tail /\ spares' = spares /\ main' = main
      /\ called' = called /\ memory' = memory /\ abandoned' = abandoned
      /\ linked' = linked + 1 /\ seq' = [seq EXCEPT ![x] = linked + 1]
  BY DEF Link, Top
<1>6. \A i \in 1 .. n - 1 : ~Linking(frames[i])
  BY DEF Link, Outer, Linking
<1>7. \A i \in 1 .. n - 1 : frames[i].at # "pop" /\ (Holding(frames[i]) => frames[i].psig # x)
  <2>1. \A i \in 1 .. n - 1 : i < n
    BY <1>1
  <2> QED
    BY <1>1, <1>3, <1>4, <2>1 DEF Whole, Nested
<1>8. main.at \notin {"give", "add", "free spare"}
  BY <1>1, <1>4 DEF Whole, Between
<1>9. /\ next[x] = NULL
      /\ frames[n].at = "append" => frames[n].old = tail /\ head # NULL
      /\ frames[n].at = "first" => head = NULL
  <2>1. Alone(n)
    BY <1>6 DEF Alone
  <2> QED
    BY <1>1, <1>3, <1>4, <2>1 DEF Whole, Hands
<1>10. x \in Held(frames) /\ x \notin Held(frames')
  <2>1. x \in Held(frames)
    BY <1>4
  <2>2. ASSUME x \in Held(frames')
        PROVE  FALSE
    <3>1. n \in DOMAIN frames' /\ ~Holding(frames'[n])
      BY <1>1, <1>4 DEF Holding
    <3>3. \E i \in DOMAIN frames' : Holding(frames'[i]) /\ x = frames'[i].psig
      BY <2>2 DEF Held
    <3> PICK i \in 1 .. n : Holding(frames'[i]) /\ x = frames'[i].psig
      BY <1>4, <3>3
    <3>2. i \in 1 .. n - 1 /\ frames'[i] = frames[i]
      BY <1>4, <3>1
    <3> QED
      BY <1>7, <3>2
  <2> QED
    BY <2>1, <2>2
<1>11. InHand = Held(frames) /\ InHand' = Held(frames') /\ (Running' <=> Running)
  BY <1>5, <1>8 DEF InHand, Running
<1>12. /\ IsInjective(S) /\ ToSet(S) \cap (ToSet(P) \cup ToSet(W)) = {}
       /\ On(S, P, W) \cap InHand = {}
       /\ On(S, P, W) \cup InHand \subseteq memory
       /\ Running => On(S, P, W) \cup InHand = memory \ abandoned
       /\ Running => abandoned \subseteq memory
  BY DEF Whole, Apart
<1>13. /\ S \in Seq(Entries) /\ P \in Seq(Entries) /\ W \in Seq(Entries) /\ lo \in Nat
       /\ IsInjective(P) /\ IsInjective(W) /\ ToSet(P) \cap ToSet(W) = {}
       /\ Path(next, head, Q)
       /\ main.at = "clear" => W = <<>>
  BY WholeIs
<1>14. Q \in Seq(Entries) /\ IsInjective(Q) /\ ToSet(Q) \in SUBSET On(S, P, W)
       /\ ToSet(Q) \cap ToSet(S) = {}
  BY <1>12, <1>13 DEF Filling, On
<1>15. x \notin On(S, P, W) /\ x \notin ToSet(Q)
  BY <1>10, <1>11, <1>12, <1>14
<1>16. /\ R \in Seq(Entries) /\ R # <<>> /\ Len(R) = Len(Q) + 1 /\ Last(R) = x
       /\ ToSet(R) = ToSet(Q) \cup {x} /\ R[Len(Q) + 1] = x
       /\ \A i \in 1 .. Len(Q) : R[i] = Q[i]
  BY <1>4, <1>14, AddedIs
<1>17. head # NULL => tail = Last(Q)
  <2>1. \A i \in DOMAIN frames : frames[i].at # "tail"
    BY <1>1, <1>4, <1>6 DEF Linking
  <2> QED
    BY <2>1 DEF Whole, Ends
<1>18. /\ Path(next', head', R)
       /\ \A y \in Entries : y \notin ToSet(Q) => next'[y] = next[y]
       /\ head # NULL => head' = head
  <2>1. CASE frames[n].at = "append"
    <3>1. tail = Last(Q) /\ head # NULL /\ frames[n].old = tail
      BY <1>9, <1>17, <2>1
    <3>2. next' = [next EXCEPT ![Last(Q)] = x] /\ head' = head
      BY <2>1, <3>1 DEF Link, Top
    <3>3. Q # <<>> /\ Last(Q) \in ToSet(Q) /\ Last(Q) \in Entries
      BY <1>13, <3>1, PathNull
    <3>4. next \in [Entries -> Pointers]
      BY DEF Types
    <3>5. Path(next', head, R)
      BY <1>4, <1>9, <1>13, <1>14, <1>15, <3>2, <3>3, <3>4, PathAppend
    <3>6. \A y \in Entries : y \notin ToSet(Q) => next'[y] = next[y]
      BY <3>2, <3>3, <3>4
    <3> QED
      BY <3>2, <3>5, <3>6
  <2>2. CASE frames[n].at = "first"
    <3>1. head = NULL /\ head' = x /\ next' = next
      BY <1>9, <2>2 DEF Link, Top
    <3>2. Q = <<>>
      BY <1>13, <3>1, PathNull
    <3>3. R = <<x>>
      BY <3>2
    <3>4. Path(next', x, <<x>>)
      BY <1>4, <1>9, <3>1, PathOne
    <3> QED
      BY <3>1, <3>3, <3>4
  <2> QED
    BY <1>1, <2>1, <2>2
<1>19. \A y \in ToSet(S) : next'[y] = next[y]
  BY <1>13, <1>14, <1>18, ListIs
<1>20. Path(next', spares', S)
  <2>1. Path(next, spares, S)
    BY DEF Whole, Lists
  <2>2. Path(next', spares, S)
    BY ONLY <1>19, <2>1, PathSame
  <2> QED
    BY <1>5, <2>2
<1>21. seq'[x] = linked + 1 /\ \A y \in Entries : y # x => seq'[y] = seq[y]
  BY <1>4, <1>5 DEF Types
<1>22. /\ \A i \in 1 .. Len(P) : seq[P[i]] = lo + i
       /\ \A i \in 1 .. Len(W) : seq[W[i]] = lo + Len(P) + i
       /\ linked = lo + Len(P) + Len(W)
       /\ Running => lo = called
  BY DEF Whole, Numbered
<1>23. /\ Len(P) \in Nat /\ Len(W) \in Nat
       /\ \A i \in 1 .. Len(P) : P[i] \in Entries /\ P[i] # x
       /\ \A i \in 1 .. Len(W) : W[i] \in Entries /\ W[i] # x
  BY <1>13, <1>15, ListIs DEF On
<1>24. Between'
  <2>1. main.at = "free head" => main.entry = head /\ head # NULL
    BY DEF Whole, Between, Types, MainOK
  <2> QED
    BY <1>5, <1>8, <1>18, <2>1 DEF Between
<1>25. Nested'
  <2> SUFFICES ASSUME NEW i \in 1 .. n, NEW j \in 1 .. n, i < j
               PROVE  /\ frames'[i].at = "pop" => frames'[j].at = "pop"
                      /\ Linking(frames'[i]) => frames'[j].at # "tail"
                      /\ Holding(frames'[i]) /\ Holding(frames'[j])
                            => frames'[i].psig # frames'[j].psig
    BY <1>4 DEF Nested
  <2>1. i \in 1 .. n - 1 /\ frames'[i] = frames[i]
    BY <1>1, <1>4
  <2>2. frames'[i].at # "pop" /\ ~Linking(frames'[i])
    BY <1>6, <1>7, <2>1
  <2>3. CASE j = n
    <3>1. ~Holding(frames'[n])
      BY <1>4 DEF Holding
    <3> QED
      BY <2>2, <2>3, <3>1
  <2>4. CASE j \in 1 .. n - 1
    <3>1. Holding(frames[i]) /\ Holding(frames[j]) => frames[i].psig # frames[j].psig
      BY <1>4, <2>4 DEF Whole, Nested
    <3>2. frames'[j] = frames[j]
      BY <1>4, <2>4
    <3> QED
      BY <2>1, <2>2, <3>1, <3>2
  <2> QED
    BY <1>4, <2>3, <2>4
<1>26. Hands'
  <2> SUFFICES ASSUME NEW i \in 1 .. n
               PROVE  /\ frames'[i].at = "pop" => frames'[i].psig = spares'
                      /\ Holding(frames'[i]) => next'[frames'[i].psig] = NULL
                      /\ frames'[i].at = "append" /\ Alone(i)' => frames'[i].old = tail' /\ head' # NULL
                      /\ frames'[i].at = "first" /\ Alone(i)' => head' = NULL
    BY <1>4 DEF Hands
  <2>1. CASE i = n
    BY <1>4, <2>1 DEF Holding
  <2>2. CASE i \in 1 .. n - 1
    <3>1. frames'[i] = frames[i] /\ frames[i].at \notin {"pop", "append", "first"}
      BY <1>4, <1>6, <1>7, <2>2 DEF Linking
    <3>2. ASSUME Holding(frames[i])
          PROVE  next'[frames[i].psig] = NULL
      <4>1. frames[i].psig \in Held(frames)
        BY <1>4, <2>2, <3>2
      <4>2. frames[i].psig \notin ToSet(Q)
        BY <1>11, <1>12, <1>14, <4>1
      <4>3. frames[i].psig \in Entries
        <5>1. frames[i] \in Frame
          BY <1>1, FramesAre
        <5> QED
          BY <5>1 DEF Frame
      <4>4. next[frames[i].psig] = NULL
        BY <1>4, <3>2 DEF Whole, Hands
      <4> QED
        BY <1>18, <4>2, <4>3, <4>4
    <3> QED
      BY <3>1, <3>2
  <2> QED
    BY <1>4, <2>1, <2>2
<1>27. Ends(R)'
  <2>1. \A i \in 1 .. n : frames'[i].at = "tail" => i = n
    BY <1>4, <1>6 DEF Linking
  <2>2. n \in 1 .. n
    BY <1>1
  <2> QED
    BY <1>4, <1>16, <2>1, <2>2 DEF Ends
<1>28. CASE main.at = "clear"
  <2>1. Q = P /\ W = <<>> /\ Len(W) = 0 /\ ToSet(W) = {}
    BY <1>13, <1>28, EmptyList DEF Filling
  <2>2. head = main.queue /\ head # NULL /\ head' = head
    BY <1>18, <1>28 DEF Whole, Lists, Types, MainOK
  <2>3. Lists(S, R, W)'
    <3>1. Path(next', NULL, W)
      BY <2>1, PathEmpty
    <3> QED
      BY <1>5, <1>18, <1>20, <1>28, <2>2, <3>1 DEF Lists, Rest
  <2>4. Numbered(R, W, lo)'
    <3>1. ASSUME NEW i \in 1 .. Len(R)
          PROVE  seq'[R[i]] = lo + i
      <4>1. CASE i = Len(P) + 1
        <5>1. R[i] = x
          BY <1>16, <2>1, <4>1
        <5>2. linked + 1 = lo + i
          BY <1>13, <1>22, <1>23, <2>1, <4>1
        <5> QED
          BY <1>21, <5>1, <5>2
      <4>2. CASE i \in 1 .. Len(P)
        BY <1>16, <1>21, <1>22, <1>23, <2>1, <4>2
      <4>3. i = Len(P) + 1 \/ i \in 1 .. Len(P)
        BY <1>16, <1>23, <2>1
      <4> QED
        BY <4>1, <4>2, <4>3
    <3>2. linked' = lo + Len(R) + Len(W)
      BY <1>5, <1>13, <1>16, <1>22, <1>23, <2>1
    <3>3. \A i \in 1 .. Len(W) : seq'[W[i]] = lo + Len(R) + i
      BY <2>1
    <3> QED
      BY <1>5, <1>11, <1>13, <1>22, <3>1, <3>2, <3>3 DEF Numbered
  <2>5. Apart(S, R, W)'
    <3>1. On(S, R, W) = On(S, P, W) \cup {x} /\ ToSet(S) \cap (ToSet(R) \cup ToSet(W)) = {}
      BY <1>12, <1>15, <1>16, <2>1 DEF On
    <3>2. On(S, R, W) \cup InHand' = On(S, P, W) \cup InHand /\ On(S, R, W) \cap InHand' = {}
      BY <1>4, <1>10, <1>11, <1>12, <3>1
    <3> QED
      BY <1>5, <1>11, <1>12, <3>1, <3>2 DEF Apart
  <2>6. Filling(R, W)' = R
    BY <1>5, <1>28 DEF Filling
  <2>7. Whole(S, R, W, lo)'
    BY <1>24, <1>25, <1>26, <1>27, <2>3, <2>4, <2>5, <2>6 DEF Whole
  <2> QED
    BY <2>7 DEF Queue
<1>29. CASE main.at # "clear"
  <2>1. Q = W
    BY <1>29 DEF Filling
  <2>2. Path(next, Rest, P) /\ Rest' = Rest
    BY <1>5 DEF Whole, Lists, Rest
  <2>3. \A y \in ToSet(P) : next'[y] = next[y]
    BY <1>13, <1>18, <2>1, ListIs
  <2>4. Path(next', Rest, P)
    BY ONLY <2>2, <2>3, PathSame
  <2>5. Lists(S, P, R)'
    BY <1>5, <1>18, <1>20, <1>29, <2>2, <2>4 DEF Lists
  <2>6. Numbered(P, R, lo)'
    <3>1. ASSUME NEW i \in 1 .. Len(R)
          PROVE  seq'[R[i]] = lo + Len(P) + i
      <4>1. CASE i = Len(W) + 1
        BY <1>13, <1>16, <1>21, <1>22, <1>23, <2>1, <4>1
      <4>2. CASE i \in 1 .. Len(W)
        BY <1>16, <1>21, <1>22, <1>23, <2>1, <4>2
      <4>3. i = Len(W) + 1 \/ i \in 1 .. Len(W)
        BY <1>16, <1>23, <2>1
      <4> QED
        BY <4>1, <4>2, <4>3
    <3>2. linked' = lo + Len(P) + Len(R)
      BY <1>5, <1>13, <1>16, <1>22, <1>23, <2>1
    <3>3. \A i \in 1 .. Len(P) : seq'[P[i]] = lo + i
      BY <1>21, <1>22, <1>23
    <3> QED
      BY <1>5, <1>11, <1>13, <1>22, <3>1, <3>2, <3>3 DEF Numbered
  <2>7. Apart(S, P, R)'
    <3>1. On(S, P, R) = On(S, P, W) \cup {x} /\ ToSet(S) \cap (ToSet(P) \cup ToSet(R)) = {}
      BY <1>12, <1>15, <1>16, <2>1 DEF On
    <3>2. On(S, P, R) \cup InHand' = On(S, P, W) \cup InHand /\ On(S, P, R) \cap InHand' = {}
      BY <1>4, <1>10, <1>11, <1>12, <3>1
    <3> QED
      BY <1>5, <1>11, <1>12, <3>1, <3>2 DEF Apart
  <2>8. Filling(P, R)' = R
    BY <1>5, <1>29 DEF Filling
  <2>9. Whole(S, P, R, lo)'
    BY <1>24, <1>25, <1>26, <1>27, <2>5, <2>6, <2>7, <2>8 DEF Whole
  <2> QED
    BY <2>9 DEF Queue
<1> QED
  BY <1>28, <1>29

\* The tail is the last entry again.
LEMMA StepSetTail ==
    ASSUME Types, Types', NEW S, NEW P, NEW W, NEW lo, Whole(S, P, W, lo), SetTail
    PROVE  Queue'
<1> PICK n : n = Len(frames)
  OBVIOUS
<1> PICK x : x = frames[n].psig
  OBVIOUS
<1>1. /\ frames \in Seq(Frame) /\ frames # <<>> /\ frames[n].at = "tail"
      /\ n \in Nat /\ n \in 1 .. n /\ DOMAIN frames = 1 .. n
  BY FramesAre DEF Types, FramesOK, SetTail, Top
<1>2. frames' \in Seq(Frame) /\ Len(frames') = n - 1 /\ \A i \in 1 .. n - 1 : frames'[i] = frames[i]
  BY <1>1, FrameLeft DEF SetTail
<1>3. DOMAIN frames' = 1 .. n - 1
  BY <1>2, FramesAre
<1>4. /\ \A i \in 1 .. n : i = n \/ i \in 1 .. n - 1
      /\ \A i \in 1 .. n - 1 : i \in 1 .. n /\ i < n
  BY <1>1
<1>5. /\ next' = next /\ head' = head /\ tail' = x /\ spares' = spares /\ main' = main
      /\ seq' = seq /\ linked' = linked /\ called' = called /\ memory' = memory
      /\ abandoned' = abandoned
  BY DEF SetTail, Top, past
<1>6. Held(frames') = Held(frames)
  <2>1. ASSUME NEW y \in Held(frames') PROVE y \in Held(frames)
    <3> PICK i \in 1 .. n - 1 : Holding(frames'[i]) /\ y = frames'[i].psig
      BY <1>3, HeldIs
    <3>1. i \in 1 .. n /\ frames'[i] = frames[i]
      BY <1>2, <1>4
    <3> QED
      BY <1>1, <3>1, HeldIs
  <2>2. ASSUME NEW y \in Held(frames) PROVE y \in Held(frames')
    <3> PICK i \in 1 .. n : Holding(frames[i]) /\ y = frames[i].psig
      BY <1>1, HeldIs
    <3>1. i \in 1 .. n - 1 /\ frames'[i] = frames[i]
      BY <1>1, <1>2, <1>4 DEF Holding
    <3> QED
      BY <1>3, <3>1, HeldIs
  <2> QED
    BY <2>1, <2>2
<1>7. InHand' = InHand /\ (Running' <=> Running)
  BY <1>5, <1>6 DEF InHand, Running
<1>8. Lists(S, P, W)' /\ Numbered(P, W, lo)'
  BY <1>5, <1>7 DEF Whole, Lists, Rest, Numbered
<1>9. Apart(S, P, W)'
  BY <1>5, <1>7 DEF Whole, Apart
<1>10. main.at \notin {"give", "add", "free spare"}
  BY <1>1 DEF Whole, Between
<1>11. Between'
  BY <1>5, <1>10 DEF Whole, Between
<1>12. \A i \in 1 .. n - 1 : ~Linking(frames[i])
  BY <1>1, <1>4 DEF Whole, Nested
<1>13. Nested'
  <2> SUFFICES ASSUME NEW i \in 1 .. n - 1, NEW j \in 1 .. n - 1, i < j
               PROVE  /\ frames'[i].at = "pop" => frames'[j].at = "pop"
                      /\ Linking(frames'[i]) => frames'[j].at # "tail"
                      /\ Holding(frames'[i]) /\ Holding(frames'[j])
                            => frames'[i].psig # frames'[j].psig
    BY <1>3 DEF Nested
  <2>1. /\ frames[i].at = "pop" => frames[j].at = "pop"
        /\ Linking(frames[i]) => frames[j].at # "tail"
        /\ Holding(frames[i]) /\ Holding(frames[j]) => frames[i].psig # frames[j].psig
    BY <1>1, <1>4 DEF Whole, Nested
  <2> QED
    BY <1>2, <2>1
<1>14. Hands'
  <2> SUFFICES ASSUME NEW i \in 1 .. n - 1
               PROVE  /\ frames'[i].at = "pop" => frames'[i].psig = spares
                      /\ Holding(frames'[i]) => next[frames'[i].psig] = NULL
                      /\ frames'[i].at \notin {"append", "first"}
    BY <1>3, <1>5 DEF Hands
  <2>1. frames'[i] = frames[i] /\ i \in DOMAIN frames /\ ~Linking(frames[i])
    BY <1>1, <1>2, <1>4, <1>12
  <2> QED
    BY <2>1 DEF Whole, Hands, Linking
<1>15. Ends(Filling(P, W))'
  <2>1. x = Last(Filling(P, W))
    BY <1>1 DEF Whole, Ends
  <2>2. \A i \in 1 .. n - 1 : frames'[i].at # "tail"
    BY <1>2, <1>12 DEF Linking
  <2>3. Filling(P, W)' = Filling(P, W)
    BY <1>5 DEF Filling
  <2> QED
    BY <1>3, <1>5, <2>1, <2>2, <2>3 DEF Ends
<1>16. Whole(S, P, W, lo)'
  BY <1>8, <1>9, <1>11, <1>13, <1>14, <1>15 DEF Whole
<1> QED
  BY <1>16 DEF Queue

-----------------------------------------------------------------------------
(* The queue: the invariant *)

\* What there is in memory of an intact queue is what the walks find.
LEMMA WalksAre ==
    ASSUME Types, NEW S, NEW P, NEW W, NEW lo, Whole(S, P, W, lo)
    PROVE  Chain(spares) = S /\ Chain(Rest) = P
           /\ Chain(IF main.at = "clear" THEN NULL ELSE head) = W
<1>1. /\ Path(next, spares, S) /\ Path(next, Rest, P) /\ IsInjective(S)
      /\ Path(next, IF main.at = "clear" THEN NULL ELSE head, W)
  BY DEF Whole, Lists, Apart
<1>2. IsInjective(P) /\ IsInjective(W)
  BY WholeIs
<1> QED
  BY <1>1, <1>2, WalkIsPath DEF Chain

\* Every step keeps the types.
LEMMA QueueTypes ==
    ASSUME QueueInv, Next
    PROVE  Types'
<1>1. Types
  BY DEF QueueInv
<1>2. CASE \E s \in Sigs : Arrive(s)
  BY <1>1, <1>2, TypesArrive
<1>3. CASE Handler
  BY <1>1, <1>3, TypesPop, TypesTest, TypesLink, TypesSetTail DEF Handler
<1>4. CASE PcntlSignal \/ Alloc \/ Add \/ Dispatch \/ Play
  BY <1>1, <1>4, TypesPcntlSignal, TypesAlloc, TypesAdd, TypesDispatch, TypesClear, TypesCalled,
     TypesGive DEF Play
<1>5. CASE Exit
  <2>1. ASSUME ~torn
        PROVE  Chain(main.queue) \in Seq(Entries)
    <3> PICK S, P, W, lo : Whole(S, P, W, lo)
      BY <2>1 DEF QueueInv, Queue
    <3>1. Rest = main.queue
      BY <1>5 DEF Exit, At, Rest
    <3> QED
      BY <1>1, <3>1, WholeIs, WalksAre
  <2> QED
    BY <1>1, <1>5, <2>1, TypesExit
<1>6. CASE EndScript \/ EndRequest
  BY <1>1, <1>6, TypesEnd
<1>7. CASE Shutdown
  BY <1>1, <1>7, TypesShutdown
<1>8. CASE NextRequest
  BY <1>1, <1>8, TypesNextRequest
<1> QED
  BY <1>2, <1>3, <1>4, <1>5, <1>6, <1>7, <1>8 DEF Next

\* A queue that is torn stays so for the request.
LEMMA TornStays ==
    ASSUME Next, ~torn', ~NextRequest
    PROVE  ~torn
BY DEF Next, Arrive, Handler, Pop, Test, Link, SetTail, PcntlSignal, Alloc, Add, Dispatch, Play,
       Clear, Called, Give, Exit, EndScript, EndRequest, Shutdown, ReadHead, FreeHead, ReadSpares,
       FreeSpare, past

\* Every step but a torn one keeps the lists.
LEMMA QueueKept ==
    ASSUME QueueInv, Next, Types', ~torn'
    PROVE  Queue'
<1>1. CASE NextRequest
  BY <1>1, StepNextRequest DEF QueueInv
<1>2. CASE ~NextRequest
  <2>1. Types /\ ~torn
    BY <1>2, TornStays DEF QueueInv
  <2> PICK S, P, W, lo : Whole(S, P, W, lo)
    BY <2>1 DEF QueueInv, Queue
  <2>2. CASE \E s \in Sigs : Arrive(s)
    BY <2>1, <2>2, StepArrive
  <2>3. CASE Handler
    BY <2>1, <2>3, StepPop, StepTest, StepLink, StepSetTail DEF Handler
  <2>4. CASE PcntlSignal \/ Alloc \/ Add \/ Dispatch \/ Play
    BY <2>1, <2>4, StepPcntlSignal, StepAlloc, StepAdd, StepDispatch, StepClear, StepCalled,
       StepGive DEF Play
  <2>5. CASE Exit
    BY <2>1, <2>5, StepExit
  <2>6. CASE EndScript \/ EndRequest \/ ReadHead \/ ReadSpares
    BY <2>1, <2>6, StepEnd
  <2>7. CASE FreeHead
    BY <2>1, <2>7, StepFreeHead
  <2>8. CASE FreeSpare
    BY <2>1, <2>8, StepFreeSpare
  <2> QED
    BY <1>2, <2>2, <2>3, <2>4, <2>5, <2>6, <2>7, <2>8 DEF Next, Shutdown
<1> QED
  BY <1>1, <1>2

\* No more signals are called than have been queued.
LEMMA CalledKept ==
    ASSUME QueueInv, Next, Types', ~torn' => Queue'
    PROVE  called' <= linked' \/ torn'
<1> SUFFICES ASSUME ~torn' PROVE called' <= linked'
  OBVIOUS
<1>1. CASE Running'
  <2> PICK S, P, W, lo : Whole(S, P, W, lo)'
    BY DEF Queue
  <2>1. /\ lo \in Nat /\ linked' = lo + Len(P) + Len(W) /\ called' = lo
    BY <1>1 DEF Whole, Numbered
  <2>2. P \in Seq(Entries) /\ W \in Seq(Entries)
    BY DEF Whole, Lists, Path
  <2> QED
    BY <2>1, <2>2, ListIs
<1>2. CASE ~Running'
  <2>1. ~NextRequest /\ ~Exit /\ ~Called
    <3>1. ASSUME NextRequest \/ Exit
          PROVE  main'.at = "script"
      BY <3>1 DEF NextRequest, Exit, Idle
    <3>2. ASSUME Called
          PROVE  main'.at = "give"
      <4>1. main \in Mains
        BY DEF QueueInv, Types, MainOK
      <4> PICK e : e = next[main.queue]
        OBVIOUS
      <4>2. main' = [main EXCEPT !.at = "give", !.entry = e]
        BY <3>2 DEF Called
      <4> QED
        BY <4>1, <4>2 DEF Mains
    <3> QED
      BY <1>2, <3>1, <3>2 DEF Running
  <2>2. ~torn /\ linked \in Nat /\ called \in Nat /\ called <= linked
    BY <2>1, TornStays DEF QueueInv, Types, Counted
  <2>3. called' = called /\ (linked' = linked \/ linked' = linked + 1)
    BY <2>1 DEF Next, Arrive, Handler, Pop, Test, Link, SetTail, PcntlSignal, Alloc, Add,
                Dispatch, Play, Clear, Give, EndScript, EndRequest, Shutdown, ReadHead, FreeHead,
                ReadSpares, FreeSpare, past
  <2> QED
    BY <2>2, <2>3
<1> QED
  BY <1>1, <1>2

\* At startup the invariant holds.
LEMMA QueueInit == Init => QueueInv
<1> SUFFICES ASSUME Init PROVE QueueInv
  OBVIOUS
<1>1. Types
  BY TypesInit
<1>2. Whole(<<>>, <<>>, <<>>, 0)
  BY Started DEF Init
<1>3. called <= linked
  BY DEF Init
<1> QED
  BY <1>1, <1>2, <1>3 DEF QueueInv, Queue

\* Every step keeps the invariant.
LEMMA QueueNext == QueueInv /\ [Next]_vars => QueueInv'
<1>1. ASSUME QueueInv, Next
      PROVE  QueueInv'
  <2>1. Types'
    BY <1>1, QueueTypes
  <2>2. ~torn' => Queue'
    BY <1>1, <2>1, QueueKept
  <2>3. called' <= linked' \/ torn'
    BY <1>1, <2>1, <2>2, CalledKept
  <2> QED
    BY <2>1, <2>2, <2>3 DEF QueueInv
<1>2. ASSUME QueueInv, UNCHANGED vars
      PROVE  QueueInv'
  <2>1. /\ next' = next /\ head' = head /\ tail' = tail /\ spares' = spares /\ seq' = seq
        /\ memory' = memory /\ abandoned' = abandoned /\ processing' = processing
        /\ torn' = torn /\ request' = request /\ main' = main /\ frames' = frames
        /\ linked' = linked /\ called' = called
    BY <1>2 DEF vars
  <2>2. Types'
    BY <1>2, <2>1 DEF QueueInv, Types, MainOK, Room, FramesOK, Counted
  <2>3. ~torn' => Queue'
    <3> SUFFICES ASSUME ~torn PROVE Queue'
      BY <2>1
    <3> PICK S, P, W, lo : Whole(S, P, W, lo)
      BY <1>2 DEF QueueInv, Queue
    <3>1. /\ Lists(S, P, W)' /\ Numbered(P, W, lo)' /\ Between' /\ Nested' /\ Hands'
          /\ Ends(Filling(P, W))'
      BY <2>1 DEF Whole, Lists, Rest, Numbered, Running, Between, Nested, Hands, Alone, Ends,
                  Filling
    <3>2. Apart(S, P, W)'
      BY <2>1 DEF Whole, Apart, Running, InHand, Held
    <3> QED
      BY <3>1, <3>2 DEF Whole, Queue
  <2> QED
    BY <1>2, <2>1, <2>2, <2>3 DEF QueueInv
<1> QED
  BY <1>1, <1>2

\* Every state of the queue.
THEOREM QueueInvHolds == Spec => []QueueInv
BY QueueInit, QueueNext, PTL DEF Spec

-----------------------------------------------------------------------------
(* The queue: the properties *)

\* A handler of each signal at most runs.
LEMMA FramesAreFew ==
    ASSUME FramesOK
    PROVE  Len(frames) <= Cardinality(Sigs)
<1> PICK n : n = Len(frames)
  OBVIOUS
<1> DEFINE f == [i \in 1 .. n |-> frames[i].sig]
<1>1. n \in Nat /\ DOMAIN frames = 1 .. n /\ \A i \in 1 .. n : frames[i] \in Frame
  BY FramesAre DEF FramesOK
<1>2. \A i \in 1 .. n : frames[i].sig \in Sigs
  BY <1>1 DEF Frame
<1>3. \A i, j \in 1 .. n : i # j => frames[i].sig # frames[j].sig
  BY <1>1 DEF FramesOK
<1>4. f \in Injection(1 .. n, Sigs)
  <2>1. f \in [1 .. n -> Sigs] /\ DOMAIN f = 1 .. n
    BY <1>2
  <2>2. \A i, j \in 1 .. n : f[i] = f[j] => i = j
    BY <1>3
  <2> HIDE DEF f
  <2> QED
    BY <2>1, <2>2 DEF Injection, IsInjective
<1>5. IsFiniteSet(1 .. n) /\ Cardinality(1 .. n) = n
  <2>1. 1 \in Int /\ n \in Int
    BY <1>1
  <2>2. IsFiniteSet(1 .. n) /\ Cardinality(1 .. n) = IF 1 > n THEN 0 ELSE n - 1 + 1
    BY <2>1, FS_Interval
  <2> QED
    BY <1>1, <2>2
<1>6. Cardinality(1 .. n) <= Cardinality(Sigs)
  BY <1>4, SigsFinite, FS_Injection
<1> QED
  BY <1>5, <1>6

\* The invariant has the types of the queue.
LEMMA QueueTyped == QueueInv => TypeOK
<1> SUFFICES ASSUME QueueInv PROVE TypeOK
  OBVIOUS
<1>1. /\ Types /\ FramesOK /\ main \in Mains
      /\ called <= linked \/ torn
  BY DEF QueueInv, Types, MainOK
<1>2. Len(frames) <= Cardinality(Sigs)
  BY <1>1, FramesAreFew
<1>3. frames \in Seq(Frame) /\ DOMAIN frames = 1 .. Len(frames)
      /\ \A i \in 1 .. Len(frames) : frames[i] \in Frame
  BY <1>1, FramesAre DEF FramesOK
<1>4. \A f \in ToSet(frames) : f.psig \in Entries
  BY <1>3 DEF ToSet, Frame
<1>5. linked \in 0 .. MaxSignals
  <2>1. Cardinality(Active(frames)) \in Nat
    BY <1>3, FramesAre
  <2> QED
    BY <1>1, <2>1, MaxSignalsNat DEF Types, Counted
<1>6. main.queue \in Pointers /\ main.entry \in Pointers /\ main.left \in 0 .. Batch
  BY <1>1, MainsAre
<1> QED
  BY <1>1, <1>2, <1>4, <1>5, <1>6 DEF TypeOK, Types

\* Lists that have no entry in common make one without repetitions.
LEMMA JoinIs ==
    ASSUME NEW s \in Seq(Entries), NEW t \in Seq(Entries)
    PROVE  /\ s \o t \in Seq(Entries) /\ Len(s \o t) = Len(s) + Len(t)
           /\ ToSet(s \o t) = ToSet(s) \cup ToSet(t)
           /\ \A i \in 1 .. Len(s \o t) :
                  \/ i \in 1 .. Len(s) /\ (s \o t)[i] = s[i]
                  \/ i - Len(s) \in 1 .. Len(t) /\ (s \o t)[i] = t[i - Len(s)]
           /\ IsInjective(s) /\ IsInjective(t) /\ ToSet(s) \cap ToSet(t) = {}
                 => IsInjective(s \o t)
<1> PICK u : u = s \o t
  OBVIOUS
<1>1. /\ u \in Seq(Entries) /\ Len(u) = Len(s) + Len(t)
      /\ \A i \in 1 .. Len(s) + Len(t) : u[i] = IF i <= Len(s) THEN s[i] ELSE t[i - Len(s)]
  BY ConcatProperties
<1>2. Len(s) \in Nat /\ Len(t) \in Nat /\ DOMAIN s = 1 .. Len(s) /\ DOMAIN t = 1 .. Len(t)
  BY ListIs
<1>3. DOMAIN u = 1 .. Len(s) + Len(t)
  BY <1>1, ListIs
<1>4. \A i \in 1 .. Len(s) + Len(t) :
          \/ i \in 1 .. Len(s) /\ u[i] = s[i]
          \/ i - Len(s) \in 1 .. Len(t) /\ u[i] = t[i - Len(s)] /\ i = Len(s) + (i - Len(s))
  BY <1>1, <1>2
<1>5. ToSet(u) = ToSet(s) \cup ToSet(t)
  <2>1. ASSUME NEW x \in ToSet(u) PROVE x \in ToSet(s) \cup ToSet(t)
    <3> PICK i \in 1 .. Len(s) + Len(t) : u[i] = x
      BY <1>3 DEF ToSet
    <3> QED
      BY <1>2, <1>4 DEF ToSet
  <2>2. ASSUME NEW x \in ToSet(s) PROVE x \in ToSet(u)
    <3> PICK i \in 1 .. Len(s) : s[i] = x
      BY <1>2 DEF ToSet
    <3>1. i \in 1 .. Len(s) + Len(t) /\ u[i] = x
      BY <1>1, <1>2
    <3> QED
      BY <1>3, <3>1 DEF ToSet
  <2>3. ASSUME NEW x \in ToSet(t) PROVE x \in ToSet(u)
    <3> PICK i \in 1 .. Len(t) : t[i] = x
      BY <1>2 DEF ToSet
    <3>1. /\ Len(s) + i \in 1 .. Len(s) + Len(t) /\ ~(Len(s) + i <= Len(s))
          /\ Len(s) + i - Len(s) = i
      BY <1>2
    <3>2. u[Len(s) + i] = x
      BY <1>1, <3>1
    <3> QED
      BY <1>3, <3>1, <3>2 DEF ToSet
  <2> QED
    BY <2>1, <2>2, <2>3
<1>6. ASSUME IsInjective(s), IsInjective(t), ToSet(s) \cap ToSet(t) = {}
      PROVE  IsInjective(u)
  <2>1. /\ \A i, j \in 1 .. Len(s) : s[i] = s[j] => i = j
        /\ \A i, j \in 1 .. Len(t) : t[i] = t[j] => i = j
    BY <1>2, <1>6 DEF IsInjective
  <2>2. \A i \in 1 .. Len(s) : \A j \in 1 .. Len(t) : s[i] # t[j]
    BY <1>2, <1>6 DEF ToSet
  <2>3. ASSUME NEW i \in 1 .. Len(s) + Len(t), NEW j \in 1 .. Len(s) + Len(t), u[i] = u[j]
        PROVE  i = j
    <3>1. CASE i \in 1 .. Len(s) /\ u[i] = s[i]
      BY <1>2, <1>4, <2>1, <2>2, <2>3, <3>1
    <3>2. CASE i - Len(s) \in 1 .. Len(t) /\ u[i] = t[i - Len(s)]
      <4>1. CASE j \in 1 .. Len(s) /\ u[j] = s[j]
        BY <2>2, <2>3, <3>2, <4>1
      <4>2. CASE j - Len(s) \in 1 .. Len(t) /\ u[j] = t[j - Len(s)]
        <5>1. i - Len(s) = j - Len(s)
          BY <2>1, <2>3, <3>2, <4>2
        <5> QED
          BY <1>2, <5>1
      <4> QED
        BY <1>4, <4>1, <4>2
    <3> QED
      BY <1>4, <3>1, <3>2
  <2> QED
    BY <1>3, <2>3 DEF IsInjective
<1> QED
  BY <1>1, <1>3, <1>4, <1>5, <1>6

\* The invariant has the lists that the properties speak of.
LEMMA QueueWhole == QueueInv => QueueIntact
<1> SUFFICES ASSUME QueueInv, ~torn PROVE QueueIntact
  BY DEF QueueIntact, EntriesApart, InOrder, NoUseOfFreed
<1> PICK S, P, W, lo : Whole(S, P, W, lo)
  BY DEF QueueInv, Queue
<1>1. Types /\ frames \in Seq(Frame)
  BY DEF QueueInv, Types, FramesOK
<1>2. /\ S \in Seq(Entries) /\ P \in Seq(Entries) /\ W \in Seq(Entries) /\ lo \in Nat
      /\ IsInjective(P) /\ IsInjective(W) /\ ToSet(P) \cap ToSet(W) = {}
      /\ main.at = "clear" => W = <<>>
  BY <1>1, WholeIs
<1>3. Chain(spares) = S /\ Chain(Rest) = P
      /\ Chain(IF main.at = "clear" THEN NULL ELSE head) = W
  BY <1>1, WalksAre
<1>4. Playing = P /\ Waiting = W
  BY <1>2, <1>3 DEF Playing, Waiting, Rest
<1>5. /\ IsInjective(S) /\ ToSet(S) \cap (ToSet(P) \cup ToSet(W)) = {}
      /\ On(S, P, W) \cap InHand = {}
      /\ On(S, P, W) \cup InHand \subseteq memory
      /\ Running => On(S, P, W) \cup InHand = memory \ abandoned
  BY DEF Whole, Apart
<1> PICK Q : Q = P \o W
  OBVIOUS
<1>6. /\ Q \in Seq(Entries) /\ Len(Q) = Len(P) + Len(W) /\ ToSet(Q) = ToSet(P) \cup ToSet(W)
      /\ IsInjective(Q) /\ DOMAIN Q = 1 .. Len(Q)
      /\ \A i \in 1 .. Len(Q) : \/ i \in 1 .. Len(P) /\ Q[i] = P[i]
                                \/ i - Len(P) \in 1 .. Len(W) /\ Q[i] = W[i - Len(P)]
  BY <1>2, JoinIs, ListIs
<1>7. /\ DOMAIN frames = 1 .. Len(frames) /\ Len(frames) \in Nat
      /\ \A i \in 1 .. Len(frames) : frames[i] \in Frame
  BY <1>1, FramesAre
<1>8. \A i, j \in DOMAIN frames :
          i # j /\ Holding(frames[i]) /\ Holding(frames[j]) => frames[i].psig # frames[j].psig
  <2>1. \A i, j \in 1 .. Len(frames) : i # j => i < j \/ j < i
    BY <1>7
  <2> QED
    BY <1>7, <2>1 DEF Whole, Nested
<1>9. EntriesApart
  <2> PICK all : all = S \o Q
    OBVIOUS
  <2>1. IsInjective(all) /\ ToSet(all) = ToSet(S) \cup ToSet(Q)
    BY <1>2, <1>5, <1>6, JoinIs
  <2>2. all = Chain(spares) \o Playing \o Waiting
    <3>1. S \o (P \o W) = (S \o P) \o W
      BY <1>2, ConcatAssociative
    <3> QED
      BY <1>3, <1>4, <3>1
  <2>3. ToSet(all) = On(S, P, W)
    BY <1>6, <2>1 DEF On
  <2> QED
    BY <1>5, <1>8, <2>1, <2>2, <2>3 DEF EntriesApart
<1>10. InOrder
  <2> SUFFICES ASSUME Running
               PROVE  Len(Q) = linked - called /\ \A i \in DOMAIN Q : seq[Q[i]] = called + i
    BY <1>4 DEF InOrder
  <2>1. /\ \A i \in 1 .. Len(P) : seq[P[i]] = lo + i
        /\ \A i \in 1 .. Len(W) : seq[W[i]] = lo + Len(P) + i
        /\ linked = lo + Len(P) + Len(W) /\ lo = called
    BY DEF Whole, Numbered
  <2>2. Len(P) \in Nat /\ Len(W) \in Nat
    BY <1>2, ListIs
  <2>3. Len(Q) = linked - called
    BY <1>2, <1>6, <2>1, <2>2
  <2>4. ASSUME NEW i \in 1 .. Len(Q)
        PROVE  seq[Q[i]] = called + i
    <3>1. CASE i \in 1 .. Len(P) /\ Q[i] = P[i]
      BY <2>1, <3>1
    <3>2. CASE i - Len(P) \in 1 .. Len(W) /\ Q[i] = W[i - Len(P)]
      <4>1. seq[Q[i]] = lo + Len(P) + (i - Len(P))
        BY <2>1, <3>2
      <4> QED
        BY <1>2, <1>6, <2>1, <2>2, <4>1
    <3> QED
      BY <1>6, <3>1, <3>2
  <2> QED
    BY <1>6, <2>3, <2>4
<1>11. NoUseOfFreed
  <2>1. \A x \in ToSet(S) \cup ToSet(P) \cup ToSet(W) : x \in memory
    BY <1>5 DEF On
  <2>2. ASSUME NEW i \in DOMAIN frames
        PROVE  frames[i].psig \in memory
    <3>1. frames[i] \in Frame /\ frames[i].psig \in Entries
      BY <1>7 DEF Frame
    <3>2. CASE frames[i].at = "pop"
      <4>1. frames[i].psig = spares
        BY <3>2 DEF Whole, Hands
      <4>2. Path(next, spares, S) /\ spares # NULL
        BY <3>1, <4>1 DEF Whole, Lists, Entries, NULL
      <4> QED
        BY <2>1, <4>1, <4>2, PathNull
    <3>3. CASE Holding(frames[i])
      <4>1. frames[i].psig \in Held(frames)
        BY <3>3 DEF Held
      <4> QED
        BY <1>5, <4>1 DEF InHand
    <3>4. CASE frames[i].at = "tail"
      <4>1. Filling(P, W) # <<>> /\ frames[i].psig = Last(Filling(P, W))
        BY <3>4 DEF Whole, Ends
      <4>2. Path(next, head, Filling(P, W))
        BY <1>1, WholeIs
      <4>3. Last(Filling(P, W)) \in ToSet(Filling(P, W))
        BY <4>1, <4>2, PathNull
      <4> QED
        BY <2>1, <4>1, <4>3 DEF Filling
    <3> QED
      BY <3>1, <3>2, <3>3, <3>4 DEF Frame, Holding
  <2>3. ASSUME NEW i \in DOMAIN frames, frames[i].at = "append", Alone(i)
        PROVE  {frames[i].old, tail} \subseteq memory
    <3>1. frames[i].old = tail /\ head # NULL
      BY <2>3 DEF Whole, Hands
    <3>2. ASSUME NEW j \in DOMAIN frames
          PROVE  frames[j].at # "tail"
      <4>1. i \in 1 .. Len(frames) /\ j \in 1 .. Len(frames)
        BY <1>7
      <4>2. j < i => j \in 1 .. i - 1
        BY <1>7, <4>1
      <4>3. j < i \/ j = i \/ i < j
        BY <1>7, <4>1
      <4>4. CASE j < i
        BY <2>3, <4>2, <4>4 DEF Alone, Linking
      <4>5. CASE i < j
        BY <2>3, <4>5 DEF Whole, Nested, Linking
      <4> QED
        BY <2>3, <4>3, <4>4, <4>5
    <3>3. tail = Last(Filling(P, W))
      BY <3>1, <3>2 DEF Whole, Ends
    <3>4. Path(next, head, Filling(P, W))
      BY <1>1, WholeIs
    <3>5. Last(Filling(P, W)) \in ToSet(Filling(P, W))
      BY <3>1, <3>4, PathNull
    <3> QED
      BY <2>1, <3>1, <3>3, <3>5 DEF Filling
  <2>4. main.at \in {"free head", "free spare"} => main.entry \in memory
    <3>1. CASE main.at = "free head"
      <4>1. main.entry = head /\ head # NULL /\ Path(next, head, W)
        BY <1>1, <3>1 DEF Whole, Between, Lists, Types, MainOK
      <4> QED
        BY <2>1, <4>1, PathNull
    <3>2. CASE main.at = "free spare"
      <4>1. main.entry = spares /\ spares # NULL /\ Path(next, spares, S)
        BY <1>1, <3>2 DEF Whole, Between, Lists, Types, MainOK
      <4> QED
        BY <2>1, <4>1, PathNull
    <3> QED
      BY <3>1, <3>2
  <2>5. main.at = "give" => main.queue \in memory
    BY <1>5 DEF InHand
  <2> QED
    BY <2>2, <2>3, <2>4, <2>5 DEF NoUseOfFreed, Alone
<1> QED
  BY <1>9, <1>10, <1>11 DEF QueueIntact

-----------------------------------------------------------------------------
(* The parts next to the queue *)

Shown == INSTANCE OutputBuffers_proof
Kept == INSTANCE IniEntries_proof

-----------------------------------------------------------------------------
(* Output buffers *)

LEMMA OutputInit == AllInit => Shown!Init
BY DEF AllInit, Output!Init, Shown!Init, Output!NoBuffer, Shown!NoBuffer

LEMMA OutputNext == Output!Next => Shown!Next
BY DEF Output!Next, Shown!Next, Output!Top, Shown!Top, Output!InEnd, Shown!InEnd,
       Output!SetTop, Shown!SetTop, Output!InHandler, Shown!InHandler, Output!InScript,
       Shown!InScript, Output!Call, Shown!Call, Output!Write, Shown!Write, Output!Enter,
       Shown!Enter, Output!Return_With, Shown!Return_With, Output!Return, Shown!Return,
       Output!Results, Shown!Results, Output!End_With, Shown!End_With, Output!End, Shown!End,
       Output!Resume, Shown!Resume, Output!Sent_Then, Shown!Sent_Then, Output!Sent, Shown!Sent,
       Output!EndBuffer, Shown!EndBuffer, Output!Echo, Shown!Echo, Output!ObStart,
       Shown!ObStart, Output!Text, Shown!Text, Output!Pieces, Shown!Pieces, Output!NextPhase,
       Shown!NextPhase, Output!Bailout, Shown!Bailout, Output!ObStartLocked,
       Shown!ObStartLocked, Output!ObEnd, Shown!ObEnd, Output!Exit, Shown!Exit,
       Output!EndScript, Shown!EndScript, Output!EndBuffers, Shown!EndBuffers, Output!Returns,
       Shown!Returns, Output!NoBuffer, Shown!NoBuffer, Output!core, Shown!core, Output!past,
       Shown!past, Output!Last, Shown!Last, Output!Front, Shown!Front, Output!ToSet,
       Shown!ToSet

LEMMA OutputStep == [AllNext]_<<part, vars, output, directive>> => [Shown!Next]_Shown!vars
BY OutputNext DEF AllNext, output, Shown!vars, Shown!core, Shown!past

LEMMA OutputSpec == AllSpec => Shown!Spec
BY OutputInit, OutputStep, PTL DEF AllSpec, Shown!Spec

-----------------------------------------------------------------------------
(* Directives *)

LEMMA DirectiveInit == AllInit => Kept!Init
BY DEF AllInit, Ini!Init, Kept!Init, Ini!User, Kept!User, Ini!Perdir, Kept!Perdir, Ini!System,
                Kept!System, Ini!Everybody, Kept!Everybody, Ini!None, Kept!None, Ini!Startup,
                Kept!Startup

LEMMA DirectiveNext == Ini!Next => Kept!Next
BY DEF Ini!Next, Kept!Next, Ini!Top, Kept!Top, Ini!Returning, Kept!Returning, Ini!Script,
       Kept!Script, Ini!Call, Kept!Call, Ini!Accepts, Kept!Accepts, Ini!Efree, Kept!Efree,
       Ini!NoFree, Kept!NoFree, Ini!AlterBy, Kept!AlterBy, Ini!AdminValue, Kept!AdminValue,
       Ini!PerdirValue, Kept!PerdirValue, Ini!IniSet, Kept!IniSet, Ini!AlterAccepted,
       Kept!AlterAccepted, Ini!AlterRefused, Kept!AlterRefused, Ini!Bailout, Kept!Bailout,
       Ini!IniRestore, Kept!IniRestore, Ini!GiveBack, Kept!GiveBack, Ini!Restored,
       Kept!Restored, Ini!Activate, Kept!Activate, Ini!StartScript, Kept!StartScript,
       Ini!EndScript, Kept!EndScript, Ini!Deactivate, Kept!Deactivate, Ini!FreeMemory,
       Kept!FreeMemory, Ini!entry, Kept!entry, Ini!past, Kept!past, Ini!User, Kept!User,
       Ini!Perdir, Kept!Perdir, Ini!System, Kept!System, Ini!Everybody, Kept!Everybody,
       Ini!None, Kept!None, Ini!Startup, Kept!Startup, Ini!Last, Kept!Last, Ini!Front,
       Kept!Front

LEMMA DirectiveStep == [AllNext]_<<part, vars, output, directive>> => [Kept!Next]_Kept!directive
BY DirectiveNext DEF AllNext, directive, Kept!directive, Kept!entry, Kept!past

LEMMA DirectiveSpec == AllSpec => Kept!Spec
BY DirectiveInit, DirectiveStep, PTL DEF AllSpec, Kept!Spec

-----------------------------------------------------------------------------
(* The properties of the request *)

\* php_end_ob_buffer(): the nesting level, the lock and the way output goes agree with
\* the calls, however buffers are nested, flushed and left.
THEOREM StateAgreesHolds == AllSpec => []StateAgrees
<1>1. Shown!StateAgrees => StateAgrees
  BY DEF StateAgrees, Output!StateAgrees, Shown!StateAgrees, Output!LevelAgrees,
         Shown!LevelAgrees, Output!LockIsHandler, Shown!LockIsHandler, Output!InCode,
         Shown!InCode, Output!Top, Shown!Top, Output!Last, Shown!Last, Output!ToSet,
         Shown!ToSet, Output!NoBuffer, Shown!NoBuffer
<1>2. Shown!Spec => []Shown!StateAgrees
  BY Shown!StateAgreesHolds
<1> QED
  BY <1>1, <1>2, OutputSpec, PTL

\* No output is lost, repeated or overtaken between the buffers of a request.
THEOREM NothingLostHolds == AllSpec => []NothingLost
<1>1. Shown!NothingLost => NothingLost
  BY DEF NothingLost, Output!NothingLost, Shown!NothingLost, Output!InCode, Shown!InCode,
         Output!Top, Shown!Top, Output!Last, Shown!Last, Output!ToSet, Shown!ToSet,
         Output!Text, Shown!Text, Output!Pieces, Shown!Pieces
<1>2. Shown!Spec => []Shown!NothingLost
  BY Shown!NothingLostHolds
<1> QED
  BY <1>1, <1>2, OutputSpec, PTL

\* Handlers are told which call is the first, and none follows the last.
THEOREM HandlerProtocolHolds == AllSpec => []HandlerProtocol
<1>1. Shown!HandlerProtocol => HandlerProtocol
  BY DEF HandlerProtocol, Output!HandlerProtocol, Shown!HandlerProtocol, Output!Top,
         Shown!Top, Output!Last, Shown!Last
<1>2. Shown!Spec => []Shown!HandlerProtocol
  BY Shown!HandlerProtocolHolds
<1> QED
  BY <1>1, <1>2, OutputSpec, PTL

\* zend_ini_deactivate(): whatever a request does to a directive, refused values and
\* handlers that do not return included, the next one finds it as at startup, and no
\* duplicate is leaked, freed twice or used after it is freed.
THEOREM DirectivesSafeHolds == AllSpec => []DirectivesSafe
<1>1. Kept!DirectivesSafe => DirectivesSafe
  BY DEF DirectivesSafe, Ini!DirectivesSafe, Kept!DirectivesSafe, Ini!LeavesNothing,
         Kept!LeavesNothing, Ini!AdminHolds, Kept!AdminHolds, Ini!ValueAlive,
         Kept!ValueAlive, Ini!NoLeak, Kept!NoLeak, Ini!GlobalFollows, Kept!GlobalFollows,
         Ini!None, Kept!None, Ini!Startup, Kept!Startup, Ini!User, Kept!User, Ini!Perdir,
         Kept!Perdir, Ini!System, Kept!System, Ini!Everybody, Kept!Everybody
<1>2. Duplicates \cap {Kept!None, Kept!Startup} = {}
  BY DuplicatesAreNew DEF None, Startup, Kept!None, Kept!Startup
<1>3. Kept!Spec => []Kept!DirectivesSafe
  BY <1>2, MaxCallsPos, Kept!DirectivesSafeHolds
<1> QED
  BY <1>1, <1>3, DirectiveSpec, PTL

\* pcntl_signal_handler() and pcntl_signal_dispatch(): whatever stores of the others the
\* handlers run between, no signal is lost, played twice or overtaken and no entry is used
\* after it is freed, unless a handler has run in one of the windows torn names.
THEOREM QueueIntactHolds == AllSpec => []QueueIntact
<1>1. AllInit => QueueInv
  BY QueueInit DEF AllInit
<1>2. QueueInv /\ [AllNext]_<<part, vars, output, directive>> => QueueInv'
  BY QueueNext DEF AllNext
<1> QED
  BY <1>1, <1>2, QueueWhole, PTL DEF AllSpec

\* Every variable of the three parts keeps its type.
THEOREM TypesOKHolds == AllSpec => []TypesOK
<1>1. AllInit => QueueInv
  BY QueueInit DEF AllInit
<1>2. QueueInv /\ [AllNext]_<<part, vars, output, directive>> => QueueInv'
  BY QueueNext DEF AllNext
<1>3. AllSpec => []TypeOK
  BY <1>1, <1>2, QueueTyped, PTL DEF AllSpec
<1>4. AllSpec => []Output!TypeOK
  <2>1. Shown!TypeOK => Output!TypeOK
    BY DEF Output!TypeOK, Shown!TypeOK, Output!ToSet, Shown!ToSet
  <2>2. Shown!Spec => []Shown!TypeOK
    BY Shown!TypeOKHolds
  <2> QED
    BY <2>1, <2>2, OutputSpec, PTL
<1>5. AllSpec => []Ini!TypeOK
  <2>1. Kept!TypeOK => Ini!TypeOK
    BY DEF Ini!TypeOK, Kept!TypeOK, Ini!Pointers, Kept!Pointers, Ini!None, Kept!None,
           Ini!Startup, Kept!Startup, Ini!User, Kept!User, Ini!Perdir, Kept!Perdir,
           Ini!System, Kept!System, Ini!Everybody, Kept!Everybody
  <2>2. Duplicates \cap {Kept!None, Kept!Startup} = {}
    BY DuplicatesAreNew DEF None, Startup, Kept!None, Kept!Startup
  <2>3. Kept!Spec => []Kept!TypeOK
    BY <2>2, MaxCallsPos, Kept!TypeOKHolds
  <2> QED
    BY <2>1, <2>3, DirectiveSpec, PTL
<1> QED
  BY <1>3, <1>4, <1>5, PTL DEF TypesOK
=============================================================================
