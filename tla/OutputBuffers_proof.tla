-------------------------- MODULE OutputBuffers_proof --------------------------
(***************************************************************************)
(* Proof that the variables of the output buffers agree with the calls of  *)
(* php_end_ob_buffer(), that handlers are told what they may rely on, and  *)
(* that no output is lost, repeated or overtaken, for any number of        *)
(* buffers, any nesting of flushes, and handlers that fail.                *)
(*                                                                         *)
(* Nothing is said about what follows a call for the buffer that is being  *)
(* handled (`reentered'): the model stops there.                           *)
(***************************************************************************)
EXTENDS OutputBuffers, SequenceTheorems, TLAPS

Texts == Seq(Nat)
Buffers == [id : Nat, text : Texts, handler : BOOLEAN, chunk : BOOLEAN,
            erase : BOOLEAN, status : BOOLEAN]
Frames == [at : {"enter", "handler", "end", "sent"}, send : BOOLEAN, flush : BOOLEAN,
           orig : Texts, final : Texts, start : BOOLEAN, saved : Buffers]
Phases == {"script", "functions", "destructors", "flush", "over"}

OfStack == 1 .. Len(stack)
OfBuffers == 1 .. Len(buffers)
Is(at) == stack # <<>> /\ stack[Len(stack)].at = at

Types ==
    /\ level \in Nat /\ buffers \in Seq(Buffers) /\ active \in Buffers
    /\ lock \in BOOLEAN /\ buffered \in BOOLEAN /\ sent \in Texts
    /\ stack \in Seq(Frames) /\ phase \in Phases
    /\ written \in Nat /\ started \in Nat
    /\ bailed \in BOOLEAN /\ reentered \in BOOLEAN
    /\ level <= started /\ Len(buffers) <= started

\* What the histories speak of.
Histories ==
    /\ dropped \in SUBSET (1 .. written)
    /\ returned \in SUBSET (1 .. started) /\ ended \in SUBSET (1 .. started)

\* Only the call on top does something else than wait for what it has sent, and
\* handlers are locked.
CallsOK ==
    /\ \A i \in OfStack : i < Len(stack) => stack[i].at = "sent"
    /\ Is("handler") => lock
    /\ ~bailed => (lock <=> Is("handler"))
    /\ phase = "over" => stack = <<>>

\* A call that waits has taken its buffer off the stack of buffers: it can come
\* back, as no other has been started in the meantime.
Waits == IF stack = <<>> \/ Is("sent") THEN Len(stack) ELSE Len(stack) - 1

Levels ==
    /\ (buffered <=> level > 0)
    /\ level > 0 => Len(buffers) = level - 1
    /\ stack # <<>> /\ level = 0 => Len(buffers) = 0 /\ Is("sent")
    /\ level + Waits <= started

\* Buffers are above the ones that were started before them; those of calls that
\* wait come above all others, the innermost lowest.
BufferIds ==
    /\ active.id \in 1 .. started
    /\ \A i \in OfBuffers : buffers[i].id \in 1 .. started /\ buffers[i].id < active.id
    /\ \A i, j \in OfBuffers : i < j => buffers[i].id < buffers[j].id

Ids ==
    /\ level > 0 => BufferIds
    /\ \A i \in OfStack : stack[i].at = "sent" =>
          /\ stack[i].saved.id \in 1 .. started
          /\ level > 0 => active.id < stack[i].saved.id
    /\ \A i, j \in OfStack : i < j /\ stack[i].at = "sent" /\ stack[j].at = "sent" =>
          stack[j].saved.id < stack[i].saved.id

\* status says whether the handler of a buffer has returned; one that has returned
\* for the last time is not called again.
Honest(b) == b.handler => (b.status <=> b.id \in returned) /\ b.id \notin ended

Statuses ==
    /\ level > 0 => \A i \in OfBuffers : Honest(buffers[i])
    /\ level > 0 /\ ~Is("end") => Honest(active)
    /\ Is("handler") => active.handler /\ Top.start = ~active.status
    /\ Is("end") /\ active.handler =>
          active.id \in returned /\ (Top.flush => active.id \notin ended)
    /\ \A i \in OfStack :
          stack[i].at = "sent" /\ stack[i].flush /\ stack[i].saved.handler =>
              stack[i].saved.id \in returned /\ stack[i].saved.id \notin ended

\* The pieces are in order, in a text and from level to level, and a handler gets
\* and returns some of the active one, in order.
In(s) == {s[n] : n \in 1 .. Len(s)}
Rises(s) == \A m, n \in 1 .. Len(s) : m < n => s[m] < s[n]

Ordered(t, n) ==
    /\ \A i \in 0 .. n : Rises(t[i])
    /\ \A i, j \in 0 .. n : i < j => \A x \in In(t[i]), y \in In(t[j]) : x < y
Those(t, levels) == UNION {In(t[i]) : i \in levels}
Every(t, n) == UNION {In(t[i]) : i \in 0 .. n}

Levelwise(l, s, bs, a) ==
    [i \in 0 .. l |-> IF i = 0 THEN s ELSE IF i < l THEN bs[i].text ELSE a.text]
Levelled == Levelwise(level, sent, buffers, active)
Order == Ordered(Levelled, level)
Complete == phase # "over" => Every(Levelled, level) = (1 .. written) \ dropped
Over == phase = "over" => In(sent) = (1 .. written) \ dropped

Handled ==
    /\ Is("handler") => Rises(Top.orig) /\ In(Top.orig) \subseteq In(active.text)
    /\ Is("end") => Rises(Top.final) /\ In(Top.final) \subseteq In(active.text)

Good == CallsOK /\ Levels /\ Ids /\ Statuses /\ Order /\ Complete /\ Handled /\ Over

IInv == Types /\ Histories /\ IF reentered THEN Is("enter") ELSE Good

-----------------------------------------------------------------------------
(* Sequences *)

LEMMA Pushed ==
    ASSUME NEW T, NEW s \in Seq(T), NEW e \in T
    PROVE  /\ Append(s, e) \in Seq(T) /\ Len(s) \in Nat
           /\ Len(Append(s, e)) = Len(s) + 1 /\ Append(s, e) # <<>>
           /\ \A i \in 1 .. Len(s) : Append(s, e)[i] = s[i]
           /\ Append(s, e)[Len(s) + 1] = e
<1>1. /\ Append(s, e) \in Seq(T) /\ Len(Append(s, e)) = Len(s) + 1
      /\ \A i \in 1 .. Len(s) : Append(s, e)[i] = s[i]
      /\ Append(s, e)[Len(s) + 1] = e
  BY AppendProperties
<1>2. Len(s) \in Nat
  BY LenProperties
<1>3. Append(s, e) # <<>>
  BY <1>1, <1>2, EmptySeq
<1> QED
  BY <1>1, <1>2, <1>3

LEMMA Popped ==
    ASSUME NEW T, NEW s \in Seq(T), s # <<>>
    PROVE  /\ Front(s) \in Seq(T) /\ Len(s) \in Nat \ {0}
           /\ Len(Front(s)) = Len(s) - 1
           /\ \A i \in 1 .. Len(s) - 1 : Front(s)[i] = s[i]
           /\ Last(s) = s[Len(s)] /\ Last(s) \in T
<1>1. Len(s) \in Nat \ {0} /\ \A i \in 1 .. Len(s) : s[i] \in T
  BY EmptySeq, ElementOfSeq
<1>2. PICK n : n = Len(s) - 1
  OBVIOUS
<1>3. PICK one : one = 1
  OBVIOUS
<1>4. Front(s) = SubSeq(s, one, n) /\ one \in Int /\ n \in Int
  BY <1>1, <1>2, <1>3 DEF Front
<1>5. \A i \in one .. n : s[i] \in T
  BY <1>1, <1>2, <1>3
<1>6. /\ SubSeq(s, one, n) \in Seq(T)
      /\ Len(SubSeq(s, one, n)) = IF one <= n THEN n - one + 1 ELSE 0
      /\ \A i \in 1 .. n - one + 1 : SubSeq(s, one, n)[i] = s[one + i - 1]
  BY ONLY <1>4, <1>5, SubSeqProperties
<1>7. Len(Front(s)) = Len(s) - 1
  BY <1>1, <1>2, <1>3, <1>4, <1>6
<1>8. ASSUME NEW i \in 1 .. Len(s) - 1 PROVE Front(s)[i] = s[i]
  <2>1. i \in 1 .. n - one + 1 /\ one + i - 1 = i
    BY <1>1, <1>2, <1>3
  <2> QED
    BY <1>4, <1>6, <2>1
<1>9. Last(s) = s[Len(s)] /\ Last(s) \in T
  BY <1>1 DEF Last
<1> QED
  BY <1>1, <1>4, <1>6, <1>7, <1>8, <1>9

LEMMA Joined ==
    ASSUME NEW T, NEW s \in Seq(T), NEW t \in Seq(T)
    PROVE  /\ s \o t \in Seq(T) /\ Len(s) \in Nat /\ Len(t) \in Nat
           /\ Len(s \o t) = Len(s) + Len(t)
           /\ \A i \in 1 .. Len(s) : (s \o t)[i] = s[i]
           /\ \A i \in 1 .. Len(t) : (s \o t)[Len(s) + i] = t[i]
<1>1. /\ s \o t \in Seq(T) /\ Len(s \o t) = Len(s) + Len(t)
      /\ \A i \in 1 .. Len(s) + Len(t) :
            (s \o t)[i] = IF i <= Len(s) THEN s[i] ELSE t[i - Len(s)]
  BY ConcatProperties
<1>2. Len(s) \in Nat /\ Len(t) \in Nat
  BY LenProperties
<1>3. ASSUME NEW i \in 1 .. Len(s) PROVE (s \o t)[i] = s[i]
  BY <1>1, <1>2
<1>4. ASSUME NEW i \in 1 .. Len(t) PROVE (s \o t)[Len(s) + i] = t[i]
  <2>1. Len(s) + i \in 1 .. Len(s) + Len(t) /\ ~(Len(s) + i <= Len(s))
        /\ Len(s) + i - Len(s) = i
    BY <1>2
  <2> QED
    BY <1>1, <2>1
<1> QED
  BY <1>1, <1>2, <1>3, <1>4

LEMMA Replaced ==
    ASSUME NEW T, NEW s \in Seq(T), s # <<>>, NEW e \in T
    PROVE  /\ Front(s) \o <<e>> \in Seq(T) /\ Len(s) \in Nat \ {0}
           /\ Len(Front(s) \o <<e>>) = Len(s)
           /\ \A i \in 1 .. Len(s) : i < Len(s) => (Front(s) \o <<e>>)[i] = s[i]
           /\ (Front(s) \o <<e>>)[Len(s)] = e
           /\ Front(s) \o <<e>> # <<>>
<1>1. /\ Front(s) \in Seq(T) /\ Len(s) \in Nat \ {0} /\ Len(Front(s)) = Len(s) - 1
      /\ \A i \in 1 .. Len(s) - 1 : Front(s)[i] = s[i]
  BY Popped
<1>2. PICK f : f = Front(s)
  OBVIOUS
<1>3. PICK l : l = <<e>>
  OBVIOUS
<1>4. Len(l) = 1 /\ l[1] = e
  BY <1>3
<1>9. f \in Seq(T) /\ l \in Seq(T)
  BY <1>1, <1>2, <1>3
<1>5. /\ f \o l \in Seq(T) /\ Len(f \o l) = Len(f) + Len(l)
      /\ \A i \in 1 .. Len(f) : (f \o l)[i] = f[i]
      /\ \A i \in 1 .. Len(l) : (f \o l)[Len(f) + i] = l[i]
  BY ONLY <1>9, Joined
<1>6. Len(f \o l) = Len(s) /\ (f \o l)[Len(s)] = e
  <2>1. Len(f) + 1 = Len(s) /\ 1 \in 1 .. Len(l) /\ Len(f) + Len(l) = Len(s)
    BY <1>1, <1>2, <1>4
  <2>2. (f \o l)[Len(f) + 1] = l[1]
    BY <1>5, <2>1
  <2> QED
    BY <1>4, <1>5, <2>1, <2>2
<1>7. ASSUME NEW i \in 1 .. Len(s), i < Len(s) PROVE (f \o l)[i] = s[i]
  <2>1. i \in 1 .. Len(s) - 1 /\ i \in 1 .. Len(f)
    BY <1>1, <1>2, <1>7
  <2> QED
    BY <1>1, <1>2, <1>5, <2>1
<1>8. f \o l # <<>>
  BY <1>1, <1>5, <1>6, EmptySeq
<1> QED
  BY <1>1, <1>2, <1>3, <1>5, <1>6, <1>7, <1>8

-----------------------------------------------------------------------------
(* Texts *)

LEMMA NoPieces == <<>> \in Texts /\ In(<<>>) = {} /\ Rises(<<>>)
<1>1. <<>> \in Texts /\ Len(<<>>) = 0
  BY EmptySeq DEF Texts
<1>2. 1 .. Len(<<>>) = {}
  BY <1>1
<1> QED
  BY <1>1, <1>2 DEF In, Rises

\* What is added to a text comes after what it has.
LEMMA JoinedText ==
    ASSUME NEW s \in Texts, NEW t \in Texts
    PROVE  /\ s \o t \in Texts /\ In(s \o t) = In(s) \cup In(t)
           /\ Rises(s) /\ Rises(t) /\ (\A x \in In(s), y \in In(t) : x < y) => Rises(s \o t)
<1>1. PICK u : u = s \o t
  OBVIOUS
<1>2. /\ u \in Seq(Nat) /\ Len(s) \in Nat /\ Len(t) \in Nat
      /\ Len(u) = Len(s) + Len(t)
      /\ \A i \in 1 .. Len(s) : u[i] = s[i]
      /\ \A i \in 1 .. Len(t) : u[Len(s) + i] = t[i]
  BY ONLY <1>1, s \in Texts, t \in Texts, Joined DEF Texts
<1>3. \A i \in 1 .. Len(u) : i \in 1 .. Len(s) \/ (i - Len(s) \in 1 .. Len(t) /\ i = Len(s) + (i - Len(s)))
  BY <1>2
<1>4. \A i \in 1 .. Len(s) : i \in 1 .. Len(u)
  BY <1>2
<1>5. \A i \in 1 .. Len(t) : Len(s) + i \in 1 .. Len(u)
  BY <1>2
<1>6. In(u) = In(s) \cup In(t)
  <2>1. ASSUME NEW i \in 1 .. Len(u) PROVE u[i] \in In(s) \cup In(t)
    <3>1. CASE i \in 1 .. Len(s)
      BY <1>2, <3>1 DEF In
    <3>2. CASE i - Len(s) \in 1 .. Len(t) /\ i = Len(s) + (i - Len(s))
      <4>1. PICK j \in 1 .. Len(t) : i = Len(s) + j
        BY <3>2
      <4> QED
        BY <1>2, <4>1 DEF In
    <3> QED
      BY <1>3, <3>1, <3>2
  <2>2. ASSUME NEW i \in 1 .. Len(s) PROVE s[i] \in In(u)
    BY <1>2, <1>4 DEF In
  <2>3. ASSUME NEW i \in 1 .. Len(t) PROVE t[i] \in In(u)
    BY <1>2, <1>5 DEF In
  <2>4. \A x : x \in In(u) <=> \E i \in 1 .. Len(u) : x = u[i]
    BY DEF In
  <2>5. \A x : x \in In(s) <=> \E i \in 1 .. Len(s) : x = s[i]
    BY DEF In
  <2>6. \A x : x \in In(t) <=> \E i \in 1 .. Len(t) : x = t[i]
    BY DEF In
  <2> QED
    BY ONLY <2>1, <2>2, <2>3, <2>4, <2>5, <2>6
<1>7. ASSUME Rises(s), Rises(t), \A x \in In(s), y \in In(t) : x < y
      PROVE  Rises(u)
  <2>1. ASSUME NEW m \in 1 .. Len(u), NEW n \in 1 .. Len(u), m < n
        PROVE  u[m] < u[n]
    <3>1. CASE m \in 1 .. Len(s) /\ n \in 1 .. Len(s)
      BY <1>2, <1>7, <2>1, <3>1 DEF Rises
    <3>2. CASE m \in 1 .. Len(s) /\ n \notin 1 .. Len(s)
      <4>1. PICK j \in 1 .. Len(t) : n = Len(s) + j
        BY <1>3, <3>2
      <4>2. s[m] \in In(s) /\ t[j] \in In(t)
        BY <3>2 DEF In
      <4> QED
        BY <1>2, <1>7, <3>2, <4>1, <4>2
    <3>3. CASE m \notin 1 .. Len(s)
      <4>1. PICK j \in 1 .. Len(t) : m = Len(s) + j
        BY <1>3, <3>3
      <4>2. n \notin 1 .. Len(s)
        BY <1>2, <2>1, <4>1
      <4>3. PICK k \in 1 .. Len(t) : n = Len(s) + k
        BY <1>3, <4>2
      <4>4. j < k
        BY <1>2, <2>1, <4>1, <4>3
      <4> QED
        BY <1>2, <1>7, <4>1, <4>3, <4>4 DEF Rises
    <3> QED
      BY <3>1, <3>2, <3>3
  <2> QED
    BY <2>1 DEF Rises
<1> QED
  BY <1>1, <1>2, <1>6, <1>7 DEF Texts

LEMMA OnePiece == ASSUME NEW n \in Nat PROVE <<n>> \in Texts /\ In(<<n>>) = {n} /\ Rises(<<n>>)
<1>1. PICK t : t = <<n>>
  OBVIOUS
<1>2. t \in Seq(Nat) /\ Len(t) = 1 /\ t[1] = n
  BY <1>1
<1>3. 1 .. Len(t) = {1}
  BY <1>2
<1>4. In(t) = {n}
  BY <1>2, <1>3 DEF In
<1>5. Rises(t)
  BY <1>3 DEF Rises
<1> QED
  BY <1>1, <1>2, <1>4, <1>5 DEF Texts

-----------------------------------------------------------------------------
(* Levels of texts *)

\* More is written to the top level.
Longer(t, u, n, p) ==
    /\ n \in Nat /\ p \in Texts /\ Rises(p)
    /\ Ordered(t, n) /\ t[n] \in Texts /\ \A z \in Every(t, n), y \in In(p) : z < y
    /\ \A i \in 0 .. n : i < n => u[i] = t[i]
    /\ u[n] = t[n] \o p

LEMMA OneMore ==
    ASSUME NEW n, NEW t, NEW u, NEW p, Longer(t, u, n, p)
    PROVE  /\ Ordered(u, n) /\ Every(u, n) = Every(t, n) \cup In(p)
           /\ In(u[n]) = In(t[n]) \cup In(p)
<1> USE DEF Longer
<1>1. \A i \in 0 .. n : \A z \in In(t[i]), y \in In(p) : z < y
  BY DEF Every
<1>3. n \in 0 .. n
  OBVIOUS
<1>4. In(u[n]) = In(t[n]) \cup In(p) /\ Rises(u[n])
  <2>1. Rises(t[n])
    BY <1>3 DEF Ordered
  <2>2. \A z \in In(t[n]), y \in In(p) : z < y
    BY <1>1, <1>3
  <2> QED
    BY <2>1, <2>2, JoinedText
<1>5. \A i \in 0 .. n : i < n \/ i = n
  OBVIOUS
<1>6. \A i \in 0 .. n : In(u[i]) = IF i = n THEN In(t[n]) \cup In(p) ELSE In(t[i])
  BY <1>4, <1>5
<1>7. \A i \in 0 .. n : Rises(u[i])
  BY <1>4, <1>5 DEF Ordered
<1>8. ASSUME NEW i \in 0 .. n, NEW j \in 0 .. n, i < j, NEW z \in In(u[i]), NEW y \in In(u[j])
      PROVE  z < y
  <2>1. i # n /\ z \in In(t[i])
    BY <1>6, <1>8
  <2>2. CASE y \in In(p)
    BY <1>1, <2>1, <2>2
  <2>3. CASE y \notin In(p)
    <3>1. y \in In(t[j])
      BY <1>6, <2>3
    <3> QED
      BY <1>8, <2>1, <3>1 DEF Ordered
  <2> QED
    BY <2>2, <2>3
<1>9. Every(u, n) = Every(t, n) \cup In(p)
  <2>1. ASSUME NEW z PROVE z \in Every(u, n) <=> z \in Every(t, n) \cup In(p)
    BY <1>3, <1>6 DEF Every
  <2> QED
    BY <2>1
<1> QED
  BY <1>4, <1>7, <1>8, <1>9 DEF Ordered

\* A new level.
LEMMA NewLevel ==
    ASSUME NEW n \in Nat, NEW t, NEW u,
           Ordered(t, n), \A i \in 0 .. n : u[i] = t[i], u[n + 1] = <<>>
    PROVE  Ordered(u, n + 1) /\ Every(u, n + 1) = Every(t, n)
<1>1. In(u[n + 1]) = {} /\ Rises(u[n + 1])
  BY NoPieces
<1>2. \A i \in 0 .. n + 1 : i \in 0 .. n \/ i = n + 1
  OBVIOUS
<1>3. \A i \in 0 .. n : i \in 0 .. n + 1
  OBVIOUS
<1>4. Ordered(u, n + 1)
  <2>1. \A i \in 0 .. n + 1 : Rises(u[i])
    BY <1>1, <1>2 DEF Ordered
  <2>2. ASSUME NEW i \in 0 .. n + 1, NEW j \in 0 .. n + 1, i < j,
               NEW x \in In(u[i]), NEW y \in In(u[j])
        PROVE  x < y
    <3>1. i # n + 1 /\ j # n + 1
      BY <1>1, <2>2
    <3>2. i \in 0 .. n /\ j \in 0 .. n
      BY <1>2, <3>1
    <3> QED
      BY <2>2, <3>2 DEF Ordered
  <2> QED
    BY <2>1, <2>2 DEF Ordered
<1>5. ASSUME NEW x PROVE x \in Every(u, n + 1) <=> x \in Every(t, n)
  BY <1>1, <1>2, <1>3 DEF Every
<1> QED
  BY <1>4, <1>5

\* Some of the top level is sent to the one below.
LEMMA Merged ==
    ASSUME NEW n \in Nat, n > 0, NEW t, NEW u, NEW f \in Texts,
           Ordered(t, n), Every(t, n) \subseteq Nat, t[n - 1] \in Texts, Rises(f), In(f) \subseteq In(t[n]),
           \A i \in 0 .. n - 1 : i < n - 1 => u[i] = t[i], u[n - 1] = t[n - 1] \o f
    PROVE  /\ Ordered(u, n - 1)
           /\ Every(u, n - 1) = Every(t, n) \ (In(t[n]) \ In(f))
<1>1. PICK k \in Nat : n = k + 1 /\ k = n - 1
  OBVIOUS
<1>2. \A i \in 0 .. k : i \in 0 .. n /\ i < n /\ (i < k \/ i = k)
  BY <1>1
<1>3. k \in 0 .. n /\ n \in 0 .. n /\ k < n /\ \A i \in 0 .. n : i \in 0 .. k \/ i = n
  BY <1>1
<1>4. \A x \in In(t[k]), y \in In(f) : x < y
  BY <1>3 DEF Ordered
<1>5. In(u[k]) = In(t[k]) \cup In(f) /\ Rises(u[k])
  <2>1. t[k] \in Texts /\ u[k] = t[k] \o f /\ Rises(t[k])
    BY <1>1, <1>3 DEF Ordered
  <2> QED
    BY <1>4, <2>1, JoinedText
<1>6. \A i \in 0 .. k : In(u[i]) = IF i = k THEN In(t[k]) \cup In(f) ELSE In(t[i])
  BY <1>1, <1>2, <1>5
<1>7. \A i \in 0 .. k : Rises(u[i])
  BY <1>1, <1>2, <1>5 DEF Ordered
<1>8. ASSUME NEW i \in 0 .. k, NEW j \in 0 .. k, i < j, NEW x \in In(u[i]), NEW y \in In(u[j])
      PROVE  x < y
  <2>1. i # k /\ x \in In(t[i]) /\ i \in 0 .. n /\ j \in 0 .. n /\ i < n
    <3>1. i # k
      BY <1>1, <1>8
    <3> QED
      BY ONLY <1>2, <1>6, <1>8, <3>1
  <2>2. CASE y \in In(t[j])
    BY <1>8, <2>1, <2>2 DEF Ordered
  <2>3. CASE y \in In(f)
    BY <1>3, <2>1, <2>3 DEF Ordered
  <2> QED
    BY <1>6, <2>2, <2>3
<1>9. \A i \in 0 .. k : \A x \in In(t[i]) : x \notin In(t[n])
  <2>1. ASSUME NEW i \in 0 .. k, NEW x \in In(t[i]), x \in In(t[n]) PROVE FALSE
    <3>1. x < x
      BY <1>2, <1>3, <2>1 DEF Ordered
    <3>2. x \in Nat
      BY <1>3, <2>1 DEF Every
    <3> QED
      BY <3>1, <3>2
  <2> QED
    BY <2>1
<1>10. ASSUME NEW x PROVE x \in Every(u, k) <=> x \in Every(t, n) \ (In(t[n]) \ In(f))
  BY <1>2, <1>3, <1>6, <1>9 DEF Every
<1> QED
  BY <1>1, <1>7, <1>8, <1>10 DEF Ordered

\* All levels but the lowest are given up.
LEMMA Cleared ==
    ASSUME NEW n \in Nat, NEW t, Ordered(t, n), Every(t, n) \subseteq Nat
    PROVE  /\ In(t[0]) = Every(t, n) \ Those(t, 1 .. n) /\ Rises(t[0])
           /\ Those(t, 1 .. n) \subseteq Every(t, n)
<1>1. 0 \in 0 .. n
  OBVIOUS
<1>2. \A i \in 0 .. n : i = 0 \/ (i \in 1 .. n /\ 0 < i)
  OBVIOUS
<1>3. \A i \in 1 .. n : i \in 0 .. n /\ 0 < i
  OBVIOUS
<1>4. \A i \in 1 .. n : \A x \in In(t[i]) : x \notin In(t[0])
  <2>1. ASSUME NEW i \in 1 .. n, NEW x \in In(t[i]), x \in In(t[0]) PROVE FALSE
    <3>1. x < x
      BY <1>1, <1>3, <2>1 DEF Ordered
    <3>2. x \in Nat
      BY <1>1, <2>1 DEF Every
    <3> QED
      BY <3>1, <3>2
  <2> QED
    BY <2>1
<1>5. ASSUME NEW x PROVE x \in In(t[0]) <=> x \in Every(t, n) \ Those(t, 1 .. n)
  BY <1>1, <1>2, <1>3, <1>4 DEF Every, Those
<1>6. ASSUME NEW x \in Those(t, 1 .. n) PROVE x \in Every(t, n)
  BY <1>3 DEF Every, Those
<1>7. Rises(t[0])
  BY <1>1 DEF Ordered
<1> QED
  BY <1>5, <1>6, <1>7

LEMMA Lowest ==
    ASSUME NEW t, Rises(t[0]) PROVE Ordered(t, 0) /\ Every(t, 0) = In(t[0])
<1>1. 0 .. 0 = {0}
  OBVIOUS
<1> QED
  BY <1>1 DEF Ordered, Every


LEMMA LevelwiseIs ==
    ASSUME NEW l \in Nat, NEW s \in Texts, NEW bs \in Seq(Buffers), NEW a \in Buffers,
           l > 0 => Len(bs) = l - 1
    PROVE  /\ Levelwise(l, s, bs, a)[0] = s
           /\ l > 0 => Levelwise(l, s, bs, a)[l] = a.text
           /\ \A i \in 1 .. l - 1 : /\ i \in 1 .. Len(bs)
                                    /\ Levelwise(l, s, bs, a)[i] = bs[i].text
           /\ \A i \in 0 .. l : Levelwise(l, s, bs, a)[i] \in Texts
<1>1. \A i \in 1 .. Len(bs) : bs[i].text \in Texts
  <2>1. \A i \in 1 .. Len(bs) : bs[i] \in Buffers
    BY ElementOfSeq
  <2> QED
    BY <2>1 DEF Buffers
<1>2. a.text \in Texts
  BY DEF Buffers
<1>3. PICK t : t = Levelwise(l, s, bs, a)
  OBVIOUS
<1>4. \A i \in 0 .. l : t[i] = IF i = 0 THEN s ELSE IF i < l THEN bs[i].text ELSE a.text
  BY <1>3 DEF Levelwise
<1>5. t[0] = s /\ (l > 0 => t[l] = a.text)
  BY <1>4
<1>6. \A i \in 1 .. l - 1 : i \in 1 .. Len(bs) /\ i \in 0 .. l /\ i # 0 /\ i < l
  OBVIOUS
<1>7. \A i \in 1 .. l - 1 : t[i] = bs[i].text
  BY <1>4, <1>6
<1>8. \A i \in 0 .. l : i = 0 \/ i \in 1 .. l - 1 \/ (l > 0 /\ i = l)
  OBVIOUS
<1>9. \A i \in 0 .. l : t[i] \in Texts
  BY ONLY <1>1, <1>2, <1>5, <1>6, <1>7, <1>8, s \in Texts
<1> QED
  BY ONLY <1>3, <1>5, <1>6, <1>7, <1>9

-----------------------------------------------------------------------------
(* The call on top *)

LEMMA TopIs ==
    ASSUME Types, stack # <<>>
    PROVE  /\ Len(stack) \in Nat \ {0} /\ Len(stack) \in OfStack
           /\ Top = stack[Len(stack)] /\ Top \in Frames
           /\ \A at : Is(at) <=> Top.at = at
<1>1. Len(stack) \in Nat \ {0} /\ \A i \in 1 .. Len(stack) : stack[i] \in Frames
  BY EmptySeq, ElementOfSeq DEF Types
<1>2. Top = stack[Len(stack)]
  BY DEF Top, Last
<1> QED
  BY <1>1, <1>2 DEF OfStack, Is

LEMMA NoTop == ASSUME stack = <<>> PROVE Len(stack) = 0 /\ OfStack = {} /\ \A at : ~Is(at)
<1>1. Len(<<>>) = 0
  BY EmptySeq
<1> QED
  BY <1>1 DEF OfStack, Is

LEMMA NoTopLeft ==
    ASSUME stack' = <<>>
    PROVE  /\ stack' \in Seq(Frames) /\ Len(stack') = 0 /\ OfStack' = {}
           /\ \A at : ~Is(at)'
<1>1. Len(<<>>) = 0 /\ <<>> \in Seq(Frames)
  BY EmptySeq
<1> QED
  BY <1>1 DEF OfStack, Is

\* The call on top goes on.
LEMMA TopReplaced ==
    ASSUME Types, stack # <<>>, NEW f \in Frames, stack' = Front(stack) \o <<f>>
    PROVE  /\ stack' \in Seq(Frames) /\ stack' # <<>> /\ Len(stack) \in Nat \ {0}
           /\ Len(stack') = Len(stack) /\ OfStack' = OfStack
           /\ \A i \in OfStack : i < Len(stack) => stack'[i] = stack[i]
           /\ \A i \in OfStack : i < Len(stack) \/ i = Len(stack)
           /\ stack'[Len(stack)] = f /\ Top' = f /\ \A at : Is(at)' <=> f.at = at
<1>1. /\ stack' \in Seq(Frames) /\ Len(stack) \in Nat \ {0}
      /\ Len(stack') = Len(stack)
      /\ \A i \in 1 .. Len(stack) : i < Len(stack) => stack'[i] = stack[i]
      /\ stack'[Len(stack)] = f /\ stack' # <<>>
  BY Replaced DEF Types
<1>2. Top' = f
  BY <1>1 DEF Top, Last
<1>3. \A at : Is(at)' <=> f.at = at
  BY <1>1 DEF Is
<1>4. \A i \in 1 .. Len(stack) : i < Len(stack) \/ i = Len(stack)
  BY <1>1
<1> QED
  BY <1>1, <1>2, <1>3, <1>4 DEF OfStack

\* ... and changes nothing but what it knows itself.
LEMMA SameBuffers ==
    ASSUME Types, Good, stack # <<>>, ~Is("sent"),
           NEW f \in Frames, f.at \in {"handler", "end"}, stack' = Front(stack) \o <<f>>,
           UNCHANGED <<level, buffers, active, buffered, sent, phase, written, started,
                       dropped, bailed, reentered>>,
           lock' \in BOOLEAN, lock' = (f.at = "handler") \/ (lock' = lock /\ ~Is("handler") /\ f.at = "end")
    PROVE  /\ Types' /\ CallsOK' /\ Levels' /\ Ids' /\ Order' /\ Complete' /\ Over'
           /\ \A i \in OfStack : stack'[i].at = "sent" => stack'[i] = stack[i]
<1>1. /\ stack' \in Seq(Frames) /\ stack' # <<>> /\ Len(stack) \in Nat \ {0}
      /\ Len(stack') = Len(stack) /\ OfStack' = OfStack
      /\ \A i \in OfStack : i < Len(stack) => stack'[i] = stack[i]
      /\ \A i \in OfStack : i < Len(stack) \/ i = Len(stack)
      /\ stack'[Len(stack)] = f /\ Top' = f /\ \A at : Is(at)' <=> f.at = at
  BY TopReplaced
<1>2. /\ level' = level /\ buffers' = buffers /\ active' = active /\ buffered' = buffered
      /\ sent' = sent /\ phase' = phase /\ written' = written /\ started' = started
      /\ dropped' = dropped /\ bailed' = bailed /\ reentered' = reentered
  OBVIOUS
<1>3. ~Is("sent")' /\ OfBuffers' = OfBuffers
  BY <1>1, <1>2 DEF OfBuffers
<1>4. \A i \in OfStack : stack'[i].at = "sent" => stack'[i] = stack[i]
  BY <1>1
<1>5. Types'
  BY ONLY Types, <1>1, <1>2, lock' \in BOOLEAN DEF Types
<1>6. CallsOK'
  <2>1. CallsOK /\ phase # "over"
    BY DEF Good, CallsOK
  <2>2. \A i \in OfStack' : i < Len(stack') => stack'[i].at = "sent"
    BY <1>1, <2>1 DEF CallsOK
  <2>3. Is("handler")' <=> f.at = "handler"
    BY <1>1
  <2>4. (Is("handler")' => lock') /\ (~bailed' => (lock' <=> Is("handler")'))
    <3>1. CASE lock' = (f.at = "handler")
      BY <2>3, <3>1 DEF Is
    <3>2. CASE lock' = lock /\ ~Is("handler") /\ f.at = "end"
      BY <1>2, <2>1, <2>3, <3>2 DEF CallsOK, Is
    <3> QED
      BY <3>1, <3>2
  <2> QED
    BY <1>2, <2>1, <2>2, <2>4 DEF CallsOK
<1>7. Levels'
  <2>1. Waits' = Waits
    BY <1>1, <1>3 DEF Waits
  <2>2. Levels /\ level > 0
    BY DEF Good, Levels, Types
  <2> QED
    BY <1>2, <2>1, <2>2 DEF Levels
<1>8. Ids'
  <2>1. Ids
    BY DEF Good
  <2>2. BufferIds => BufferIds'
    BY ONLY <1>2, <1>3 DEF BufferIds
  <2>3. \A i \in OfStack' : stack'[i].at = "sent" =>
          /\ stack'[i].saved.id \in 1 .. started'
          /\ level' > 0 => active'.id < stack'[i].saved.id
    BY ONLY <1>1, <1>2, <1>4, <2>1 DEF Ids
  <2>4. \A i, j \in OfStack' : i < j /\ stack'[i].at = "sent" /\ stack'[j].at = "sent" =>
          stack'[j].saved.id < stack'[i].saved.id
    <3>1. ASSUME NEW i \in OfStack, NEW j \in OfStack, i < j,
                 stack'[i].at = "sent", stack'[j].at = "sent"
          PROVE  stack'[j].saved.id < stack'[i].saved.id
      <4>1. stack'[i] = stack[i] /\ stack'[j] = stack[j]
        BY <1>4, <3>1
      <4>2. stack[i].at = "sent" /\ stack[j].at = "sent"
        BY <3>1, <4>1
      <4> QED
        BY ONLY <2>1, <3>1, <4>1, <4>2 DEF Ids
    <3> QED
      BY <1>1, <3>1
  <2> QED
    BY <1>2, <2>1, <2>2, <2>3, <2>4 DEF Ids
<1>9. Order' /\ Complete' /\ Over'
  BY <1>2 DEF Good, Order, Complete, Over, Levelled
<1> QED
  BY <1>4, <1>5, <1>6, <1>7, <1>8, <1>9

\* The text of the active buffer.
LEMMA ActiveText ==
    ASSUME Types, Good, level > 0
    PROVE  active.text \in Texts /\ Rises(active.text) /\ Levelled[level] = active.text
<1>1. level \in Nat /\ level \in 0 .. level /\ Len(buffers) = level - 1
  BY DEF Types, Good, Levels
<1>2. Levelled[level] = active.text
  BY <1>1, LevelwiseIs DEF Types, Levelled
<1>3. Rises(active.text)
  BY <1>1, <1>2 DEF Good, Order, Ordered
<1>4. active.text \in Texts
  BY DEF Types, Buffers
<1> QED
  BY <1>2, <1>3, <1>4

\* The handler is called, or there is none.
LEMMA EnterKeeps == ASSUME IInv, Enter PROVE IInv'
<1>1. /\ ~reentered /\ stack # <<>> /\ Top.at = "enter"
      /\ level' = level /\ buffers' = buffers /\ active' = active /\ buffered' = buffered
      /\ sent' = sent /\ phase' = phase /\ written' = written /\ started' = started
      /\ dropped' = dropped /\ returned' = returned /\ ended' = ended
      /\ bailed' = bailed /\ reentered' = reentered
  BY DEF Enter, InEnd, past
<1>2. Types /\ Histories /\ Good
  BY <1>1 DEF IInv
<1>3. Top \in Frames /\ Is("enter") /\ ~Is("sent") /\ ~Is("handler") /\ ~Is("end")
  BY <1>1, <1>2, TopIs
<1>4. level > 0
  BY <1>1, <1>2, <1>3 DEF Good, Levels, Types
<1>5. active.text \in Texts /\ Rises(active.text)
  BY <1>2, <1>4, ActiveText
<1>6. lock \in BOOLEAN /\ active.handler \in BOOLEAN /\ active.status \in BOOLEAN
  BY <1>2 DEF Types, Buffers
<1>7. PICK f \in Frames :
        /\ stack' = Front(stack) \o <<f>>
        /\ \/ /\ active.handler /\ lock' = TRUE
              /\ f.at = "handler" /\ f.orig = active.text /\ f.start = ~active.status
           \/ ~active.handler /\ lock' = lock /\ f.at = "end" /\ f.final = active.text
  <2>1. CASE active.handler
    <3>1. PICK f : f = [Top EXCEPT !.at = "handler", !.orig = active.text,
                                   !.start = ~active.status]
      OBVIOUS
    <3>2. f \in Frames /\ f.at = "handler" /\ f.orig = active.text /\ f.start = ~active.status
      BY <1>3, <1>5, <1>6, <3>1 DEF Frames
    <3>3. stack' = Front(stack) \o <<f>> /\ lock' = TRUE
      BY <2>1, <3>1 DEF Enter, SetTop
    <3> QED
      BY <2>1, <3>2, <3>3
  <2>2. CASE ~active.handler
    <3>1. PICK f : f = [Top EXCEPT !.at = "end", !.final = active.text]
      OBVIOUS
    <3>2. f \in Frames /\ f.at = "end" /\ f.final = active.text
      BY <1>3, <1>5, <3>1 DEF Frames
    <3>3. stack' = Front(stack) \o <<f>> /\ lock' = lock
      BY <2>2, <3>1 DEF Enter, SetTop
    <3> QED
      BY <2>2, <3>2, <3>3
  <2> QED
    BY <2>1, <2>2
<1>8. /\ Types' /\ CallsOK' /\ Levels' /\ Ids' /\ Order' /\ Complete' /\ Over'
      /\ \A i \in OfStack : stack'[i].at = "sent" => stack'[i] = stack[i]
  <2>1. lock' \in BOOLEAN /\ f.at \in {"handler", "end"}
    BY <1>6, <1>7
  <2>2. lock' = (f.at = "handler") \/ (lock' = lock /\ ~Is("handler") /\ f.at = "end")
    BY <1>3, <1>7
  <2> QED
    BY <1>1, <1>2, <1>3, <1>7, <2>1, <2>2, SameBuffers
<1>9. OfStack' = OfStack /\ Top' = f /\ \A at : Is(at)' <=> f.at = at
  BY <1>1, <1>2, <1>7, TopReplaced
<1>10. Statuses'
  <2>1. Statuses
    BY <1>2 DEF Good
  <2>2. level' > 0 => \A i \in OfBuffers' : Honest(buffers[i])'
    BY <1>1, <2>1 DEF Statuses, Honest, OfBuffers
  <2>3. Honest(active)'
    BY <1>1, <1>3, <1>4, <2>1 DEF Statuses, Honest
  <2>4. /\ Is("handler")' => active'.handler /\ Top'.start = ~active'.status
        /\ Is("end")' => ~active'.handler
    BY <1>1, <1>7, <1>9
  <2>5. \A i \in OfStack' :
          stack'[i].at = "sent" /\ stack'[i].flush /\ stack'[i].saved.handler =>
              stack'[i].saved.id \in returned' /\ stack'[i].saved.id \notin ended'
    BY <1>1, <1>8, <1>9, <2>1 DEF Statuses
  <2> QED
    BY <2>2, <2>3, <2>4, <2>5 DEF Statuses
<1>11. Handled'
  BY <1>1, <1>5, <1>7, <1>9 DEF Handled
<1>12. Histories' /\ ~reentered'
  BY <1>1, <1>2 DEF Histories
<1> QED
  BY <1>8, <1>10, <1>11, <1>12 DEF IInv, Good

\* The handler returns.
LEMMA ReturnsKeep == ASSUME IInv, Returns PROVE IInv'
<1>1. /\ ~reentered /\ stack # <<>> /\ Top.at = "handler"
  BY DEF Returns, InHandler, InEnd
<1>2. PICK final \in Results : Return(final)
  BY DEF Returns
<1>3. /\ level' = level /\ buffers' = buffers /\ active' = active /\ buffered' = buffered
      /\ sent' = sent /\ phase' = phase /\ written' = written /\ started' = started
      /\ dropped' = dropped /\ bailed' = bailed /\ reentered' = reentered /\ lock' = FALSE
      /\ returned' = returned \cup {active.id}
      /\ ended' = IF Top.flush THEN ended ELSE ended \cup {active.id}
      /\ stack' = Front(stack) \o <<[Top EXCEPT !.at = "end", !.final = final]>>
  BY <1>2 DEF Return, Return_With, SetTop
<1>4. Types /\ Histories /\ Good
  BY <1>1 DEF IInv
<1>5. Top \in Frames /\ Is("handler") /\ ~Is("sent") /\ ~Is("end") /\ Len(stack) \in OfStack
  BY <1>1, <1>4, TopIs
<1>6. level > 0 /\ active.handler
  BY <1>1, <1>4, <1>5 DEF Good, Levels, Types, Statuses
<1>7. final \in Texts /\ Rises(final) /\ In(final) \subseteq In(active.text)
  <2>1. active.text \in Texts /\ Rises(active.text)
    BY <1>4, <1>6, ActiveText
  <2>2. Top.orig \in Texts /\ Rises(Top.orig) /\ In(Top.orig) \subseteq In(active.text)
    BY <1>4, <1>5 DEF Good, Handled, Frames
  <2> QED
    BY <1>2, <2>1, <2>2, NoPieces DEF Results
<1>8. PICK f : f = [Top EXCEPT !.at = "end", !.final = final]
  OBVIOUS
<1>9. f \in Frames /\ f.at = "end" /\ f.final = final /\ f.flush = Top.flush
  BY <1>5, <1>7, <1>8 DEF Frames
<1>10. /\ Types' /\ CallsOK' /\ Levels' /\ Ids' /\ Order' /\ Complete' /\ Over'
       /\ \A i \in OfStack : stack'[i].at = "sent" => stack'[i] = stack[i]
  <2>1. lock' \in BOOLEAN /\ lock' = (f.at = "handler")
    BY <1>3, <1>9
  <2> QED
    BY <1>1, <1>3, <1>4, <1>5, <1>8, <1>9, <2>1, SameBuffers
<1>11. OfStack' = OfStack /\ Top' = f /\ \A at : Is(at)' <=> f.at = at
  BY <1>1, <1>3, <1>4, <1>8, <1>9, TopReplaced
<1>12. BufferIds /\ Ids
  BY <1>4, <1>6 DEF Good, Ids
<1>13. Statuses'
  <2>1. Statuses
    BY <1>4 DEF Good
  <2>2. \A id : id # active.id => (id \in returned' <=> id \in returned) /\ (id \in ended' <=> id \in ended)
    BY <1>3
  <2>3. ASSUME NEW i \in OfBuffers' PROVE Honest(buffers[i])'
    <3>1. i \in OfBuffers /\ buffers[i].id < active.id
      BY <1>3, <1>12 DEF OfBuffers, BufferIds
    <3>2. buffers[i].id # active.id
      BY <1>12, <3>1 DEF BufferIds
    <3>3. Honest(buffers[i])
      BY <1>6, <2>1, <3>1 DEF Statuses
    <3> QED
      BY <1>3, <2>2, <3>2, <3>3 DEF Honest
  <2>4. active'.id \in returned' /\ (Top'.flush => active'.id \notin ended')
    <3>1. active.id \notin ended
      BY <1>5, <1>6, <2>1 DEF Statuses, Honest
    <3> QED
      BY <1>3, <1>9, <1>11, <3>1
  <2>5. ASSUME NEW i \in OfStack, stack'[i].at = "sent"
        PROVE  stack'[i].flush /\ stack'[i].saved.handler =>
                  stack'[i].saved.id \in returned' /\ stack'[i].saved.id \notin ended'
    <3>1. stack'[i] = stack[i] /\ stack[i].at = "sent"
      BY <1>10, <2>5
    <3>2. active.id < stack[i].saved.id /\ stack[i].saved.id \in 1 .. started
      BY <1>6, <1>12, <3>1 DEF Ids
    <3>3. stack[i].saved.id # active.id
      BY <1>12, <3>2 DEF BufferIds
    <3> QED
      BY <2>1, <2>2, <3>1, <3>3 DEF Statuses
  <2>6. ~Is("handler")' /\ Is("end")'
    BY <1>9, <1>11
  <2> QED
    BY <1>11, <2>3, <2>4, <2>5, <2>6 DEF Statuses
<1>14. Handled'
  BY <1>3, <1>7, <1>9, <1>11 DEF Handled
<1>15. Histories' /\ ~reentered'
  <2>1. active.id \in 1 .. started
    BY <1>12 DEF BufferIds
  <2> QED
    BY <1>1, <1>3, <1>4, <2>1 DEF Histories
<1> QED
  BY <1>10, <1>13, <1>14, <1>15 DEF IInv, Good

LEMMA ToSetIsIn == ASSUME NEW s \in Texts PROVE ToSet(s) = In(s)
<1>1. DOMAIN s = 1 .. Len(s)
  BY LenProperties DEF Texts
<1> QED
  BY <1>1 DEF ToSet, In

\* The call has sent what it had to send: it waits, or what it has sent has made
\* the buffer below call for its flush.
LEMMA EndEffects ==
    ASSUME IInv, End
    PROVE  /\ ~reentered /\ stack # <<>> /\ Is("end") /\ level > 0
           /\ level' = level - 1 /\ (buffered' <=> level > 1) /\ sent' \in Texts
           /\ buffers' = (IF level > 1 THEN Front(buffers) ELSE buffers)
           /\ lock' = lock /\ phase' = phase /\ written' = written /\ started' = started
           /\ buffered' \in BOOLEAN
           /\ returned' = returned /\ ended' = ended /\ bailed' = bailed
           /\ reentered' = reentered
           /\ \E u \in Texts :
                /\ Rises(u) /\ In(u) \subseteq In(active.text)
                /\ dropped' = dropped \cup (In(active.text) \ In(u))
                /\ IF level > 1
                   THEN /\ active' = [Last(buffers) EXCEPT !.text = Last(buffers).text \o u]
                        /\ sent' = sent
                   ELSE active' = active /\ sent' = sent \o u
           /\ \E f \in Frames :
                /\ f.at = "sent" /\ f.flush = Top.flush /\ f.saved = active
                /\ \/ stack' = Front(stack) \o <<f>>
                   \/ /\ stack' = Append(Front(stack) \o <<f>>, Call(TRUE, TRUE))
                      /\ level > 1
<1>1. /\ ~reentered /\ stack # <<>> /\ Top.at = "end"
      /\ level' = level - 1 /\ (buffered' <=> level # 1)
      /\ buffers' = (IF level > 1 THEN Front(buffers) ELSE buffers)
      /\ lock' = lock /\ phase' = phase /\ written' = written /\ started' = started
      /\ returned' = returned /\ ended' = ended /\ bailed' = bailed
      /\ reentered' = reentered /\ buffered' \in BOOLEAN
  BY DEF End, End_With, InEnd
<1>2. Types /\ Good
  BY <1>1 DEF IInv
<1>3. Top \in Frames /\ Is("end") /\ ~Is("sent")
  BY <1>1, <1>2, TopIs
<1>4. level \in Nat /\ level > 0 /\ (buffered' <=> level > 1)
  <2>1. level \in Nat /\ level > 0
    BY <1>1, <1>2, <1>3 DEF Good, Levels, Types
  <2> QED
    BY <1>1, <2>1
<1>5. active.text \in Texts /\ active \in Buffers /\ sent \in Texts
  BY <1>2 DEF Types, Buffers
<1>6. Top.final \in Texts /\ Rises(Top.final) /\ In(Top.final) \subseteq In(active.text)
  BY <1>2, <1>3 DEF Good, Handled, Frames
<1>7. PICK f : f = [Top EXCEPT !.at = "sent", !.saved = active]
  OBVIOUS
<1>8. f \in Frames /\ f.at = "sent" /\ f.flush = Top.flush /\ f.saved = active
  BY <1>3, <1>5, <1>7 DEF Frames
<1>9. PICK prev : prev = IF level > 1 THEN Last(buffers) ELSE active
  OBVIOUS
<1>10. level > 1 => prev \in Buffers /\ prev.text \in Texts /\ prev = Last(buffers)
  <2>1. ASSUME level > 1 PROVE buffers # <<>>
    <3>1. Len(buffers) = level - 1
      BY <1>2, <1>4 DEF Good, Levels
    <3> QED
      BY <1>4, <2>1, <3>1, EmptySeq
  <2>2. ASSUME level > 1 PROVE Last(buffers) \in Buffers
    BY <1>2, <2>1, <2>2, Popped DEF Types
  <2> QED
    BY <1>9, <2>2 DEF Buffers
<1>11. /\ IF Top.send THEN Write(Top.final, prev, Front(stack) \o <<f>>)
          ELSE active' = prev /\ stack' = Front(stack) \o <<f>> /\ sent' = sent
       /\ dropped' = dropped \cup (ToSet(active.text) \ (IF Top.send THEN ToSet(Top.final) ELSE {}))
  BY <1>7, <1>9 DEF End, End_With
<1>12. ToSet(active.text) = In(active.text) /\ ToSet(Top.final) = In(Top.final)
  BY <1>5, <1>6, ToSetIsIn
<1>13. \E u \in Texts :
          /\ Rises(u) /\ In(u) \subseteq In(active.text)
          /\ dropped' = dropped \cup (In(active.text) \ In(u))
          /\ IF level > 1
             THEN /\ active' = [Last(buffers) EXCEPT !.text = Last(buffers).text \o u]
                  /\ sent' = sent
             ELSE active' = active /\ sent' = sent \o u
  <2>1. CASE Top.send
    <3>1. Write(Top.final, prev, Front(stack) \o <<f>>)
          /\ dropped' = dropped \cup (In(active.text) \ In(Top.final))
      BY <1>11, <1>12, <2>1
    <3>2. CASE level > 1
      <4>1. /\ active' = [prev EXCEPT !.text = prev.text \o Top.final]
            /\ sent' = sent
        BY <1>4, <3>1, <3>2 DEF Write
      <4> QED
        BY <1>6, <1>10, <3>1, <3>2, <4>1
    <3>3. CASE ~(level > 1)
      BY <1>4, <1>6, <1>9, <3>1, <3>3 DEF Write
    <3> QED
      BY <3>2, <3>3
  <2>2. CASE ~Top.send
    <3>1. active' = prev /\ sent' = sent /\ dropped' = dropped \cup (In(active.text) \ In(<<>>))
      BY <1>11, <1>12, <2>2, NoPieces
    <3>2. sent \o <<>> = sent
      BY <1>5, ConcatEmptySeq DEF Texts
    <3>3. level > 1 => [prev EXCEPT !.text = prev.text \o <<>>] = prev
      <4>1. level > 1 => prev.text \o <<>> = prev.text
        BY <1>10, ConcatEmptySeq DEF Texts
      <4> QED
        BY <1>10, <4>1 DEF Buffers
    <3> QED
      BY <1>9, <1>10, <3>1, <3>2, <3>3, NoPieces
  <2> QED
    BY <2>1, <2>2
<1>14. \/ stack' = Front(stack) \o <<f>>
       \/ stack' = Append(Front(stack) \o <<f>>, Call(TRUE, TRUE)) /\ level > 1
  BY <1>4, <1>11 DEF Write
<1>15. sent' \in Texts
  BY <1>5, <1>13, JoinedText
<1> QED
  BY <1>1, <1>3, <1>4, <1>8, <1>13, <1>14, <1>15

LEMMA CallIsFrame ==
    ASSUME NEW send \in BOOLEAN, NEW flush \in BOOLEAN
    PROVE  /\ Call(send, flush) \in Frames /\ Call(send, flush).at = "enter"
           /\ NoBuffer \in Buffers /\ NoBuffer.id = 0
<1>1. NoBuffer \in Buffers /\ NoBuffer.id = 0
  BY NoPieces DEF NoBuffer, Buffers
<1>2. Call(send, flush) \in Frames /\ Call(send, flush).at = "enter"
  BY <1>1, NoPieces DEF Call, Frames
<1> QED
  BY <1>1, <1>2

\* What the buffers are when one has been taken off.
LEMMA EndBelow ==
    ASSUME Types, Good, level > 0,
           level' = level - 1, buffers' = (IF level > 1 THEN Front(buffers) ELSE buffers)
    PROVE  /\ level \in Nat /\ level' \in Nat /\ buffers' \in Seq(Buffers)
           /\ Len(buffers') <= Len(buffers) /\ Len(buffers) = level - 1
           /\ level' > 0 => Len(buffers') = level' - 1
           /\ level' = 0 => Len(buffers') = 0
           /\ level > 1 => /\ Last(buffers) = buffers[level - 1] /\ Last(buffers) \in Buffers
                           /\ level - 1 \in OfBuffers
                           /\ \A i \in OfBuffers' : i \in OfBuffers /\ i < level - 1
                                                    /\ buffers'[i] = buffers[i]
<1>1. level \in Nat /\ Len(buffers) = level - 1 /\ buffers \in Seq(Buffers)
  BY DEF Types, Good, Levels
<1>2. CASE level > 1
  <2>1. buffers # <<>>
    BY <1>1, <1>2, EmptySeq
  <2>2. /\ Front(buffers) \in Seq(Buffers) /\ Len(Front(buffers)) = Len(buffers) - 1
        /\ \A i \in 1 .. Len(buffers) - 1 : Front(buffers)[i] = buffers[i]
        /\ Last(buffers) = buffers[Len(buffers)] /\ Last(buffers) \in Buffers
    BY ONLY <1>1, <2>1, Popped
  <2>3. buffers' = Front(buffers)
    BY <1>2
  <2>4. Len(buffers') = level - 2
    BY <1>1, <2>2, <2>3
  <2>5. ASSUME NEW i \in OfBuffers'
        PROVE  i \in OfBuffers /\ i < level - 1 /\ buffers'[i] = buffers[i]
    <3>1. i \in 1 .. Len(buffers) - 1 /\ i \in 1 .. Len(buffers)
      BY <1>1, <2>4 DEF OfBuffers
    <3> QED
      BY <1>1, <2>2, <2>3, <3>1 DEF OfBuffers
  <2>6. level - 1 \in OfBuffers
    BY <1>1, <1>2 DEF OfBuffers
  <2> QED
    BY <1>1, <1>2, <2>2, <2>3, <2>4, <2>5, <2>6
<1>3. CASE ~(level > 1)
  BY <1>1, <1>3
<1> QED
  BY <1>2, <1>3

\* ... and their texts.
LEMMA EndTexts ==
    ASSUME Types, Good, phase # "over", level > 0,
           level' = level - 1, buffers' = (IF level > 1 THEN Front(buffers) ELSE buffers),
           active' \in Buffers, sent' \in Texts,
           NEW u \in Texts, Rises(u), In(u) \subseteq In(active.text),
           dropped' = dropped \cup (In(active.text) \ In(u)),
           IF level > 1 THEN active'.text = Last(buffers).text \o u /\ sent' = sent
           ELSE sent' = sent \o u,
           written' = written
    PROVE  /\ Order'
           /\ Every(Levelled, level)' = (1 .. written') \ dropped'
           /\ In(active.text) \subseteq 1 .. written
<1>1. /\ level \in Nat /\ level' \in Nat /\ buffers' \in Seq(Buffers)
      /\ Len(buffers) = level - 1 /\ (level' > 0 => Len(buffers') = level' - 1)
      /\ level > 1 => /\ Last(buffers) = buffers[level - 1] /\ level - 1 \in OfBuffers
                      /\ \A i \in OfBuffers' : i \in OfBuffers /\ buffers'[i] = buffers[i]
  BY EndBelow
<1>2. PICK t : t = Levelled
  OBVIOUS
<1>3. /\ t[0] = sent /\ t[level] = active.text
      /\ \A i \in 1 .. level - 1 : t[i] = buffers[i].text
      /\ \A i \in 0 .. level : t[i] \in Texts
  BY ONLY Types, <1>1, <1>2, level > 0, LevelwiseIs DEF Levelled, Types
<1>4. PICK v : v = Levelled'
  OBVIOUS
<1>5. /\ v[0] = sent' /\ (level' > 0 => v[level'] = active'.text)
      /\ \A i \in 1 .. level' - 1 : i \in 1 .. Len(buffers') /\ v[i] = buffers'[i].text
  BY <1>1, <1>4, LevelwiseIs DEF Levelled
<1>6. Ordered(t, level) /\ Every(t, level) = (1 .. written) \ dropped
  BY <1>2 DEF Good, Order, Complete
<1>7. PICK k \in Nat : k = level - 1 /\ level = k + 1
  BY <1>1
<1>8. \A i \in 0 .. k : i < k => v[i] = t[i]
  <2>1. ASSUME NEW i \in 0 .. k, i < k PROVE v[i] = t[i]
    <3>1. level > 1 /\ level' = k
      BY <1>7, <2>1
    <3>2. CASE i = 0
      BY <1>3, <1>5, <3>1, <3>2
    <3>3. CASE i # 0
      <4>1. i \in 1 .. level' - 1 /\ i \in 1 .. level - 1
        BY <1>7, <2>1, <3>1, <3>3
      <4>2. buffers'[i] = buffers[i]
        BY <1>1, <1>5, <3>1, <4>1 DEF OfBuffers
      <4> QED
        BY <1>3, <1>5, <4>1, <4>2
    <3> QED
      BY <3>2, <3>3
  <2> QED
    BY <2>1
<1>9. v[k] = t[k] \o u
  <2>1. CASE level > 1
    <3>1. v[k] = active'.text
      BY <1>1, <1>5, <1>7, <2>1
    <3>2. t[k] = buffers[k].text
      BY <1>3, <1>7, <2>1
    <3> QED
      BY <1>1, <1>7, <2>1, <3>1, <3>2
  <2>2. CASE ~(level > 1)
    <3>1. k = 0
      BY <1>7, <2>2
    <3> QED
      BY <1>3, <1>5, <2>2, <3>1
  <2> QED
    BY <2>1, <2>2
<1>10. Every(t, level) \subseteq Nat
  <2>1. written \in Nat
    BY DEF Types
  <2> QED
    BY <1>6, <2>1
<1>11. t[k] \in Texts
  BY <1>3, <1>7
<1>12. /\ Ordered(v, k)
       /\ Every(v, k) = Every(t, level) \ (In(t[level]) \ In(u))
  <2>1. PICK n \in Nat : n = level /\ n > 0 /\ n - 1 = k
    BY <1>1, <1>7
  <2>2. /\ \A i \in 0 .. n - 1 : i < n - 1 => v[i] = t[i]
        /\ v[n - 1] = t[n - 1] \o u
    BY <1>8, <1>9, <2>1
  <2>3. t[n - 1] \in Texts
    BY <1>11, <2>1
  <2>4. In(u) \subseteq In(t[n])
    BY <1>3, <2>1
  <2>5. Ordered(t, n) /\ Every(t, n) \subseteq Nat
    BY <1>6, <1>10, <2>1
  <2>6. n > 0
    BY <2>1
  <2>7. Ordered(v, n - 1) /\ Every(v, n - 1) = Every(t, n) \ (In(t[n]) \ In(u))
    BY ONLY <2>2, <2>3, <2>4, <2>5, <2>6, u \in Texts, Rises(u), Merged
  <2> QED
    BY <2>1, <2>7
<1>13. Every(v, k) = (1 .. written') \ dropped'
  BY <1>3, <1>6, <1>12
<1>14. In(active.text) \subseteq 1 .. written
  <2>1. level \in 0 .. level
    BY <1>1
  <2> QED
    BY <1>3, <1>6, <2>1 DEF Every
<1>15. Every(Levelled, level)' = Every(v, k) /\ Order'
  BY <1>4, <1>7, <1>12 DEF Order, Every
<1> QED
  BY <1>13, <1>14, <1>15

\* ... and the calls.
LEMMA EndStack ==
    ASSUME Types, CallsOK, stack # <<>>, NEW f \in Frames, f.at = "sent",
           \/ stack' = Front(stack) \o <<f>>
           \/ stack' = Append(Front(stack) \o <<f>>, Call(TRUE, TRUE)) /\ level > 1
    PROVE  /\ stack' \in Seq(Frames) /\ stack' # <<>> /\ Len(stack) \in Nat \ {0}
           /\ Waits' = Len(stack)
           /\ \/ \A at : Is(at)' <=> at = "sent"
              \/ (\A at : Is(at)' <=> at = "enter") /\ level > 1
           /\ \A i \in OfStack' : stack'[i].at = "sent" =>
                 \/ i \in OfStack /\ i < Len(stack) /\ stack'[i] = stack[i]
                 \/ i = Len(stack) /\ stack'[i] = f
           /\ \A i \in OfStack' : i < Len(stack') => stack'[i].at = "sent"
<1>1. PICK s : s = Front(stack) \o <<f>>
  OBVIOUS
<1>2. /\ s \in Seq(Frames) /\ Len(stack) \in Nat \ {0} /\ Len(s) = Len(stack) /\ s # <<>>
      /\ \A i \in 1 .. Len(stack) : i < Len(stack) => s[i] = stack[i]
      /\ s[Len(stack)] = f
  BY <1>1, Replaced DEF Types
<1>3. \A i \in 1 .. Len(stack) : i < Len(stack) => s[i] = stack[i] /\ s[i].at = "sent"
  BY <1>2 DEF CallsOK, OfStack
<1>4. \A i \in 1 .. Len(stack) : i < Len(stack) \/ i = Len(stack)
  BY <1>2
<1>5. \A i \in 1 .. Len(stack) : s[i].at = "sent"
  BY <1>2, <1>3, <1>4
<1>6. CASE stack' = s
  <2>1. \A at : Is(at)' <=> at = "sent"
    BY <1>2, <1>6 DEF Is
  <2>2. Waits' = Len(stack)
    BY <1>2, <1>6, <2>1 DEF Waits
  <2> QED
    BY <1>2, <1>3, <1>4, <1>5, <1>6, <2>1, <2>2 DEF OfStack
<1>7. CASE stack' = Append(s, Call(TRUE, TRUE)) /\ level > 1
  <2>1. Call(TRUE, TRUE) \in Frames /\ Call(TRUE, TRUE).at = "enter"
    BY CallIsFrame
  <2>2. PICK c : c = Call(TRUE, TRUE)
    OBVIOUS
  <2>3. /\ stack' \in Seq(Frames) /\ Len(stack') = Len(s) + 1 /\ stack' # <<>>
        /\ \A i \in 1 .. Len(s) : stack'[i] = s[i]
        /\ stack'[Len(s) + 1] = c
    <3>1. c \in Frames /\ s \in Seq(Frames)
      BY <1>2, <2>1, <2>2
    <3>2. PICK h : h = Append(s, c)
      OBVIOUS
    <3>3. /\ h \in Seq(Frames) /\ Len(h) = Len(s) + 1 /\ h # <<>>
          /\ \A i \in 1 .. Len(s) : h[i] = s[i]
          /\ h[Len(s) + 1] = c
      BY ONLY <3>1, <3>2, Pushed
    <3> QED
      BY <1>7, <2>2, <3>2, <3>3
  <2>4. \A at : Is(at)' <=> at = "enter"
    BY <2>1, <2>2, <2>3 DEF Is
  <2>5. Waits' = Len(stack)
    BY <1>2, <2>3, <2>4 DEF Waits
  <2>6. \A i \in 1 .. Len(stack') : i \in 1 .. Len(stack) \/ i = Len(stack) + 1
    BY <1>2, <2>3
  <2>7. \A i \in OfStack' : stack'[i].at = "sent" =>
                 \/ i \in OfStack /\ i < Len(stack) /\ stack'[i] = stack[i]
                 \/ i = Len(stack) /\ stack'[i] = f
    <3>1. ASSUME NEW i \in 1 .. Len(stack'), stack'[i].at = "sent"
          PROVE  \/ i \in 1 .. Len(stack) /\ i < Len(stack) /\ stack'[i] = stack[i]
                 \/ i = Len(stack) /\ stack'[i] = f
      <4>1. i # Len(stack) + 1
        BY <1>2, <2>1, <2>2, <2>3, <3>1
      <4>2. i \in 1 .. Len(stack) /\ stack'[i] = s[i]
        BY <1>2, <2>3, <2>6, <4>1
      <4> QED
        BY <1>2, <1>4, <4>2
    <3> QED
      BY <3>1 DEF OfStack
  <2>8. \A i \in OfStack' : i < Len(stack') => stack'[i].at = "sent"
    <3>1. ASSUME NEW i \in 1 .. Len(stack'), i < Len(stack') PROVE stack'[i].at = "sent"
      <4>1. i \in 1 .. Len(stack)
        BY <1>2, <2>3, <3>1
      <4> QED
        BY <1>2, <1>5, <2>3, <4>1
    <3> QED
      BY <3>1 DEF OfStack
  <2> QED
    BY <1>2, <1>7, <2>3, <2>4, <2>5, <2>7, <2>8
<1> QED
  BY <1>1, <1>6, <1>7

\* The buffer below is active for the time it takes to send it the output.
LEMMA EndKeeps == ASSUME IInv, End PROVE IInv'
<1>1. /\ ~reentered /\ stack # <<>> /\ Is("end") /\ level > 0
      /\ level' = level - 1 /\ (buffered' <=> level > 1) /\ sent' \in Texts
      /\ buffers' = (IF level > 1 THEN Front(buffers) ELSE buffers)
      /\ lock' = lock /\ phase' = phase /\ written' = written /\ started' = started
      /\ returned' = returned /\ ended' = ended /\ bailed' = bailed
      /\ reentered' = reentered /\ buffered' \in BOOLEAN
  BY EndEffects
<1>2. PICK u \in Texts :
        /\ Rises(u) /\ In(u) \subseteq In(active.text)
        /\ dropped' = dropped \cup (In(active.text) \ In(u))
        /\ IF level > 1
           THEN /\ active' = [Last(buffers) EXCEPT !.text = Last(buffers).text \o u]
                /\ sent' = sent
           ELSE active' = active /\ sent' = sent \o u
  BY EndEffects
<1>3. PICK f \in Frames :
        /\ f.at = "sent" /\ f.flush = Top.flush /\ f.saved = active
        /\ \/ stack' = Front(stack) \o <<f>>
           \/ stack' = Append(Front(stack) \o <<f>>, Call(TRUE, TRUE)) /\ level > 1
  BY EndEffects
<1>4. Types /\ Histories /\ Good
  BY <1>1 DEF IInv
<1>5. CallsOK /\ Levels /\ Ids /\ Statuses /\ BufferIds
  BY <1>1, <1>4 DEF Good, Ids
<1>6. /\ stack' \in Seq(Frames) /\ stack' # <<>> /\ Len(stack) \in Nat \ {0}
      /\ Waits' = Len(stack)
      /\ \/ \A at : Is(at)' <=> at = "sent"
         \/ (\A at : Is(at)' <=> at = "enter") /\ level > 1
      /\ \A i \in OfStack' : stack'[i].at = "sent" =>
            \/ i \in OfStack /\ i < Len(stack) /\ stack'[i] = stack[i]
            \/ i = Len(stack) /\ stack'[i] = f
      /\ \A i \in OfStack' : i < Len(stack') => stack'[i].at = "sent"
  BY <1>1, <1>3, <1>4, <1>5, EndStack
<1>7. ~Is("handler") /\ ~Is("sent") /\ ~Is("handler")' /\ ~Is("end")'
  BY <1>1, <1>4, <1>6, TopIs
<1>8. /\ level \in Nat /\ level' \in Nat /\ buffers' \in Seq(Buffers)
      /\ Len(buffers') <= Len(buffers) /\ Len(buffers) = level - 1
      /\ level' > 0 => Len(buffers') = level' - 1
      /\ level' = 0 => Len(buffers') = 0
      /\ level > 1 => /\ Last(buffers) = buffers[level - 1] /\ Last(buffers) \in Buffers
                      /\ level - 1 \in OfBuffers
                      /\ \A i \in OfBuffers' : i \in OfBuffers /\ i < level - 1
                                               /\ buffers'[i] = buffers[i]
  BY <1>1, <1>4, EndBelow
<1>9. level > 1 => /\ active' \in Buffers /\ active'.text = Last(buffers).text \o u
                   /\ active'.id = buffers[level - 1].id
                   /\ active'.status = buffers[level - 1].status
                   /\ active'.handler = buffers[level - 1].handler
  <2>1. ASSUME level > 1 PROVE Last(buffers).text \o u \in Texts
    <3>1. Last(buffers).text \in Texts
      BY <1>8, <2>1 DEF Buffers
    <3> QED
      BY <3>1, JoinedText
  <2>2. ASSUME level > 1
        PROVE  /\ active' \in Buffers /\ active'.text = Last(buffers).text \o u
               /\ active'.id = Last(buffers).id
               /\ active'.status = Last(buffers).status
               /\ active'.handler = Last(buffers).handler
    <3>1. PICK l \in Buffers : l = Last(buffers)
      BY <1>8, <2>2
    <3>2. PICK x \in Texts : x = Last(buffers).text \o u
      BY <2>1, <2>2
    <3>3. active' = [l EXCEPT !.text = x]
      BY <1>2, <2>2, <3>1, <3>2
    <3> QED
      BY <3>1, <3>2, <3>3 DEF Buffers
  <2> QED
    BY <1>8, <2>2
<1>10. active' \in Buffers
  BY <1>2, <1>4, <1>9 DEF Types
<1>11. phase # "over"
  BY <1>1, <1>5 DEF CallsOK
<1>12. /\ Order' /\ Every(Levelled, level)' = (1 .. written') \ dropped'
       /\ In(active.text) \subseteq 1 .. written
  <2>1. IF level > 1 THEN active'.text = Last(buffers).text \o u /\ sent' = sent
        ELSE sent' = sent \o u
    BY <1>2, <1>9
  <2> QED
    BY <1>1, <1>2, <1>4, <1>10, <1>11, <2>1, EndTexts
<1>13. Complete' /\ Over'
  BY <1>1, <1>11, <1>12 DEF Complete, Over
<1>14. Types'
  <2>1. level' <= started' /\ Len(buffers') <= started'
    BY <1>1, <1>4, <1>8, LenProperties DEF Types
  <2>2. buffered' \in BOOLEAN
    BY <1>1
  <2> QED
    BY ONLY <1>1, <1>4, <1>6, <1>8, <1>10, <2>1, <2>2 DEF Types
<1>15. Histories'
  BY <1>1, <1>2, <1>4, <1>12 DEF Histories
<1>16. CallsOK'
  <2>1. ~bailed' => (lock' <=> Is("handler")')
    BY <1>1, <1>5, <1>7 DEF CallsOK, Is
  <2> QED
    BY <1>1, <1>6, <1>7, <1>11, <2>1 DEF CallsOK
<1>17. Levels'
  <2>1. level' + Waits' <= started'
    BY <1>1, <1>4, <1>5, <1>6, <1>7, <1>8 DEF Levels, Waits, Types
  <2>2. (buffered' <=> level' > 0)
    BY <1>1, <1>8
  <2>3. level' = 0 => Is("sent")'
    BY <1>1, <1>6, <1>8
  <2> QED
    BY <1>8, <2>1, <2>2, <2>3 DEF Levels
<1>18. Ids'
  <2>1. ASSUME level' > 0 PROVE BufferIds'
    <3>1. level > 1
      BY <1>1, <1>8, <2>1
    <3>2. active'.id \in 1 .. started'
      BY <1>1, <1>5, <1>8, <1>9, <3>1 DEF BufferIds
    <3>3. ASSUME NEW i \in OfBuffers'
          PROVE  buffers'[i].id \in 1 .. started' /\ buffers'[i].id < active'.id
      BY <1>1, <1>5, <1>8, <1>9, <3>1 DEF BufferIds
    <3>4. ASSUME NEW i \in OfBuffers', NEW j \in OfBuffers', i < j
          PROVE  buffers'[i].id < buffers'[j].id
      BY <1>5, <1>8, <3>1, <3>4 DEF BufferIds
    <3> QED
      BY <3>2, <3>3, <3>4 DEF BufferIds
  <2>2. level' > 0 => active'.id \in Nat /\ active'.id < active.id
    BY <1>1, <1>5, <1>8, <1>9 DEF BufferIds
  <2>3. active.id \in 1 .. started /\ started \in Nat
    BY <1>4, <1>5 DEF BufferIds, Types
  <2>4. ASSUME NEW i \in OfStack', stack'[i].at = "sent"
        PROVE  /\ stack'[i].saved.id \in 1 .. started'
               /\ active.id <= stack'[i].saved.id
               /\ level' > 0 => active'.id < stack'[i].saved.id
    <3>1. stack'[i].saved.id \in 1 .. started /\ active.id <= stack'[i].saved.id
      <4>1. CASE i \in OfStack /\ i < Len(stack) /\ stack'[i] = stack[i]
        <5>1. stack[i].at = "sent"
          BY <2>4, <4>1
        <5>2. stack[i].saved.id \in 1 .. started /\ active.id < stack[i].saved.id
          BY <1>1, <1>5, <4>1, <5>1 DEF Ids
        <5> QED
          BY <2>3, <4>1, <5>2
      <4>2. CASE i = Len(stack) /\ stack'[i] = f
        BY <1>3, <2>3, <4>2
      <4> QED
        BY <1>6, <2>4, <4>1, <4>2
    <3> QED
      BY <1>1, <2>2, <2>3, <3>1
  <2>5. ASSUME NEW i \in OfStack', NEW j \in OfStack', i < j,
               stack'[i].at = "sent", stack'[j].at = "sent"
        PROVE  stack'[j].saved.id < stack'[i].saved.id
    <3>1. i \in OfStack /\ i < Len(stack) /\ stack'[i] = stack[i]
      <4>1. j \in OfStack \/ j = Len(stack)
        BY <1>6, <2>5
      <4>2. i # Len(stack)
        BY <1>6, <2>5, <4>1 DEF OfStack
      <4> QED
        BY <1>6, <2>5, <4>2
    <3>2. CASE j \in OfStack /\ j < Len(stack) /\ stack'[j] = stack[j]
      BY <1>5, <2>5, <3>1, <3>2 DEF Ids
    <3>3. CASE j = Len(stack) /\ stack'[j] = f
      <4>1. stack[i].at = "sent"
        BY <2>5, <3>1
      <4>2. active.id < stack[i].saved.id
        BY <1>1, <1>5, <3>1, <4>1 DEF Ids
      <4> QED
        BY <1>3, <3>1, <3>3, <4>2
    <3> QED
      BY <1>6, <2>5, <3>2, <3>3
  <2> QED
    BY <2>1, <2>4, <2>5 DEF Ids
<1>19. Statuses'
  <2>1. ASSUME level' > 0
        PROVE  Honest(active)' /\ \A i \in OfBuffers' : Honest(buffers[i])'
    <3>1. level > 1
      BY <1>1, <1>8, <2>1
    <3>2. \A i \in OfBuffers : Honest(buffers[i])
      BY <1>1, <1>5 DEF Statuses
    <3>3. Honest(active)'
      BY <1>1, <1>8, <1>9, <3>1, <3>2 DEF Honest
    <3>4. ASSUME NEW i \in OfBuffers' PROVE Honest(buffers[i])'
      BY <1>1, <1>8, <3>1, <3>2 DEF Honest
    <3> QED
      BY <3>3, <3>4
  <2>2. ASSUME NEW i \in OfStack', stack'[i].at = "sent", stack'[i].flush, stack'[i].saved.handler
        PROVE  stack'[i].saved.id \in returned' /\ stack'[i].saved.id \notin ended'
    <3>1. CASE i \in OfStack /\ i < Len(stack) /\ stack'[i] = stack[i]
      BY <1>1, <1>5, <2>2, <3>1 DEF Statuses
    <3>2. CASE i = Len(stack) /\ stack'[i] = f
      <4>1. Top.flush /\ active.handler
        BY <1>3, <2>2, <3>2
      <4> QED
        BY <1>1, <1>3, <1>5, <3>2, <4>1 DEF Statuses
    <3> QED
      BY <1>6, <2>2, <3>1, <3>2
  <2> QED
    BY <1>7, <2>1, <2>2 DEF Statuses
<1>20. Handled' /\ ~reentered'
  BY <1>1, <1>7 DEF Handled
<1> QED
  BY <1>12, <1>13, <1>14, <1>15, <1>16, <1>17, <1>18, <1>19, <1>20 DEF IInv, Good

-----------------------------------------------------------------------------
(* A buffer more *)

\* The active one comes on the stack of buffers.
Raised ==
    /\ level' = level + 1 /\ buffers' \in Seq(Buffers) /\ active' \in Buffers
    /\ level = 0 => Len(buffers') = 0
    /\ level > 0 => /\ Len(buffers') = level /\ buffers'[level] = active
                    /\ \A i \in 1 .. level - 1 : buffers'[i] = buffers[i]

LEMMA RaisedTexts ==
    ASSUME Types, Good, Raised, active'.text = <<>>, sent' = sent
    PROVE  Order' /\ Every(Levelled, level)' = Every(Levelled, level)
<1>1. /\ level \in Nat /\ (level > 0 => Len(buffers) = level - 1)
      /\ level' \in Nat /\ level' = level + 1 /\ Len(buffers') = level' - 1
      /\ level > 0 => /\ buffers'[level] = active
                      /\ \A i \in 1 .. level - 1 : buffers'[i] = buffers[i]
  BY DEF Types, Good, Levels, Raised
<1>2. PICK t : t = Levelled
  OBVIOUS
<1>3. /\ t[0] = sent /\ (level > 0 => t[level] = active.text)
      /\ \A i \in 1 .. level - 1 : t[i] = buffers[i].text
  BY ONLY Types, <1>1, <1>2, LevelwiseIs DEF Levelled, Types
<1>4. PICK v : v = Levelled'
  OBVIOUS
<1>5. /\ v[0] = sent /\ v[level + 1] = <<>>
      /\ \A i \in 1 .. level : v[i] = buffers'[i].text
  <2>1. sent \in Texts /\ level' > 0 /\ level' - 1 = level
    BY <1>1 DEF Types
  <2>2. buffers' \in Seq(Buffers) /\ active' \in Buffers
    BY DEF Raised
  <2>3. /\ v[0] = sent' /\ v[level'] = active'.text
        /\ \A i \in 1 .. level' - 1 : v[i] = buffers'[i].text
    BY ONLY <1>1, <1>4, <2>1, <2>2, sent' = sent, LevelwiseIs DEF Levelled
  <2> QED
    BY <1>1, <2>1, <2>3
<1>6. \A i \in 0 .. level : v[i] = t[i]
  <2>1. ASSUME NEW i \in 0 .. level PROVE v[i] = t[i]
    <3>1. CASE i = 0
      BY <1>3, <1>5, <3>1
    <3>2. CASE i # 0 /\ i = level
      <4>1. level > 0 /\ level \in 1 .. level
        BY <1>1, <3>2
      <4> QED
        BY <1>1, <1>3, <1>5, <3>2, <4>1
    <3>3. CASE i # 0 /\ i # level
      <4>1. level > 0 /\ i \in 1 .. level - 1 /\ i \in 1 .. level
        BY <1>1, <3>3
      <4> QED
        BY <1>1, <1>3, <1>5, <4>1
    <3> QED
      BY <3>1, <3>2, <3>3
  <2> QED
    BY <2>1
<1>7. Ordered(t, level)
  BY <1>2 DEF Good, Order
<1>8. Ordered(v, level + 1) /\ Every(v, level + 1) = Every(t, level)
  <2>1. PICK n \in Nat : n = level
    BY <1>1
  <2>2. Ordered(t, n) /\ (\A i \in 0 .. n : v[i] = t[i]) /\ v[n + 1] = <<>>
    BY <1>5, <1>6, <1>7, <2>1
  <2>3. Ordered(v, n + 1) /\ Every(v, n + 1) = Every(t, n)
    BY ONLY <2>2, NewLevel
  <2> QED
    BY <2>1, <2>3
<1>9. Order' /\ Every(Levelled, level)' = Every(v, level + 1)
  BY <1>1, <1>4, <1>8 DEF Order, Every
<1> QED
  BY <1>2, <1>8, <1>9

LEMMA RaisedBuffers ==
    ASSUME Types, Good, Raised, ~Is("end"), returned' = returned, ended' = ended,
           active'.id \in 1 .. started', level > 0 => active.id < active'.id,
           started' \in Nat, started <= started'
    PROVE  BufferIds' /\ \A i \in OfBuffers' : Honest(buffers[i])'
<1>1. /\ level \in Nat /\ (level > 0 => Len(buffers) = level - 1 /\ BufferIds)
      /\ Len(buffers') = level /\ started \in Nat
      /\ level > 0 => /\ buffers'[level] = active
                      /\ \A i \in 1 .. level - 1 : buffers'[i] = buffers[i]
  BY DEF Types, Good, Levels, Ids, Raised
<1>2. CASE level = 0
  <2>1. OfBuffers' = {}
    BY <1>1, <1>2 DEF OfBuffers
  <2> QED
    BY <2>1 DEF BufferIds
<1>3. CASE level > 0
  <2>1. Honest(active) /\ \A i \in OfBuffers : Honest(buffers[i])
    BY <1>3 DEF Good, Statuses
  <2>2. BufferIds /\ active.id < active'.id /\ active.id \in 1 .. started
    BY <1>1, <1>3 DEF BufferIds
  <2>3. \A i \in OfBuffers' :
          \/ i = level /\ buffers'[i] = active
          \/ i < level /\ i \in OfBuffers /\ buffers'[i] = buffers[i]
    <3>1. ASSUME NEW i \in 1 .. Len(buffers'), i # level
          PROVE  i < level /\ i \in 1 .. Len(buffers) /\ i \in 1 .. level - 1
      BY <1>1, <1>3, <3>1
    <3> QED
      BY <1>1, <1>3, <3>1 DEF OfBuffers
  <2>4. ASSUME NEW i \in OfBuffers' PROVE Honest(buffers[i])'
    <3>1. PICK b : b = buffers'[i] /\ (b.handler => (b.status <=> b.id \in returned) /\ b.id \notin ended)
      BY <2>1, <2>3 DEF Honest
    <3> QED
      BY <3>1 DEF Honest
  <2>5. ASSUME NEW i \in OfBuffers'
        PROVE  buffers'[i].id \in 1 .. started /\ buffers'[i].id <= active.id
    <3>1. CASE buffers'[i] = active
      BY <1>1, <2>2, <3>1
    <3>2. CASE i \in OfBuffers /\ buffers'[i] = buffers[i]
      BY <1>1, <2>2, <3>2 DEF BufferIds
    <3> QED
      BY <2>3, <3>1, <3>2
  <2>6. \A i \in OfBuffers' : buffers'[i].id \in 1 .. started' /\ buffers'[i].id < active'.id
    BY <1>1, <2>2, <2>5
  <2>7. ASSUME NEW i \in OfBuffers', NEW j \in OfBuffers', i < j
        PROVE  buffers'[i].id < buffers'[j].id
    <3>1. i < level /\ i \in OfBuffers /\ buffers'[i] = buffers[i]
      <4>1. i # level
        BY <1>1, <2>3, <2>7 DEF OfBuffers
      <4> QED
        BY <2>3, <4>1
    <3>2. CASE j = level /\ buffers'[j] = active
      BY <2>2, <3>1, <3>2 DEF BufferIds
    <3>3. CASE j \in OfBuffers /\ buffers'[j] = buffers[j]
      BY <2>2, <2>7, <3>1, <3>3 DEF BufferIds
    <3> QED
      BY <2>3, <3>2, <3>3
  <2> QED
    BY <2>4, <2>6, <2>7 DEF BufferIds
<1> QED
  BY <1>1, <1>2, <1>3

\* The call returns: the one below waits, too.
LEMMA TopReturns ==
    ASSUME Types, CallsOK, Is("sent"), stack' = Front(stack)
    PROVE  /\ stack' \in Seq(Frames) /\ Len(stack) \in Nat \ {0} /\ Top = stack[Len(stack)]
           /\ Top \in Frames /\ Top.at = "sent" /\ Len(stack) \in OfStack
           /\ Len(stack') = Len(stack) - 1 /\ Waits' = Len(stack) - 1
           /\ \A i \in OfStack' : /\ i \in OfStack /\ i < Len(stack)
                                  /\ stack'[i] = stack[i] /\ stack'[i].at = "sent"
           /\ \A at : Is(at)' => at = "sent"
           /\ stack' # <<>> => Is("sent")'
<1>1. stack # <<>>
  BY DEF Is
<1>2. /\ stack' \in Seq(Frames) /\ Len(stack) \in Nat \ {0} /\ Len(stack') = Len(stack) - 1
      /\ \A i \in 1 .. Len(stack) - 1 : stack'[i] = stack[i]
  BY <1>1, Popped DEF Types
<1>3. Top = stack[Len(stack)] /\ Top \in Frames /\ Top.at = "sent" /\ Len(stack) \in OfStack
  BY <1>1, TopIs
<1>4. \A i \in OfStack' : /\ i \in OfStack /\ i < Len(stack)
                          /\ stack'[i] = stack[i] /\ stack'[i].at = "sent"
  <2>1. ASSUME NEW i \in 1 .. Len(stack')
        PROVE  i \in 1 .. Len(stack) - 1 /\ i \in 1 .. Len(stack) /\ i < Len(stack)
    BY <1>2
  <2> QED
    BY <1>2, <2>1 DEF CallsOK, OfStack
<1>5. stack' # <<>> => Len(stack') \in OfStack'
  BY <1>2, EmptySeq DEF OfStack
<1>6. (\A at : Is(at)' => at = "sent") /\ (stack' # <<>> => Is("sent")')
  BY <1>4, <1>5 DEF Is
<1>7. Waits' = Len(stack) - 1
  BY <1>2, <1>6 DEF Waits
<1> QED
  BY <1>2, <1>3, <1>4, <1>6, <1>7

\* After a flush the buffer is active again, empty and no longer new; one that has
\* been ended is gone.
LEMMA SentKeeps == ASSUME IInv, Sent PROVE IInv'
<1>1. /\ ~reentered /\ stack # <<>> /\ Top.at = "sent" /\ stack' = Front(stack)
      /\ lock' = lock /\ sent' = sent /\ phase' = phase /\ written' = written
      /\ started' = started /\ dropped' = dropped /\ returned' = returned /\ ended' = ended
      /\ bailed' = bailed /\ reentered' = reentered
  BY DEF Sent, Sent_Then, InEnd, past
<1>2. Types /\ Histories /\ Good
  BY <1>1 DEF IInv
<1>3. Is("sent") /\ ~Is("end") /\ ~Is("handler")
  BY <1>1, <1>2, TopIs
<1>4. CallsOK /\ Levels /\ Ids /\ Statuses
  BY <1>2 DEF Good
<1>5. /\ stack' \in Seq(Frames) /\ Len(stack) \in Nat \ {0} /\ Top = stack[Len(stack)]
      /\ Top \in Frames /\ Top.at = "sent" /\ Len(stack) \in OfStack
      /\ Len(stack') = Len(stack) - 1 /\ Waits' = Len(stack) - 1
      /\ \A i \in OfStack' : /\ i \in OfStack /\ i < Len(stack)
                             /\ stack'[i] = stack[i] /\ stack'[i].at = "sent"
      /\ \A at : Is(at)' => at = "sent"
      /\ stack' # <<>> => Is("sent")'
  BY <1>1, <1>2, <1>3, <1>4, TopReturns
<1>6. phase # "over" /\ ~Is("handler")' /\ ~Is("end")'
  BY <1>1, <1>4, <1>5 DEF CallsOK
<1>7. CallsOK'
  <2>1. ~bailed' => (lock' <=> Is("handler")')
    BY <1>1, <1>3, <1>4, <1>6 DEF CallsOK, Is
  <2> QED
    BY <1>1, <1>5, <1>6, <2>1 DEF CallsOK
<1>8. Handled' /\ Histories' /\ Over' /\ ~reentered'
  BY <1>1, <1>2, <1>6 DEF Handled, Histories, Over
<1>9. \A i, j \in OfStack' : i < j =>
         stack'[j].saved.id < stack'[i].saved.id
  <2>1. ASSUME NEW i \in OfStack', NEW j \in OfStack', i < j
        PROVE  stack'[j].saved.id < stack'[i].saved.id
    <3>1. /\ i \in OfStack /\ stack'[i] = stack[i] /\ stack[i].at = "sent"
          /\ j \in OfStack /\ stack'[j] = stack[j] /\ stack[j].at = "sent"
      BY <1>5
    <3>2. stack[j].saved.id < stack[i].saved.id
      BY <1>4, <2>1, <3>1 DEF Ids
    <3> QED
      BY <3>1, <3>2
  <2> QED
    BY <2>1
<1>10. \A i \in OfStack' : stack'[i].flush /\ stack'[i].saved.handler =>
          stack'[i].saved.id \in returned' /\ stack'[i].saved.id \notin ended'
  BY <1>1, <1>4, <1>5 DEF Statuses
<1>11. level \in Nat /\ started \in Nat /\ level + Len(stack) <= started
  BY <1>2, <1>3, <1>4 DEF Types, Levels, Waits
<1>12. CASE Top.flush
  <2>1. PICK b : b = [Top.saved EXCEPT !.text = <<>>, !.status = TRUE]
    OBVIOUS
  <2>2. Top.saved \in Buffers
    BY <1>5 DEF Frames
  <2>3. /\ b \in Buffers /\ b.text = <<>> /\ b.status = TRUE /\ b.id = Top.saved.id
        /\ b.handler = Top.saved.handler
    BY <2>1, <2>2, NoPieces DEF Buffers
  <2>4. /\ active' = b /\ level' = level + 1 /\ buffered' = TRUE
        /\ buffers' = IF level > 0 THEN Append(buffers, active) ELSE buffers
    BY <1>12, <2>1 DEF Sent, Sent_Then, Resume
  <2>5. Raised
    <3>1. CASE level > 0
      <4>1. /\ buffers' \in Seq(Buffers) /\ Len(buffers') = Len(buffers) + 1
            /\ \A i \in 1 .. Len(buffers) : buffers'[i] = buffers[i]
            /\ buffers'[Len(buffers) + 1] = active
        BY <1>2, <2>4, <3>1, Pushed DEF Types
      <4>2. Len(buffers) = level - 1
        BY <1>4, <3>1 DEF Levels
      <4>3. Len(buffers') = level /\ buffers'[level] = active
            /\ \A i \in 1 .. level - 1 : buffers'[i] = buffers[i]
        BY <1>11, <4>1, <4>2
      <4> QED
        BY <1>11, <2>3, <2>4, <3>1, <4>1, <4>3 DEF Raised
    <3>2. CASE ~(level > 0)
      <4>1. level = 0 /\ buffers' = buffers /\ Len(buffers) = 0 /\ buffers \in Seq(Buffers)
        BY <1>1, <1>2, <1>4, <1>11, <2>4, <3>2 DEF Levels, Types
      <4> QED
        BY <2>3, <2>4, <4>1 DEF Raised
    <3> QED
      BY <3>1, <3>2
  <2>6. Order' /\ Complete'
    <3>1. Order' /\ Every(Levelled, level)' = Every(Levelled, level)
      BY <1>1, <1>2, <2>3, <2>4, <2>5, RaisedTexts
    <3> QED
      BY <1>1, <1>2, <3>1 DEF Good, Complete
  <2>7. /\ Top.saved.id \in 1 .. started
        /\ level > 0 => active.id < Top.saved.id
        /\ \A i \in OfStack' : Top.saved.id < stack'[i].saved.id
    <3>1. ASSUME NEW i \in OfStack' PROVE Top.saved.id < stack'[i].saved.id
      BY <1>4, <1>5 DEF Ids
    <3> QED
      BY <1>4, <1>5, <3>1 DEF Ids
  <2>8. BufferIds' /\ \A i \in OfBuffers' : Honest(buffers[i])'
    <3>1. started' \in Nat /\ started <= started'
      BY <1>1, <1>11
    <3>2. active'.id \in 1 .. started' /\ (level > 0 => active.id < active'.id)
      BY <1>1, <2>3, <2>4, <2>7
    <3> QED
      BY <1>1, <1>2, <1>3, <2>5, <3>1, <3>2, RaisedBuffers
  <2>9. Honest(active)'
    <3>1. b.handler => b.id \in returned /\ b.id \notin ended
      BY <1>4, <1>5, <1>12, <2>3 DEF Statuses
    <3> QED
      BY <1>1, <2>3, <2>4, <3>1 DEF Honest
  <2>10. Len(buffers') = level' - 1 /\ level' > 0 /\ level' + Waits' <= started'
         /\ level' <= started' /\ Len(buffers') <= started' /\ level' \in Nat
    BY <1>1, <1>5, <1>11, <2>5 DEF Raised
  <2>11. Types'
    <3>1. buffers' \in Seq(Buffers) /\ active' \in Buffers /\ buffered' \in BOOLEAN
      BY <2>4, <2>5 DEF Raised
    <3>2. /\ lock' \in BOOLEAN /\ sent' \in Texts /\ phase' \in Phases /\ written' \in Nat
          /\ started' \in Nat /\ bailed' \in BOOLEAN /\ reentered' \in BOOLEAN
      BY <1>1, <1>2 DEF Types
    <3>3. stack' \in Seq(Frames)
      BY <1>5
    <3> QED
      BY ONLY <2>10, <3>1, <3>2, <3>3 DEF Types
  <2>12. Levels'
    <3>1. (buffered' <=> level' > 0)
      BY <2>4, <2>10
    <3> QED
      BY ONLY <2>10, <3>1 DEF Levels
  <2>13. Ids'
    <3>1. ASSUME NEW i \in OfStack'
          PROVE  stack'[i].saved.id \in 1 .. started' /\ active'.id < stack'[i].saved.id
      BY <1>1, <1>4, <1>5, <2>3, <2>4, <2>7 DEF Ids
    <3> QED
      BY <1>9, <2>8, <3>1 DEF Ids
  <2>14. Statuses'
    BY <1>6, <1>10, <2>8, <2>9 DEF Statuses
  <2> QED
    BY <1>7, <1>8, <2>6, <2>11, <2>12, <2>13, <2>14 DEF IInv, Good
<1>13. CASE ~Top.flush
  <2>1. /\ active' = (IF level = 0 THEN NoBuffer ELSE active)
        /\ level' = level /\ buffers' = buffers /\ buffered' = buffered
    BY <1>13 DEF Sent, Sent_Then
  <2>2. active' \in Buffers
    BY <1>2, <2>1, CallIsFrame DEF Types
  <2>3. Types'
    BY <1>1, <1>2, <1>5, <2>1, <2>2 DEF Types
  <2>4. Levels'
    <3>1. level' + Waits' <= started'
      BY <1>1, <1>5, <1>11, <2>1
    <3> QED
      BY <1>1, <1>4, <1>5, <2>1, <3>1 DEF Levels
  <2>5. level > 0 => active' = active
    BY <2>1
  <2>6. Ids'
    <3>1. BufferIds /\ level > 0 => BufferIds'
      BY ONLY <1>1, <2>1, <2>5 DEF BufferIds, OfBuffers
    <3>2. ASSUME NEW i \in OfStack'
          PROVE  /\ stack'[i].saved.id \in 1 .. started'
                 /\ level' > 0 => active'.id < stack'[i].saved.id
      BY <1>1, <1>4, <1>5, <2>1, <2>5 DEF Ids
    <3> QED
      BY <1>4, <1>9, <2>1, <3>1, <3>2 DEF Ids
  <2>7. Statuses'
    <3>1. level > 0 => Honest(active)' /\ \A i \in OfBuffers' : Honest(buffers[i])'
      BY <1>1, <1>3, <1>4, <2>1, <2>5 DEF Statuses, Honest, OfBuffers
    <3> QED
      BY <1>6, <1>10, <2>1, <3>1 DEF Statuses
  <2>8. Levelled' = Levelled
    BY <1>1, <1>11, <2>1, <2>5 DEF Levelled, Levelwise
  <2>9. Order' /\ Complete'
    BY <1>1, <1>2, <2>1, <2>8 DEF Good, Order, Complete
  <2> QED
    BY <1>7, <1>8, <2>3, <2>4, <2>6, <2>7, <2>9 DEF IInv, Good
<1> QED
  BY <1>12, <1>13

-----------------------------------------------------------------------------
(* What scripts and handlers do *)

\* Who runs.
LEMMA InCodeIs ==
    ASSUME IInv, InScript \/ InHandler
    PROVE  /\ ~reentered /\ phase # "over" /\ Types /\ Histories /\ Good
           /\ \/ InScript /\ stack = <<>> /\ (\A at : ~Is(at))
              \/ InHandler /\ stack # <<>> /\ Is("handler")
           /\ ~Is("end") /\ ~Is("sent")
<1>1. ~reentered
  BY DEF InScript, InHandler, InEnd
<1>2. Types /\ Histories /\ Good
  BY <1>1 DEF IInv
<1>3. CASE InScript
  <2>1. stack = <<>> /\ phase # "over"
    BY <1>3 DEF InScript
  <2>2. \A at : ~Is(at)
    BY <2>1, NoTop
  <2> QED
    BY <1>1, <1>2, <1>3, <2>1, <2>2
<1>4. CASE InHandler
  <2>1. stack # <<>> /\ Top.at = "handler"
    BY <1>4 DEF InHandler, InEnd
  <2>2. Is("handler") /\ ~Is("end") /\ ~Is("sent")
    BY <1>2, <2>1, TopIs
  <2>3. phase # "over"
    BY <1>2, <2>1 DEF Good, CallsOK
  <2> QED
    BY <1>1, <1>2, <1>4, <2>1, <2>2, <2>3
<1> QED
  BY <1>3, <1>4

\* A first call is made.
LEMMA FirstCall ==
    ASSUME stack = <<>>, NEW c \in Frames, c.at = "enter", stack' = Append(stack, c)
    PROVE  /\ stack' \in Seq(Frames) /\ stack' # <<>> /\ Waits = 0 /\ Waits' = 0
           /\ Len(stack') = 1 /\ stack'[1] = c
           /\ \A i \in OfStack' : i = 1 /\ stack'[i].at # "sent"
           /\ \A at : Is(at)' <=> at = "enter"
<1>1. <<>> \in Seq(Frames) /\ Len(<<>>) = 0
  BY EmptySeq
<1>2. /\ stack' \in Seq(Frames) /\ Len(stack') = 1 /\ stack' # <<>>
      /\ stack'[1] = c
  BY <1>1, Pushed
<1>3. 1 .. Len(stack') = {1}
  BY <1>2
<1>4. \A at : Is(at)' <=> at = "enter"
  BY <1>2 DEF Is
<1>5. Waits = 0 /\ Waits' = 0
  BY <1>1, <1>2, <1>4 DEF Waits
<1> QED
  BY <1>2, <1>3, <1>4, <1>5 DEF OfStack

\* The buffers stay as they are, but for the text of the active one, and so do the
\* calls that wait, unless they are left.
LEMMA SameIds ==
    ASSUME Types, Good, ~Is("end"), level' = level, buffers' = buffers, started' = started,
           returned' = returned, ended' = ended, active'.id = active.id,
           active'.status = active.status, active'.handler = active.handler,
           \A i \in OfStack' : stack'[i].at = "sent" => i \in OfStack /\ stack'[i] = stack[i]
    PROVE  /\ Ids'
           /\ level' > 0 => Honest(active)' /\ \A i \in OfBuffers' : Honest(buffers[i])'
           /\ \A i \in OfStack' :
                stack'[i].at = "sent" /\ stack'[i].flush /\ stack'[i].saved.handler =>
                    stack'[i].saved.id \in returned' /\ stack'[i].saved.id \notin ended'
<1>1. Ids /\ Statuses
  BY DEF Good
<1>2. BufferIds => BufferIds'
  BY DEF BufferIds, OfBuffers
<1>3. \A i \in OfStack' : stack'[i].at = "sent" =>
        /\ stack'[i].saved.id \in 1 .. started'
        /\ level' > 0 => active'.id < stack'[i].saved.id
  BY <1>1 DEF Ids
<1>4. ASSUME NEW i \in OfStack', NEW j \in OfStack', i < j,
             stack'[i].at = "sent", stack'[j].at = "sent"
      PROVE  stack'[j].saved.id < stack'[i].saved.id
  <2>1. /\ i \in OfStack /\ stack'[i] = stack[i] /\ stack[i].at = "sent"
        /\ j \in OfStack /\ stack'[j] = stack[j] /\ stack[j].at = "sent"
    BY <1>4
  <2>2. stack[j].saved.id < stack[i].saved.id
    BY <1>1, <1>4, <2>1 DEF Ids
  <2> QED
    BY <2>1, <2>2
<1>5. Ids'
  BY <1>1, <1>2, <1>3, <1>4 DEF Ids
<1>6. level' > 0 => Honest(active)' /\ \A i \in OfBuffers' : Honest(buffers[i])'
  BY <1>1 DEF Statuses, Honest, OfBuffers
<1>7. \A i \in OfStack' :
        stack'[i].at = "sent" /\ stack'[i].flush /\ stack'[i].saved.handler =>
            stack'[i].saved.id \in returned' /\ stack'[i].saved.id \notin ended'
  BY <1>1 DEF Statuses
<1> QED
  BY <1>5, <1>6, <1>7

\* ob_start()
LEMMA ObStartKeeps ==
    ASSUME IInv, NEW handler \in BOOLEAN, NEW chunk \in BOOLEAN, NEW erase \in BOOLEAN,
           ObStart(handler, chunk, erase)
    PROVE  IInv'
<1>1. /\ InScript \/ InHandler
      /\ ~lock /\ started' = started + 1 /\ level' = level + 1 /\ buffered' = TRUE
      /\ buffers' = (IF level = 0 THEN <<>>
                     ELSE IF level = 1 THEN <<active>> ELSE Append(buffers, active))
      /\ lock' = lock /\ sent' = sent /\ stack' = stack /\ phase' = phase
      /\ written' = written /\ dropped' = dropped /\ returned' = returned /\ ended' = ended
      /\ bailed' = bailed /\ reentered' = reentered
  BY DEF ObStart
<1>2. PICK b : /\ b = [id |-> started + 1, text |-> <<>>, handler |-> handler, chunk |-> chunk,
                       erase |-> erase, status |-> FALSE]
               /\ active' = b
  BY DEF ObStart
<1>3. /\ ~reentered /\ phase # "over" /\ Types /\ Histories /\ Good
      /\ stack = <<>> /\ \A at : ~Is(at)
  <2>1. /\ ~reentered /\ phase # "over" /\ Types /\ Histories /\ Good
        /\ \/ stack = <<>> /\ (\A at : ~Is(at))
           \/ Is("handler")
    BY <1>1, InCodeIs
  <2>2. ~Is("handler")
    BY <1>1, <2>1 DEF Good, CallsOK
  <2> QED
    BY <2>1, <2>2
<1>4. level \in Nat /\ started \in Nat /\ level <= started /\ CallsOK /\ Levels /\ Statuses
  BY <1>3 DEF Types, Good
<1>5. b \in Buffers /\ b.id = started + 1 /\ b.text = <<>> /\ b.status = FALSE
  BY <1>2, <1>4, NoPieces DEF Buffers
<1>6. Raised
  <2>1. CASE level = 0
    BY <1>1, <1>2, <1>5, <2>1, EmptySeq DEF Raised
  <2>2. CASE level > 0
    <3>1. Len(buffers) = level - 1 /\ buffers \in Seq(Buffers) /\ active \in Buffers
      BY <1>3, <1>4, <2>2 DEF Levels, Types
    <3>2. buffers' = Append(buffers, active)
      <4>1. CASE level = 1
        <5>1. buffers = <<>>
          BY <3>1, <4>1, EmptySeq
        <5> QED
          BY <1>1, <4>1, <5>1
      <4> QED
        BY <1>1, <2>2, <4>1
    <3>3. /\ buffers' \in Seq(Buffers) /\ Len(buffers') = Len(buffers) + 1
          /\ \A i \in 1 .. Len(buffers) : buffers'[i] = buffers[i]
          /\ buffers'[Len(buffers) + 1] = active
      BY <3>1, <3>2, Pushed
    <3>4. Len(buffers') = level /\ buffers'[level] = active
          /\ \A i \in 1 .. level - 1 : buffers'[i] = buffers[i]
      BY <1>4, <3>1, <3>3
    <3> QED
      BY <1>1, <1>2, <1>4, <1>5, <2>2, <3>3, <3>4 DEF Raised
  <2> QED
    BY <1>4, <2>1, <2>2
<1>7. OfStack' = {} /\ stack' = <<>> /\ Waits' = 0 /\ \A at : ~Is(at)'
  <2>1. OfStack' = {} /\ Len(stack') = 0 /\ \A at : ~Is(at)'
    BY <1>1, <1>3, NoTopLeft
  <2> QED
    BY <1>1, <1>3, <2>1 DEF Waits
<1>8. Types'
  <2>1. /\ buffers' \in Seq(Buffers) /\ active' \in Buffers /\ buffered' \in BOOLEAN
        /\ started' \in Nat /\ level' \in Nat
        /\ level' <= started' /\ Len(buffers') <= started'
    BY <1>1, <1>4, <1>6 DEF Raised
  <2> QED
    BY ONLY <1>1, <1>3, <2>1 DEF Types
<1>9. Histories'
  BY <1>1, <1>3, <1>4 DEF Histories
<1>10. CallsOK'
  <2>1. ~bailed' => (lock' <=> Is("handler")')
    BY <1>1, <1>3, <1>4, <1>7 DEF CallsOK, Is
  <2> QED
    BY <1>1, <1>3, <1>7, <2>1 DEF CallsOK
<1>11. Levels'
  <2>1. (buffered' <=> level' > 0) /\ level' > 0
    <3>1. buffered' = TRUE
      BY <1>1
    <3>2. level' > 0
      BY <1>1, <1>4
    <3> QED
      BY ONLY <3>1, <3>2
  <2>2. Len(buffers') = level' - 1
    BY <1>1, <1>4, <1>6 DEF Raised
  <2>3. level' + Waits' <= started'
    BY <1>1, <1>4, <1>7
  <2> QED
    BY ONLY <2>1, <2>2, <2>3 DEF Levels
<1>12. BufferIds' /\ (\A i \in OfBuffers' : Honest(buffers[i])') /\ Ids'
  <2>1. active'.id \in 1 .. started' /\ started' \in Nat /\ started <= started'
    BY <1>1, <1>2, <1>4, <1>5
  <2>2. level > 0 => active.id < active'.id
    <3>1. level > 0 => active.id \in 1 .. started
      BY <1>3 DEF Good, Ids, BufferIds
    <3> QED
      BY <1>2, <1>4, <1>5, <3>1
  <2>3. BufferIds' /\ \A i \in OfBuffers' : Honest(buffers[i])'
    BY <1>1, <1>3, <1>6, <2>1, <2>2, RaisedBuffers
  <2> QED
    BY <1>7, <2>3 DEF Ids
<1>13. Statuses'
  <2>1. b.id \notin returned /\ b.id \notin ended
    <3>1. \A id \in 1 .. started : id # started + 1
      BY <1>4
    <3>2. (\A id \in returned : id \in 1 .. started) /\ \A id \in ended : id \in 1 .. started
      BY <1>3 DEF Histories
    <3> QED
      BY <1>5, <3>1, <3>2
  <2>2. active' = b /\ returned' = returned /\ ended' = ended
    BY <1>1, <1>2
  <2>3. Honest(active)'
    <3>1. (b.status <=> b.id \in returned)
      BY ONLY <1>5, <2>1
    <3> QED
      BY ONLY <2>1, <2>2, <3>1 DEF Honest
  <2> QED
    BY <1>7, <1>12, <2>3 DEF Statuses
<1>14. Order' /\ Complete' /\ Over'
  <2>1. Order' /\ Every(Levelled, level)' = Every(Levelled, level)
    BY <1>1, <1>2, <1>3, <1>5, <1>6, RaisedTexts
  <2> QED
    BY <1>1, <1>3, <2>1 DEF Good, Complete, Over
<1>15. Handled' /\ ~reentered'
  BY <1>1, <1>3, <1>7 DEF Handled
<1> QED
  BY <1>8, <1>9, <1>10, <1>11, <1>12, <1>13, <1>14, <1>15 DEF IInv, Good

\* A call more.
LEMMA CallMade ==
    ASSUME Types, NEW c \in Frames, c.at = "enter", stack' = Append(stack, c)
    PROVE  /\ stack' \in Seq(Frames) /\ Len(stack) \in Nat /\ Len(stack') = Len(stack) + 1
           /\ \A at : Is(at)' <=> at = "enter"
<1>1. PICK h : h = Append(stack, c)
  OBVIOUS
<1>2. stack \in Seq(Frames)
  BY DEF Types
<1>3. /\ h \in Seq(Frames) /\ Len(stack) \in Nat /\ Len(h) = Len(stack) + 1 /\ h # <<>>
      /\ h[Len(stack) + 1] = c
  BY ONLY <1>1, <1>2, c \in Frames, Pushed
<1>4. \A at : Is(at)' <=> at = "enter"
  BY <1>1, <1>3 DEF Is
<1> QED
  BY <1>1, <1>3, <1>4

\* What a piece more changes.
LEMMA EchoEffects ==
    ASSUME IInv, Echo
    PROVE  /\ level' = level /\ buffers' = buffers /\ lock' = lock /\ buffered' = buffered
           /\ phase' = phase /\ written' = written + 1 /\ started' = started
           /\ dropped' = dropped /\ returned' = returned /\ ended' = ended /\ bailed' = bailed
           /\ active' \in Buffers /\ sent' \in Texts
           /\ active'.id = active.id /\ active'.status = active.status
           /\ active'.handler = active.handler
           /\ \E p \in Texts :
                /\ In(p) = {written'} /\ Rises(p)
                /\ level = 0 => active' = active /\ sent' = sent \o p
                /\ level > 0 => active'.text = active.text \o p /\ sent' = sent
           /\ reentered' \in BOOLEAN
           /\ \/ stack' = stack /\ ~reentered'
              \/ /\ level > 0 /\ stack' = Append(stack, Call(TRUE, TRUE))
                 /\ stack = <<>> => ~reentered'
                 /\ stack # <<>> => reentered'
<1>1. /\ InScript \/ InHandler
      /\ level' = level /\ buffers' = buffers /\ lock' = lock /\ buffered' = buffered
      /\ phase' = phase /\ written' = written + 1 /\ started' = started
      /\ dropped' = dropped /\ returned' = returned /\ ended' = ended /\ bailed' = bailed
  BY DEF Echo
<1>10. reentered' = (InHandler /\ Len(stack') > Len(stack))
  BY DEF Echo
<1>2. /\ Types /\ Good
      /\ \/ InScript /\ stack = <<>>
         \/ InHandler /\ stack # <<>>
  BY <1>1, InCodeIs
<1>3. /\ level \in Nat /\ written \in Nat /\ active \in Buffers /\ active.text \in Texts
      /\ sent \in Texts /\ (buffered <=> level > 0)
  BY <1>2 DEF Types, Good, Levels, Buffers
<1>4. PICK p \in Texts : In(p) = {written'} /\ Rises(p) /\ Write(p, active, stack)
  <2>1. PICK w : w = written + 1
    OBVIOUS
  <2>2. Write(<<w>>, active, stack)
    BY <2>1 DEF Echo
  <2>3. w \in Nat /\ written' = w
    BY <1>1, <1>3, <2>1
  <2> QED
    BY <2>2, <2>3, OnePiece
<1>5. InHandler <=> stack # <<>>
  BY <1>2 DEF InScript, InHandler, InEnd
<1>6. Len(stack) \in Nat
  BY <1>2, LenProperties DEF Types
<1>7. (stack' = stack => ~reentered') /\ reentered' \in BOOLEAN
  <2>1. reentered' = (InHandler /\ Len(stack') > Len(stack))
    BY <1>10
  <2>2. stack' = stack => ~(Len(stack') > Len(stack))
    BY <1>6
  <2> QED
    BY ONLY <2>1, <2>2
<1>8. CASE level = 0
  <2>1. active' = active /\ sent' = sent \o p /\ stack' = stack
    <3>1. buffered' = FALSE
      BY <1>1, <1>3, <1>8
    <3> QED
      BY <1>4, <3>1 DEF Write
  <2>2. sent' \in Texts
    BY <1>3, <2>1, JoinedText
  <2>3. ~reentered' /\ reentered' \in BOOLEAN
    BY <1>7, <2>1
  <2>4. \E q \in Texts :
          /\ In(q) = {written'} /\ Rises(q)
          /\ level = 0 => active' = active /\ sent' = sent \o q
          /\ level > 0 => active'.text = active.text \o q /\ sent' = sent
    BY <1>3, <1>4, <1>8, <2>1
  <2> QED
    BY <1>1, <1>3, <1>8, <2>1, <2>2, <2>3, <2>4
<1>9. CASE level > 0
  <2>1. PICK x \in Texts : x = active.text \o p
    BY <1>3, JoinedText
  <2>2. /\ active' = [active EXCEPT !.text = x] /\ sent' = sent
        /\ stack' = stack \/ stack' = Append(stack, Call(TRUE, TRUE))
    BY <1>1, <1>3, <1>4, <1>9, <2>1 DEF Write
  <2>3. /\ active' \in Buffers /\ active'.text = x /\ active'.id = active.id
        /\ active'.status = active.status /\ active'.handler = active.handler
    BY <1>3, <2>1, <2>2 DEF Buffers
  <2>4. reentered' \in BOOLEAN
    BY <1>7
  <2>7. \E q \in Texts :
          /\ In(q) = {written'} /\ Rises(q)
          /\ level = 0 => active' = active /\ sent' = sent \o q
          /\ level > 0 => active'.text = active.text \o q /\ sent' = sent
    <3>1. level # 0
      BY <1>3, <1>9
    <3>2. active'.text = active.text \o p /\ sent' = sent
      BY <2>1, <2>2, <2>3
    <3>3. p \in Texts /\ In(p) = {written'} /\ Rises(p)
      BY <1>4
    <3> QED
      BY ONLY <3>1, <3>2, <3>3
  <2>5. CASE stack' = stack
    BY <1>1, <1>3, <1>7, <1>9, <2>2, <2>3, <2>4, <2>5, <2>7
  <2>6. CASE stack' = Append(stack, Call(TRUE, TRUE))
    <3>1. Len(stack') = Len(stack) + 1
      BY <1>2, <2>6, CallIsFrame, CallMade
    <3>2. reentered' <=> stack # <<>>
      <4>1. Len(stack') > Len(stack)
        BY <1>6, <3>1
      <4> QED
        BY ONLY <1>5, <1>10, <4>1
    <3> QED
      BY <1>1, <1>3, <1>9, <2>2, <2>3, <2>4, <2>6, <2>7, <3>2
  <2> QED
    BY <2>2, <2>5, <2>6
<1>11. level = 0 \/ level > 0
  BY <1>3
<1> QED
  BY ONLY <1>8, <1>9, <1>11

LEMMA EchoKeeps == ASSUME IInv, Echo PROVE IInv'
<1>1. /\ level' = level /\ buffers' = buffers /\ lock' = lock /\ buffered' = buffered
      /\ phase' = phase /\ written' = written + 1 /\ started' = started
      /\ dropped' = dropped /\ returned' = returned /\ ended' = ended /\ bailed' = bailed
      /\ active' \in Buffers /\ sent' \in Texts
      /\ active'.id = active.id /\ active'.status = active.status
      /\ active'.handler = active.handler /\ reentered' \in BOOLEAN
  BY EchoEffects
<1>2. PICK p \in Texts :
        /\ In(p) = {written'} /\ Rises(p)
        /\ level = 0 => active' = active /\ sent' = sent \o p
        /\ level > 0 => active'.text = active.text \o p /\ sent' = sent
  BY EchoEffects
<1>3. \/ stack' = stack /\ ~reentered'
      \/ /\ level > 0 /\ stack' = Append(stack, Call(TRUE, TRUE))
         /\ stack = <<>> => ~reentered'
         /\ stack # <<>> => reentered'
  BY EchoEffects
<1>4. /\ ~reentered /\ phase # "over" /\ Types /\ Histories /\ Good
      /\ \/ stack = <<>> /\ (\A at : ~Is(at))
         \/ stack # <<>> /\ Is("handler")
      /\ ~Is("end") /\ ~Is("sent")
  <2>1. InScript \/ InHandler
    BY DEF Echo
  <2> QED
    BY <2>1, InCodeIs
<1>5. /\ level \in Nat /\ written \in Nat /\ CallsOK /\ Levels /\ Statuses /\ Handled
      /\ stack \in Seq(Frames) /\ Len(stack) \in Nat
  BY <1>4, LenProperties DEF Types, Good
<1>6. Call(TRUE, TRUE) \in Frames /\ Call(TRUE, TRUE).at = "enter"
  BY CallIsFrame
<1>7. stack' \in Seq(Frames)
  BY <1>3, <1>4, <1>5, <1>6, CallMade
<1>8. Types'
  <2>1. /\ level' \in Nat /\ buffers' \in Seq(Buffers) /\ lock' \in BOOLEAN
        /\ buffered' \in BOOLEAN /\ phase' \in Phases /\ written' \in Nat /\ started' \in Nat
        /\ bailed' \in BOOLEAN /\ level' <= started' /\ Len(buffers') <= started'
    BY <1>1, <1>4, <1>5 DEF Types
  <2> QED
    BY ONLY <1>1, <1>7, <2>1 DEF Types
<1>9. Histories'
  <2>1. 1 .. written \subseteq 1 .. written'
    BY <1>1, <1>5
  <2> QED
    BY <1>1, <1>4, <2>1 DEF Histories
<1>10. CASE reentered'
  <2>1. Is("enter")'
    BY <1>3, <1>4, <1>6, <1>10, CallMade
  <2> QED
    BY <1>8, <1>9, <1>10, <2>1 DEF IInv
<1>11. CASE ~reentered'
  <2>1. PICK t : t = Levelled
    OBVIOUS
  <2>2. PICK v : v = Levelled'
    OBVIOUS
  <2>3. level > 0 => Len(buffers) = level - 1
    BY <1>5 DEF Levels
  <2>4. /\ t[0] = sent /\ (level > 0 => t[level] = active.text)
        /\ \A i \in 1 .. level - 1 : t[i] = buffers[i].text
        /\ \A i \in 0 .. level : t[i] \in Texts
    BY ONLY <1>4, <1>5, <2>1, <2>3, LevelwiseIs DEF Levelled, Types
  <2>5. /\ v[0] = sent' /\ (level > 0 => v[level] = active'.text)
        /\ \A i \in 1 .. level - 1 : v[i] = buffers[i].text
    <3>1. buffers \in Seq(Buffers)
      BY <1>4 DEF Types
    <3> QED
      BY <1>1, <1>5, <2>2, <2>3, <3>1, LevelwiseIs DEF Levelled
  <2>6. v[level] = t[level] \o p /\ t[level] \in Texts
    <3>1. level \in Nat /\ level \in 0 .. level
      BY <1>5
    <3>2. CASE level = 0
      <4>1. v[0] = sent' /\ t[0] = sent /\ sent' = sent \o p
        BY <1>2, <2>4, <2>5, <3>2
      <4> QED
        BY <2>4, <3>1, <3>2, <4>1
    <3>3. CASE level > 0
      <4>1. v[level] = active'.text /\ t[level] = active.text /\ active'.text = active.text \o p
        BY <1>2, <2>4, <2>5, <3>3
      <4> QED
        BY <2>4, <3>1, <4>1
    <3> QED
      BY <3>1, <3>2, <3>3
  <2>7. \A i \in 0 .. level : i < level => v[i] = t[i]
    <3>1. ASSUME NEW i \in 0 .. level, i < level PROVE v[i] = t[i]
      <4>1. CASE i = 0
        BY <1>2, <1>5, <2>4, <2>5, <3>1, <4>1
      <4>2. CASE i # 0
        <5>1. i \in 1 .. level - 1
          BY <1>5, <3>1, <4>2
        <5> QED
          BY <2>4, <2>5, <5>1
      <4> QED
        BY <4>1, <4>2
    <3> QED
      BY <3>1
  <2>8. Ordered(t, level) /\ Every(t, level) = (1 .. written) \ dropped
    BY <1>4, <2>1 DEF Good, Order, Complete
  <2>9. /\ Ordered(v, level) /\ Every(v, level) = Every(t, level) \cup {written'}
        /\ In(v[level]) = In(t[level]) \cup {written'}
    <3>1. PICK n \in Nat : n = level
      BY <1>5
    <3>2. \A z \in Every(t, n), y \in In(p) : z < y
      BY <1>1, <1>2, <1>5, <2>8, <3>1
    <3>3. Rises(p) /\ Ordered(t, n) /\ t[n] \in Texts
      BY <1>2, <2>6, <2>8, <3>1
    <3>4. (\A i \in 0 .. n : i < n => v[i] = t[i]) /\ v[n] = t[n] \o p
      BY <2>6, <2>7, <3>1
    <3>6. Longer(t, v, n, p)
      BY ONLY <3>2, <3>3, <3>4, n \in Nat, p \in Texts DEF Longer
    <3>5. /\ Ordered(v, n) /\ Every(v, n) = Every(t, n) \cup In(p)
          /\ In(v[n]) = In(t[n]) \cup In(p)
      BY ONLY <3>6, OneMore
    <3> QED
      BY <1>2, <3>1, <3>5
  <2>10. Order'
    BY <1>1, <2>2, <2>9 DEF Order
  <2>11. Complete' /\ Over'
    <3>1. written + 1 \notin dropped
      <4>1. \A x \in 1 .. written : x # written + 1
        BY <1>5
      <4>2. \A x \in dropped : x \in 1 .. written
        BY <1>4 DEF Histories
      <4> QED
        BY <4>1, <4>2
    <3>2. 1 .. written + 1 = (1 .. written) \cup {written + 1}
      BY <1>5
    <3>3. Every(v, level) = (1 .. written + 1) \ dropped
      BY <1>1, <2>8, <2>9, <3>1, <3>2
    <3>4. Every(Levelled, level)' = Every(v, level)
      BY <1>1, <2>2 DEF Every
    <3> QED
      BY <1>1, <1>4, <3>3, <3>4 DEF Complete, Over
  <2>12. level > 0 => In(active.text) \subseteq In(active'.text)
    BY <2>4, <2>5, <2>9
  <2>13. CASE stack' = stack
    <3>1. (\A at : Is(at)' <=> Is(at)) /\ OfStack' = OfStack /\ Top' = Top /\ Waits' = Waits
      BY <2>13 DEF Is, OfStack, Top, Waits
    <3>2. CallsOK' /\ Levels'
      <4>1. CallsOK'
        BY <1>1, <1>5, <2>13, <3>1 DEF CallsOK, Is
      <4>2. Levels'
        BY <1>1, <1>5, <2>13, <3>1 DEF Levels
      <4> QED
        BY <4>1, <4>2
    <3>3. /\ Ids'
          /\ level' > 0 => Honest(active)' /\ \A i \in OfBuffers' : Honest(buffers[i])'
          /\ \A i \in OfStack' :
               stack'[i].at = "sent" /\ stack'[i].flush /\ stack'[i].saved.handler =>
                   stack'[i].saved.id \in returned' /\ stack'[i].saved.id \notin ended'
      BY <1>1, <1>4, <2>13, <3>1, SameIds
    <3>4. Statuses'
      BY <1>1, <1>4, <1>5, <3>1, <3>3 DEF Statuses
    <3>5. Is("handler") => level > 0
      <4>1. ASSUME Is("handler") PROVE level # 0
        BY <1>4, <1>5, <4>1 DEF Levels, Is
      <4> QED
        BY <1>5, <4>1
    <3>6. Handled'
      BY <1>4, <1>5, <2>12, <3>1, <3>5 DEF Handled
    <3> QED
      BY <1>8, <1>9, <1>11, <2>10, <2>11, <3>2, <3>3, <3>4, <3>6 DEF IInv, Good
  <2>14. CASE stack' # stack
    <3>1. stack = <<>> /\ level > 0 /\ stack' = Append(stack, Call(TRUE, TRUE))
      BY <1>3, <1>11, <2>14
    <3>2. /\ Waits = 0 /\ Waits' = 0 /\ Len(stack') = 1
          /\ \A i \in OfStack' : i = 1 /\ stack'[i].at # "sent"
          /\ \A at : Is(at)' <=> at = "enter"
      BY <1>6, <3>1, FirstCall
    <3>3. CallsOK'
      <4>1. \A i \in OfStack' : ~(i < Len(stack'))
        BY <3>2
      <4>2. ~Is("handler") /\ ~Is("handler")'
        BY <1>4, <3>1, <3>2, NoTop
      <4>3. ~bailed' => (lock' <=> Is("handler")')
        BY <1>1, <1>5, <4>2 DEF CallsOK, Is
      <4> QED
        BY <1>1, <1>4, <4>1, <4>2, <4>3 DEF CallsOK
    <3>4. Levels'
      BY <1>1, <1>5, <3>1, <3>2 DEF Levels
    <3>5. /\ Ids'
          /\ level' > 0 => Honest(active)' /\ \A i \in OfBuffers' : Honest(buffers[i])'
          /\ \A i \in OfStack' :
               stack'[i].at = "sent" /\ stack'[i].flush /\ stack'[i].saved.handler =>
                   stack'[i].saved.id \in returned' /\ stack'[i].saved.id \notin ended'
      BY <1>1, <1>4, <3>2, SameIds
    <3>6. Statuses' /\ Handled'
      BY <3>2, <3>5 DEF Statuses, Handled
    <3> QED
      BY <1>8, <1>9, <1>11, <2>10, <2>11, <3>3, <3>4, <3>5, <3>6 DEF IInv, Good
  <2> QED
    BY <2>13, <2>14
<1> QED
  BY <1>10, <1>11

-----------------------------------------------------------------------------
(* The end of the script, of its calls and of the request *)

\* What the buffers hold.
LEMMA TextIs == ASSUME Types, NEW i \in 0 .. level PROVE Text(i) = Levelled[i]
<1>1. level \in Nat
  BY DEF Types
<1> QED
  BY <1>1 DEF Text, Levelled, Levelwise

LEMMA PiecesAre ==
    ASSUME Types, Levels, NEW levels \in SUBSET (0 .. level)
    PROVE  Pieces(levels) = Those(Levelled, levels)
<1>1. \A i \in 0 .. level : Levelled[i] \in Texts
  BY LevelwiseIs DEF Types, Levels, Levelled
<1>2. \A i \in levels : ToSet(Text(i)) = In(Levelled[i])
  <2>1. ASSUME NEW i \in levels PROVE ToSet(Text(i)) = In(Levelled[i])
    <3>1. i \in 0 .. level
      OBVIOUS
    <3> QED
      BY ONLY Types, <1>1, <3>1, TextIs, ToSetIsIn
  <2> QED
    BY <2>1
<1> QED
  BY <1>2 DEF Pieces, Those

\* When the buffers are given up, what the client has got is all there is.
LEMMA BuffersLeft ==
    ASSUME Types, Good, phase # "over"
    PROVE  /\ In(sent) = (1 .. written) \ (dropped \cup Pieces(1 .. level))
           /\ Rises(sent) /\ Pieces(1 .. level) \subseteq 1 .. written
<1>1. level \in Nat /\ written \in Nat
  BY DEF Types
<1>2. PICK t : t = Levelled
  OBVIOUS
<1>3. t[0] = sent
  BY <1>2, LevelwiseIs DEF Types, Good, Levels, Levelled
<1>4. Ordered(t, level) /\ Every(t, level) = (1 .. written) \ dropped
  BY <1>2 DEF Good, Order, Complete
<1>5. /\ In(t[0]) = Every(t, level) \ Those(t, 1 .. level) /\ Rises(t[0])
      /\ Those(t, 1 .. level) \subseteq Every(t, level)
  BY <1>1, <1>4, Cleared
<1>6. Pieces(1 .. level) = Those(t, 1 .. level)
  <2>1. 1 .. level \in SUBSET (0 .. level)
    BY <1>1
  <2> QED
    BY <1>2, <2>1, PiecesAre DEF Good
<1>7. In(sent) = (1 .. written) \ (dropped \cup Pieces(1 .. level))
  BY <1>3, <1>4, <1>5, <1>6
<1> QED
  BY <1>3, <1>4, <1>5, <1>6, <1>7

\* zend_bailout(), with the buffers or without.
LEMMA BailoutKeeps ==
    ASSUME IInv, InScript \/ InHandler, Bailout,
           UNCHANGED <<buffers, active, lock, sent, written, started, returned, ended, reentered>>,
           \/ /\ level' = level /\ buffered' = buffered
              /\ dropped' = IF phase = "flush" THEN dropped \cup Pieces(1 .. level) ELSE dropped
           \/ /\ level' = 0 /\ buffered' = FALSE
              /\ dropped' = dropped \cup Pieces(1 .. level)
    PROVE  IInv'
<1>1. /\ buffers' = buffers /\ active' = active /\ lock' = lock /\ sent' = sent
      /\ written' = written /\ started' = started /\ returned' = returned
      /\ ended' = ended /\ reentered' = reentered /\ stack' = <<>>
      /\ phase' = NextPhase /\ bailed' = (bailed \/ InHandler)
  BY DEF Bailout
<1>2. /\ ~reentered /\ phase # "over" /\ Types /\ Histories /\ Good
      /\ \/ InScript /\ stack = <<>> /\ (\A at : ~Is(at))
         \/ InHandler /\ stack # <<>> /\ Is("handler")
      /\ ~Is("end") /\ ~Is("sent")
  BY InCodeIs
<1>3. /\ level \in Nat /\ started \in Nat /\ written \in Nat /\ level <= started
      /\ Len(buffers) <= started /\ phase \in Phases /\ buffered \in BOOLEAN
      /\ bailed \in BOOLEAN /\ sent \in Texts /\ lock \in BOOLEAN
      /\ CallsOK /\ Levels /\ Ids /\ Statuses
  BY <1>2 DEF Types, Good
<1>4. /\ stack' \in Seq(Frames) /\ Len(stack') = 0 /\ OfStack' = {}
      /\ (\A at : ~Is(at)') /\ Waits' = 0
  <2>1. /\ stack' \in Seq(Frames) /\ Len(stack') = 0 /\ OfStack' = {} /\ \A at : ~Is(at)'
    BY <1>1, NoTopLeft
  <2> QED
    BY <1>1, <2>1 DEF Waits
<1>5. phase' \in Phases /\ (phase' = "over" <=> phase = "flush")
  BY <1>1, <1>2, <1>3 DEF Phases, NextPhase
<1>6. InHandler \in BOOLEAN
  BY DEF InHandler, InEnd
<1>7. /\ In(sent) = (1 .. written) \ (dropped \cup Pieces(1 .. level))
      /\ Pieces(1 .. level) \subseteq 1 .. written
      /\ Rises(sent)
  BY <1>2, BuffersLeft
<1>9. Types'
  <2>1. level' \in Nat /\ level' <= started' /\ buffered' \in BOOLEAN
    <3>1. (level' = level /\ buffered' = buffered) \/ (level' = 0 /\ buffered' = FALSE)
      OBVIOUS
    <3>2. started' = started /\ 0 <= started
      BY <1>1, <1>3
    <3>3. CASE level' = level /\ buffered' = buffered
      BY ONLY <1>3, <3>2, <3>3
    <3>4. CASE level' = 0 /\ buffered' = FALSE
      BY ONLY <1>3, <3>2, <3>4
    <3> QED
      BY ONLY <3>1, <3>3, <3>4
  <2>2. /\ buffers' \in Seq(Buffers) /\ active' \in Buffers /\ lock' \in BOOLEAN
        /\ sent' \in Texts /\ written' \in Nat /\ started' \in Nat
        /\ reentered' \in BOOLEAN /\ Len(buffers') <= started'
    BY <1>1, <1>2, <1>3 DEF Types
  <2>3. bailed' \in BOOLEAN
    BY <1>1, <1>3, <1>6
  <2> QED
    BY ONLY <1>4, <1>5, <2>1, <2>2, <2>3 DEF Types
<1>10. Histories'
  <2>1. dropped' \in SUBSET (1 .. written)
    BY <1>2, <1>7 DEF Histories
  <2> QED
    BY <1>1, <1>2, <2>1 DEF Histories
<1>11. CallsOK'
  <2>1. ASSUME ~bailed' PROVE ~lock'
    <3>1. ~bailed /\ ~InHandler
      BY <1>1, <1>3, <1>6, <2>1
    <3>2. ~Is("handler")
      BY <1>2, <3>1
    <3> QED
      BY <1>1, <1>3, <3>1, <3>2 DEF CallsOK
  <2>2. ~bailed' => (lock' <=> Is("handler")')
    BY <1>4, <2>1
  <2> QED
    BY <1>1, <1>4, <2>2 DEF CallsOK
<1>12. Levels'
  <2>1. (buffered' <=> level' > 0)
    <3>1. CASE level' = 0 /\ buffered' = FALSE
      BY <3>1
    <3>2. CASE level' = level /\ buffered' = buffered
      BY <1>3, <3>2 DEF Levels
    <3> QED
      BY <3>1, <3>2
  <2>2. level' > 0 => Len(buffers') = level' - 1
    <3>1. level' > 0 => level' = level
      OBVIOUS
    <3> QED
      BY <1>1, <1>3, <3>1 DEF Levels
  <2>3. level' + Waits' <= started'
    BY <1>1, <1>3, <1>4
  <2> QED
    BY ONLY <1>1, <2>1, <2>2, <2>3 DEF Levels
<1>13. level' > 0 => level' = level
  OBVIOUS
<1>14. Ids'
  <2>1. level' > 0 => BufferIds'
    BY <1>1, <1>3, <1>13 DEF Ids, BufferIds, OfBuffers
  <2> QED
    BY <1>4, <2>1 DEF Ids
<1>15. Statuses'
  <2>1. level' > 0 => Honest(active)' /\ \A i \in OfBuffers' : Honest(buffers[i])'
    BY <1>1, <1>2, <1>3, <1>13 DEF Statuses, Honest, OfBuffers
  <2> QED
    BY <1>4, <2>1 DEF Statuses
<1>16. Order' /\ (phase' # "over" => Every(Levelled, level)' = (1 .. written) \ dropped')
  <2>1. CASE level' = level
    <3>1. Levelled' = Levelled
      BY <1>1, <2>1 DEF Levelled, Levelwise
    <3>2. Order'
      BY <1>2, <2>1, <3>1 DEF Good, Order
    <3>3. phase' # "over" => dropped' = dropped \/ level = 0
      BY <1>5, <2>1
    <3>4. Pieces(1 .. 0) = {}
      BY DEF Pieces
    <3>5. phase' # "over" => dropped' = dropped
      BY <1>5, <3>3, <3>4
    <3> QED
      BY <1>2, <1>5, <2>1, <3>1, <3>2, <3>5 DEF Good, Complete, Every
  <2>2. CASE level' = 0 /\ dropped' = dropped \cup Pieces(1 .. level)
    <3>1. PICK v : v = Levelled'
      OBVIOUS
    <3>2. v[0] = sent
      BY <1>1, <2>2, <3>1 DEF Levelled, Levelwise
    <3>3. Ordered(v, 0) /\ Every(v, 0) = (1 .. written) \ dropped'
      BY <1>7, <2>2, <3>2, Lowest
    <3> QED
      BY <2>2, <3>1, <3>3 DEF Order, Every
  <2> QED
    BY <2>1, <2>2
<1>17. Complete' /\ Over'
  <2>1. phase' = "over" => dropped' = dropped \cup Pieces(1 .. level)
    BY <1>5
  <2> QED
    BY <1>1, <1>7, <1>16, <2>1 DEF Complete, Over
<1>18. Handled' /\ ~reentered'
  BY <1>1, <1>2, <1>4 DEF Handled
<1> QED
  BY <1>9, <1>10, <1>11, <1>12, <1>14, <1>15, <1>16, <1>17, <1>18 DEF IInv, Good

LEMMA ObStartLockedKeeps == ASSUME IInv, ObStartLocked PROVE IInv'
BY BailoutKeeps DEF ObStartLocked

LEMMA ExitKeeps == ASSUME IInv, Exit PROVE IInv'
BY BailoutKeeps DEF Exit

\* ob_flush(), ob_clean(), ob_end_flush(), ob_end_clean()
LEMMA ObEndKeeps ==
    ASSUME IInv, NEW send \in BOOLEAN, NEW flush \in BOOLEAN, ObEnd(send, flush)
    PROVE  IInv'
<1>1. /\ InScript \/ InHandler
      /\ level # 0 /\ reentered' = InHandler /\ stack' = Append(stack, Call(send, flush))
      /\ level' = level /\ buffers' = buffers /\ active' = active /\ lock' = lock
      /\ buffered' = buffered /\ sent' = sent /\ phase' = phase /\ written' = written
      /\ started' = started /\ dropped' = dropped /\ returned' = returned
      /\ ended' = ended /\ bailed' = bailed
  BY DEF ObEnd
<1>2. /\ ~reentered /\ phase # "over" /\ Types /\ Histories /\ Good
      /\ \/ InScript /\ stack = <<>> /\ (\A at : ~Is(at))
         \/ InHandler /\ stack # <<>> /\ Is("handler")
      /\ ~Is("end") /\ ~Is("sent")
  BY <1>1, InCodeIs
<1>3. PICK c \in Frames : c = Call(send, flush) /\ c.at = "enter"
  BY CallIsFrame
<1>4. stack' \in Seq(Frames) /\ \A at : Is(at)' <=> at = "enter"
  <2>1. stack' = Append(stack, c)
    BY <1>1, <1>3
  <2> QED
    BY <1>2, <1>3, <2>1, CallMade
<1>5. InHandler \in BOOLEAN
  BY DEF InHandler, InEnd
<1>6. Types'
  <2>1. reentered' \in BOOLEAN
    BY <1>1, <1>5
  <2> QED
    BY <1>1, <1>2, <1>4, <2>1 DEF Types
<1>7. Histories'
  BY <1>1, <1>2 DEF Histories
<1>8. CASE InHandler
  BY <1>1, <1>4, <1>6, <1>7, <1>8 DEF IInv
<1>9. CASE ~InHandler
  <2>1. stack = <<>> /\ \A at : ~Is(at)
    BY <1>2, <1>9
  <2>2. /\ Waits = 0 /\ Waits' = 0 /\ Len(stack') = 1
        /\ \A i \in OfStack' : i = 1 /\ stack'[i].at # "sent"
    BY <1>1, <1>3, <2>1, FirstCall
  <2>3. CallsOK /\ Levels /\ level \in Nat
    BY <1>2 DEF Good, Types
  <2>4. CallsOK'
    <3>1. ~bailed' => (lock' <=> Is("handler")')
      BY <1>1, <1>4, <2>1, <2>3 DEF CallsOK, Is
    <3> QED
      BY <1>1, <1>2, <1>4, <2>2, <3>1 DEF CallsOK
  <2>5. Levels'
    BY <1>1, <1>4, <2>2, <2>3 DEF Levels
  <2>6. /\ Ids'
        /\ level' > 0 => Honest(active)' /\ \A i \in OfBuffers' : Honest(buffers[i])'
    BY <1>1, <1>2, <2>2, SameIds
  <2>7. Statuses' /\ Handled'
    BY <1>4, <2>2, <2>6 DEF Statuses, Handled
  <2>8. Order' /\ Complete' /\ Over'
    BY <1>1, <1>2 DEF Good, Order, Complete, Over, Levelled
  <2>9. ~reentered'
    BY <1>1, <1>9
  <2> QED
    BY <1>6, <1>7, <2>4, <2>5, <2>6, <2>7, <2>8, <2>9 DEF IInv, Good
<1> QED
  BY <1>8, <1>9

\* The script ends.
LEMMA EndScriptKeeps == ASSUME IInv, EndScript PROVE IInv'
<1>1. /\ InScript /\ phase' = "flush"
      /\ level' = level /\ buffers' = buffers /\ active' = active /\ lock' = lock
      /\ buffered' = buffered /\ sent' = sent /\ stack' = stack /\ written' = written
      /\ started' = started /\ dropped' = dropped /\ returned' = returned
      /\ ended' = ended /\ bailed' = bailed /\ reentered' = reentered
  BY DEF EndScript, core, past
<1>2. /\ ~reentered /\ phase # "over" /\ Types /\ Histories /\ Good
      /\ stack = <<>> /\ (\A at : ~Is(at)) /\ ~Is("end")
  <2>1. stack = <<>>
    BY <1>1 DEF InScript
  <2> QED
    BY <1>1, <2>1, InCodeIs, NoTop
<1>3. OfStack' = {} /\ (\A at : ~Is(at)')
  BY <1>1, <1>2, NoTopLeft
<1>4. Types' /\ Histories'
  BY <1>1, <1>2 DEF Types, Histories, Phases
<1>5. CallsOK /\ Levels
  BY <1>2 DEF Good
<1>6. CallsOK'
  <2>1. ~bailed' => (lock' <=> Is("handler")')
    BY <1>1, <1>2, <1>3, <1>5 DEF CallsOK, Is
  <2> QED
    BY <1>1, <1>3, <2>1 DEF CallsOK
<1>7. Levels'
  <2>1. Waits' = Waits
    BY <1>1, <1>2 DEF Waits
  <2> QED
    BY <1>1, <1>2, <1>5, <2>1 DEF Levels
<1>8. /\ Ids'
      /\ level' > 0 => Honest(active)' /\ \A i \in OfBuffers' : Honest(buffers[i])'
  BY <1>1, <1>2, <1>3, SameIds
<1>9. Statuses' /\ Handled'
  BY <1>3, <1>8 DEF Statuses, Handled
<1>10. Order' /\ Complete' /\ Over'
  BY <1>1, <1>2 DEF Good, Order, Complete, Over, Levelled
<1> QED
  BY <1>1, <1>2, <1>4, <1>6, <1>7, <1>8, <1>9, <1>10 DEF IInv, Good

\* php_end_ob_buffers() ends the active buffer, or all are ended.
LEMMA EndBuffersKeeps == ASSUME IInv, EndBuffers PROVE IInv'
<1>1. /\ phase = "flush" /\ stack = <<>>
      /\ level' = level /\ buffers' = buffers /\ active' = active /\ lock' = lock
      /\ buffered' = buffered /\ sent' = sent /\ written' = written
      /\ started' = started /\ dropped' = dropped /\ returned' = returned
      /\ ended' = ended /\ bailed' = bailed /\ reentered' = reentered
  BY DEF EndBuffers, past
<1>2. \A at : ~Is(at)
  BY <1>1, NoTop
<1>3. ~reentered /\ Types /\ Histories /\ Good
  BY <1>2 DEF IInv
<1>4. CallsOK /\ Levels /\ level \in Nat
  BY <1>3 DEF Good, Types
<1>5. Histories'
  BY <1>1, <1>3 DEF Histories
<1>6. CASE level # 0
  <2>1. phase' = phase
    BY <1>6 DEF EndBuffers
  <2>2. PICK c \in Frames : c = Call(TRUE, FALSE) /\ c.at = "enter"
    BY CallIsFrame
  <2>3. stack' = Append(stack, c)
    <3>1. stack' = <<c>>
      BY <1>6, <2>2 DEF EndBuffers
    <3>2. Append(<<>>, c) = <<c>>
      OBVIOUS
    <3> QED
      BY <1>1, <3>1, <3>2
  <2>4. /\ stack' \in Seq(Frames) /\ stack' # <<>> /\ Waits = 0 /\ Waits' = 0
        /\ Len(stack') = 1
        /\ \A i \in OfStack' : i = 1 /\ stack'[i].at # "sent"
        /\ \A at : Is(at)' <=> at = "enter"
    BY <1>1, <2>2, <2>3, FirstCall
  <2>5. Types'
    BY <1>1, <1>3, <2>1, <2>4 DEF Types
  <2>6. CallsOK'
    <3>1. ~bailed' => (lock' <=> Is("handler")')
      BY <1>1, <1>2, <1>4, <2>4 DEF CallsOK, Is
    <3> QED
      BY <1>1, <2>1, <2>4, <3>1 DEF CallsOK
  <2>7. Levels'
    BY <1>1, <1>4, <1>6, <2>4 DEF Levels
  <2>8. /\ Ids'
        /\ level' > 0 => Honest(active)' /\ \A i \in OfBuffers' : Honest(buffers[i])'
    BY <1>1, <1>2, <1>3, <2>4, SameIds
  <2>9. Statuses' /\ Handled'
    BY <2>4, <2>8 DEF Statuses, Handled
  <2>10. Order' /\ Complete' /\ Over'
    BY <1>1, <1>3, <2>1 DEF Good, Order, Complete, Over, Levelled
  <2> QED
    BY <1>1, <1>3, <1>5, <2>5, <2>6, <2>7, <2>8, <2>9, <2>10 DEF IInv, Good
<1>7. CASE level = 0
  <2>1. phase' = "over" /\ stack' = stack
    BY <1>7 DEF EndBuffers
  <2>2. OfStack' = {} /\ (\A at : ~Is(at)')
    BY <1>1, <2>1, NoTopLeft
  <2>3. Types'
    BY <1>1, <1>3, <2>1 DEF Types, Phases
  <2>4. CallsOK'
    <3>1. ~bailed' => (lock' <=> Is("handler")')
      BY <1>1, <1>2, <1>4, <2>2 DEF CallsOK, Is
    <3> QED
      BY <1>1, <2>1, <2>2, <3>1 DEF CallsOK
  <2>5. Levels'
    <3>1. Waits' = Waits
      BY <1>1, <1>2, <2>1, <2>2 DEF Waits
    <3> QED
      BY <1>1, <1>4, <2>1, <3>1 DEF Levels
  <2>6. Ids' /\ Statuses' /\ Handled'
    BY <1>1, <1>7, <2>2 DEF Ids, Statuses, Handled
  <2>7. Levelled' = Levelled /\ Order' /\ Complete'
    BY <1>1, <1>3, <2>1 DEF Good, Order, Complete, Levelled
  <2>8. Over'
    <3>1. Levelled[0] = sent
      BY <1>3, <1>4, LevelwiseIs DEF Types, Levels, Levelled
    <3>2. 0 .. 0 = {0}
      OBVIOUS
    <3>3. Every(Levelled, level) = In(sent)
      BY <1>7, <3>1, <3>2 DEF Every
    <3> QED
      BY <1>1, <1>3, <3>3 DEF Good, Complete, Over
  <2> QED
    BY <1>1, <1>3, <1>5, <2>3, <2>4, <2>5, <2>6, <2>7, <2>8 DEF IInv, Good
<1> QED
  BY <1>6, <1>7

-----------------------------------------------------------------------------
(* The invariant *)

LEMMA InitIInv == Init => IInv
<1> SUFFICES ASSUME Init PROVE IInv
  OBVIOUS
<1>1. /\ level = 0 /\ buffers = <<>> /\ active = NoBuffer /\ lock = FALSE /\ buffered = FALSE
      /\ sent = <<>> /\ stack = <<>> /\ phase = "script" /\ written = 0 /\ started = 0
      /\ dropped = {} /\ returned = {} /\ ended = {} /\ bailed = FALSE /\ reentered = FALSE
  BY DEF Init
<1>2. /\ <<>> \in Seq(Buffers) /\ <<>> \in Seq(Frames) /\ <<>> \in Texts /\ Len(<<>>) = 0
      /\ NoBuffer \in Buffers /\ In(<<>>) = {} /\ Rises(<<>>)
  BY EmptySeq, CallIsFrame, NoPieces
<1>3. OfStack = {} /\ (\A at : ~Is(at)) /\ Waits = 0
  BY <1>1, <1>2, NoTop DEF Waits
<1>4. Types /\ Histories
  <2>1. Histories
    BY <1>1 DEF Histories
  <2>2. level <= started /\ Len(buffers) <= started /\ level \in Nat /\ written \in Nat
        /\ started \in Nat
    BY <1>1, <1>2
  <2>3. phase \in Phases
    BY <1>1 DEF Phases
  <2>4. /\ buffers \in Seq(Buffers) /\ active \in Buffers /\ sent \in Texts
        /\ stack \in Seq(Frames)
    BY <1>1, <1>2
  <2> QED
    BY <1>1, <2>1, <2>2, <2>3, <2>4 DEF Types
<1>5. CallsOK
  BY <1>1, <1>3 DEF CallsOK
<1>6. Levels
  <2>1. (buffered <=> level > 0) /\ ~(level > 0)
    BY <1>1
  <2> QED
    BY <1>1, <1>3, <2>1 DEF Levels
<1>7. Ids /\ Statuses /\ Handled
  <2>1. ~(level > 0)
    BY <1>1
  <2> QED
    BY <1>3, <2>1 DEF Ids, Statuses, Handled
<1>8. Order /\ Complete /\ Over
  <2>1. PICK v : v = Levelled
    OBVIOUS
  <2>2. v[0] = <<>>
    BY <1>1, <2>1 DEF Levelled, Levelwise
  <2>3. Ordered(v, 0) /\ Every(v, 0) = {}
    BY <1>2, <2>2, Lowest
  <2>4. (1 .. written) \ dropped = {}
    BY <1>1
  <2> QED
    BY <1>1, <2>1, <2>3, <2>4 DEF Order, Complete, Over, Every
<1> QED
  BY <1>1, <1>4, <1>5, <1>6, <1>7, <1>8 DEF IInv, Good

LEMMA StutterKeeps == ASSUME IInv, UNCHANGED vars PROVE IInv'
BY DEF vars, core, past, IInv, Good, Types, Histories, CallsOK, Levels, Ids, BufferIds, Statuses,
       Honest, Order, Complete, Over, Handled, OfStack, OfBuffers, Is, Waits, Levelled, Top

\* Each step of the script, of a handler and of php_end_ob_buffer() keeps IInv.
LEMMA NextKeeps == ASSUME IInv, Next PROVE IInv'
<1>1. CASE EndBuffer
  BY <1>1, EnterKeeps, EndKeeps, SentKeeps DEF EndBuffer
<1>2. CASE Returns
  BY <1>2, ReturnsKeep
<1>3. CASE Echo
  BY <1>3, EchoKeeps
<1>4. CASE \E handler, chunk, erase \in BOOLEAN : ObStart(handler, chunk, erase)
  BY <1>4, ObStartKeeps
<1>5. CASE ObStartLocked
  BY <1>5, ObStartLockedKeeps
<1>6. CASE \E send, flush \in BOOLEAN : ObEnd(send, flush)
  BY <1>6, ObEndKeeps
<1>7. CASE Exit
  BY <1>7, ExitKeeps
<1>8. CASE EndScript
  BY <1>8, EndScriptKeeps
<1>9. CASE EndBuffers
  BY <1>9, EndBuffersKeeps
<1> QED
  BY <1>1, <1>2, <1>3, <1>4, <1>5, <1>6, <1>7, <1>8, <1>9 DEF Next

\* The calls, the levels, the buffers and the pieces agree, whenever no handler has
\* entered the call that it is called by.
THEOREM IInvHolds == Spec => []IInv
<1>1. IInv /\ [Next]_vars => IInv'
  BY NextKeeps, StutterKeeps
<1> QED
  BY InitIInv, <1>1, PTL DEF Spec

-----------------------------------------------------------------------------
(* What it shows *)

\* The level counts the buffers, output goes where it says, and the lock is set
\* while a handler runs.
LEMMA Agrees == IInv => StateAgrees
<1> SUFFICES ASSUME IInv PROVE StateAgrees
  OBVIOUS
<1>1. Types
  BY DEF IInv
<1>2. stack # <<>> => \A at : Is(at) <=> Top.at = at
  BY <1>1, TopIs
<1>3. ASSUME InCode PROVE Good
  BY <1>2, <1>3, NoTop DEF InCode, IInv
<1>4. LevelAgrees
  <2>1. SUFFICES ASSUME InCode
                 PROVE  /\ buffered <=> level > 0
                        /\ level > 0 => active # NoBuffer
                        /\ level > 1 => /\ Len(buffers) = level - 1
                                        /\ active.id \notin {b.id : b \in ToSet(buffers)}
    BY DEF LevelAgrees
  <2>2. Levels /\ Ids /\ level \in Nat
    BY <1>1, <1>3, <2>1 DEF Good, Types
  <2>3. buffered <=> level > 0
    BY <2>2 DEF Levels
  <2>4. level > 0 => active # NoBuffer
    <3>1. level > 0 => active.id # 0
      BY <2>2 DEF Ids, BufferIds
    <3> QED
      BY <3>1, CallIsFrame
  <2>5. ASSUME level > 1
        PROVE  Len(buffers) = level - 1 /\ active.id \notin {b.id : b \in ToSet(buffers)}
    <3>1. Len(buffers) = level - 1 /\ BufferIds
      BY <2>2, <2>5 DEF Levels, Ids
    <3>2. ASSUME NEW b \in ToSet(buffers) PROVE b.id # active.id
      <4>1. DOMAIN buffers = 1 .. Len(buffers)
        BY <1>1, LenProperties DEF Types
      <4>2. PICK i \in OfBuffers : b = buffers[i]
        BY <4>1 DEF ToSet, OfBuffers
      <4> QED
        BY <3>1, <4>2 DEF BufferIds
    <3> QED
      BY <3>1, <3>2
  <2> QED
    BY ONLY <2>3, <2>4, <2>5
<1>5. LockIsHandler
  <2>1. SUFFICES ASSUME ~bailed, ~reentered
                 PROVE  lock <=> \E f \in ToSet(stack) : f.at = "handler"
    BY DEF LockIsHandler
  <2>2. lock \in BOOLEAN /\ (lock <=> Is("handler")) /\ CallsOK
    BY <1>1, <2>1 DEF IInv, Good, CallsOK, Types
  <2>3. (\E f \in ToSet(stack) : f.at = "handler") <=> Is("handler")
    <3>1. DOMAIN stack = OfStack /\ Len(stack) \in Nat
      BY <1>1, LenProperties DEF Types, OfStack
    <3>2. ASSUME NEW f \in ToSet(stack), f.at = "handler" PROVE Is("handler")
      <4>1. PICK i \in OfStack : f = stack[i]
        BY <3>1 DEF ToSet
      <4>2. ~(i < Len(stack))
        BY <2>2, <3>2, <4>1 DEF CallsOK
      <4>3. i = Len(stack) /\ 1 <= Len(stack)
        <5>1. i \in 1 .. Len(stack) /\ Len(stack) \in Nat
          BY <3>1, <4>1 DEF OfStack
        <5> QED
          BY ONLY <4>2, <5>1
      <4>4. stack # <<>>
        BY <4>3, EmptySeq
      <4> QED
        BY <3>2, <4>1, <4>3, <4>4 DEF Is
    <3>3. ASSUME Is("handler") PROVE \E f \in ToSet(stack) : f.at = "handler"
      <4>1. stack # <<>> /\ Top.at = "handler"
        BY <1>2, <3>3 DEF Is
      <4>2. Top \in ToSet(stack)
        BY <1>1, <3>1, <4>1, TopIs DEF ToSet
      <4> QED
        BY <4>1, <4>2
    <3> QED
      BY <3>2, <3>3
  <2> QED
    BY ONLY <2>2, <2>3, Zenon
<1> QED
  BY <1>4, <1>5 DEF StateAgrees

THEOREM StateAgreesHolds == Spec => []StateAgrees
BY IInvHolds, Agrees, PTL

\* All pieces are there, once and in order.
LEMMA AllThere == IInv => NothingLost
<1> SUFFICES ASSUME IInv, InCode, ~reentered PROVE
      LET levels == IF phase = "over" THEN {0} ELSE 0 .. level IN
      /\ \A i \in levels : \A m, n \in DOMAIN Text(i) : m < n => Text(i)[m] < Text(i)[n]
      /\ \A i, j \in levels : i < j => \A x \in ToSet(Text(i)), y \in ToSet(Text(j)) : x < y
      /\ Pieces(levels) = (1 .. written) \ dropped
  BY DEF NothingLost
<1>1. Types /\ Good
  BY DEF IInv
<1>2. level \in Nat /\ Levels /\ Order /\ Complete /\ Over
  BY <1>1 DEF Types, Good
<1>3. PICK levels : levels = IF phase = "over" THEN {0} ELSE 0 .. level
  OBVIOUS
<1>4. levels \in SUBSET (0 .. level)
  BY <1>2, <1>3
<1>5. \A i \in 0 .. level : /\ Text(i) = Levelled[i] /\ Levelled[i] \in Texts
  <2>1. \A i \in 0 .. level : Levelled[i] \in Texts
    BY <1>1, <1>2, LevelwiseIs DEF Types, Levels, Levelled
  <2> QED
    BY <1>1, <2>1, TextIs
<1>6. \A i \in levels : /\ DOMAIN Text(i) = 1 .. Len(Text(i)) /\ ToSet(Text(i)) = In(Levelled[i])
                        /\ Rises(Text(i))
  <2>1. ASSUME NEW i \in levels
        PROVE  /\ DOMAIN Text(i) = 1 .. Len(Text(i)) /\ ToSet(Text(i)) = In(Levelled[i])
               /\ Rises(Text(i))
    <3>1. i \in 0 .. level /\ Text(i) = Levelled[i] /\ Text(i) \in Texts
      BY <1>4, <1>5
    <3>2. DOMAIN Text(i) = 1 .. Len(Text(i)) /\ ToSet(Text(i)) = In(Text(i))
      BY <3>1, ToSetIsIn, LenProperties DEF Texts
    <3>3. Rises(Text(i))
      BY <1>2, <3>1 DEF Order, Ordered
    <3> QED
      BY <3>1, <3>2, <3>3
  <2> QED
    BY <2>1
<1>7. \A i \in levels : \A m, n \in DOMAIN Text(i) : m < n => Text(i)[m] < Text(i)[n]
  BY <1>6 DEF Rises
<1>8. \A i, j \in levels : i < j => \A x \in ToSet(Text(i)), y \in ToSet(Text(j)) : x < y
  BY <1>2, <1>4, <1>6 DEF Order, Ordered
<1>9. Pieces(levels) = (1 .. written) \ dropped
  <2>1. Pieces(levels) = Those(Levelled, levels)
    BY <1>1, <1>2, <1>4, PiecesAre
  <2>2. CASE phase = "over"
    <3>1. Levelled[0] = sent
      BY <1>1, <1>2, LevelwiseIs DEF Types, Levels, Levelled
    <3>2. Those(Levelled, levels) = In(sent)
      BY <1>3, <2>2, <3>1 DEF Those
    <3> QED
      BY <1>2, <2>1, <2>2, <3>2 DEF Over
  <2>3. CASE phase # "over"
    <3>1. Those(Levelled, levels) = Every(Levelled, level)
      BY <1>3, <2>3 DEF Those, Every
    <3> QED
      BY <1>2, <2>1, <2>3, <3>1 DEF Complete
  <2> QED
    BY <2>2, <2>3
<1> QED
  BY <1>3, <1>7, <1>8, <1>9

\* For any buffers, chunks and flushes, and handlers that fail, nothing is lost but
\* what is cleaned, left out or given up.
THEOREM NothingLostHolds == Spec => []NothingLost
BY IInvHolds, AllThere, PTL

\* What handlers are told.
LEMMA Told == IInv => HandlerProtocol
<1> SUFFICES ASSUME IInv, stack # <<>>, Top.at = "handler"
             PROVE  (Top.start <=> active.id \notin returned) /\ active.id \notin ended
  BY DEF HandlerProtocol
<1>1. Types
  BY DEF IInv
<1>2. Is("handler") /\ ~Is("enter") /\ ~Is("end") /\ ~Is("sent")
  BY <1>1, TopIs
<1>3. Good
  BY <1>2 DEF IInv
<1>4. Statuses /\ Levels /\ level \in Nat /\ active.status \in BOOLEAN
  BY <1>1, <1>3 DEF Good, Types, Buffers
<1>5. level > 0
  BY <1>2, <1>4 DEF Levels
<1>6. active.handler /\ Top.start = ~active.status /\ Honest(active)
  BY <1>2, <1>4, <1>5 DEF Statuses
<1> QED
  BY <1>4, <1>6 DEF Honest

\* A handler is told that a call is the first exactly until one returns, and no
\* call follows the last.
THEOREM HandlerProtocolHolds == Spec => []HandlerProtocol
BY IInvHolds, Told, PTL

-----------------------------------------------------------------------------
(* The types *)

\* What is in the buffers, and in those that have been left, has been written.
Fits(b) == b.id \in 0 .. started /\ In(b.text) \subseteq 1 .. written
Known ==
    /\ Fits(active) /\ \A i \in OfBuffers : Fits(buffers[i])
    /\ In(sent) \subseteq 1 .. written

\* The stack of buffers gets nothing but the active one.
Moved == \A i \in OfBuffers' : \/ i \in OfBuffers /\ buffers'[i] = buffers[i]
                               \/ buffers'[i] = active

LEMMA KnownMoved ==
    ASSUME Types, Known, started' \in Nat, written' \in Nat,
           started <= started', written <= written', Moved,
           active'.id \in 0 .. started', In(active'.text) \subseteq 1 .. written',
           In(sent') \subseteq 1 .. written'
    PROVE  Known'
<1>1. started \in Nat /\ written \in Nat
  BY DEF Types
<1>2. \A b : Fits(b) => b.id \in 0 .. started' /\ In(b.text) \subseteq 1 .. written'
  BY <1>1 DEF Fits
<1>3. \A i \in OfBuffers' : Fits(buffers[i])'
  <2>1. ASSUME NEW i \in OfBuffers' PROVE Fits(buffers'[i])
    BY <2>1 DEF Known, Moved
  <2> QED
    BY <1>2, <2>1 DEF Fits
<1> QED
  BY <1>3 DEF Known, Fits

LEMMA ActiveAppended ==
    ASSUME Types, buffers' = Append(buffers, active) PROVE Moved
<1>1. /\ Len(buffers) \in Nat /\ Len(buffers') = Len(buffers) + 1
      /\ \A i \in 1 .. Len(buffers) : buffers'[i] = buffers[i]
      /\ buffers'[Len(buffers) + 1] = active
  BY Pushed DEF Types
<1>2. \A i \in 1 .. Len(buffers') : i \in 1 .. Len(buffers) \/ i = Len(buffers) + 1
  BY <1>1
<1> QED
  BY <1>1, <1>2 DEF Moved, OfBuffers

\* The buffers that a step moves.
LEMMA NextMoves == ASSUME IInv, [Next]_vars PROVE Moved
<1>1. Types
  BY DEF IInv
<1>2. CASE buffers' = buffers
  BY <1>2 DEF Moved, OfBuffers
<1>3. CASE buffers' = Append(buffers, active)
  BY <1>1, <1>3, ActiveAppended
<1>4. CASE buffers' = <<>>
  <2>1. Len(buffers') = 0
    BY <1>4, EmptySeq
  <2> QED
    BY <2>1 DEF Moved, OfBuffers
<1>5. CASE buffers' = <<active>>
  <2>1. OfBuffers' = {1} /\ buffers'[1] = active
    BY <1>5 DEF OfBuffers
  <2> QED
    BY <2>1 DEF Moved
<1>6. CASE End
  <2>1. level > 0 /\ Good
    BY <1>6, EndEffects, TopIs DEF IInv
  <2>2. level' = level - 1 /\ buffers' = (IF level > 1 THEN Front(buffers) ELSE buffers)
    BY <1>6, EndEffects
  <2>3. CASE level > 1
    <3>1. level \in Nat /\ level' > 0
      BY <1>1, <2>2, <2>3 DEF Types
    <3>2. \A i \in OfBuffers' : i \in OfBuffers /\ buffers'[i] = buffers[i]
      BY <1>1, <2>1, <2>2, <2>3, EndBelow
    <3> QED
      BY <3>2 DEF Moved
  <2>4. CASE ~(level > 1)
    BY <1>2, <2>2, <2>4
  <2> QED
    BY <2>3, <2>4
<1>7. CASE Enter \/ Returns \/ Echo \/ ObStartLocked \/ Exit \/ EndScript \/ EndBuffers
           \/ (\E send, flush \in BOOLEAN : ObEnd(send, flush)) \/ UNCHANGED vars
  BY <1>2, <1>7 DEF Enter, Returns, Return, Return_With, Echo, ObStartLocked, Exit, EndScript,
                    EndBuffers, ObEnd, vars, core
<1>8. CASE Sent
  BY <1>2, <1>3, <1>8 DEF Sent, Sent_Then, Resume
<1>9. CASE \E handler, chunk, erase \in BOOLEAN : ObStart(handler, chunk, erase)
  BY <1>3, <1>4, <1>5, <1>9 DEF ObStart
<1> QED
  BY <1>6, <1>7, <1>8, <1>9 DEF Next, EndBuffer

LEMMA NextKnown == ASSUME IInv, Known, [Next]_vars PROVE Known'
<1>1. Types /\ Types' /\ Moved
  <2>1. IInv'
    BY NextKeeps, StutterKeeps
  <2> QED
    BY <2>1, NextMoves DEF IInv
<1>2. /\ started \in Nat /\ written \in Nat /\ started' \in Nat /\ written' \in Nat
      /\ active.text \in Texts /\ sent \in Texts
  BY <1>1 DEF Types, Buffers
<1>3. ASSUME started <= started', written <= written',
             active'.id \in 0 .. started', In(active'.text) \subseteq 1 .. written',
             In(sent') \subseteq 1 .. written'
      PROVE  Known'
  BY <1>1, <1>2, <1>3, KnownMoved
<1>4. /\ active.id \in 0 .. started /\ In(active.text) \subseteq 1 .. written
      /\ In(sent) \subseteq 1 .. written
  BY DEF Known, Fits
<1>5. CASE active' = active /\ sent' = sent /\ started' = started /\ written' = written
  BY <1>2, <1>3, <1>4, <1>5
<1>6. CASE Enter \/ Returns \/ ObStartLocked \/ Exit \/ EndScript \/ EndBuffers
           \/ (\E send, flush \in BOOLEAN : ObEnd(send, flush)) \/ UNCHANGED vars
  BY <1>5, <1>6 DEF Enter, Returns, Return, Return_With, ObStartLocked, Exit, EndScript,
                    EndBuffers, ObEnd, vars, core, past
<1>7. CASE End
  <2>1. /\ level' = level - 1 /\ written' = written /\ started' = started
        /\ ~reentered /\ level > 0
    BY <1>7, EndEffects
  <2>2. PICK u \in Texts :
          /\ In(u) \subseteq In(active.text)
          /\ IF level > 1
             THEN /\ active' = [Last(buffers) EXCEPT !.text = Last(buffers).text \o u]
                  /\ sent' = sent
             ELSE active' = active /\ sent' = sent \o u
    BY <1>7, EndEffects
  <2>3. CASE level > 1
    <3>1. /\ Last(buffers) = buffers[level - 1] /\ Last(buffers) \in Buffers
          /\ level - 1 \in OfBuffers
      BY <1>1, <1>7, <2>1, <2>3, EndBelow, EndEffects DEF IInv
    <3>2. PICK b \in Buffers : b = Last(buffers)
      BY <3>1
    <3>3. Fits(b) /\ b.text \in Texts
      BY <3>1, <3>2 DEF Known, Buffers
    <3>4. PICK x \in Texts : x = b.text \o u /\ In(x) = In(b.text) \cup In(u)
      BY <3>3, JoinedText
    <3>5. active' = [b EXCEPT !.text = x] /\ sent' = sent
      BY <2>2, <2>3, <3>2, <3>4
    <3>6. active'.id = b.id /\ active'.text = x
      BY <3>5 DEF Buffers
    <3> QED
      BY <1>2, <1>3, <1>4, <2>1, <2>2, <3>3, <3>4, <3>5, <3>6 DEF Fits
  <2>4. CASE ~(level > 1)
    <3>1. active' = active /\ sent' = sent \o u
      BY <2>2, <2>4
    <3>2. In(sent') = In(sent) \cup In(u)
      BY <1>2, <3>1, JoinedText
    <3> QED
      BY <1>2, <1>3, <1>4, <2>1, <2>2, <3>1, <3>2
  <2> QED
    BY <2>3, <2>4
<1>8. CASE Sent
  <2>1. /\ ~reentered /\ stack # <<>> /\ Top.at = "sent" /\ sent' = sent
        /\ written' = written /\ started' = started
    BY <1>8 DEF Sent, Sent_Then, InEnd, past
  <2>2. /\ Top \in Frames /\ Top = stack[Len(stack)] /\ Len(stack) \in OfStack
    BY <1>1, <2>1, TopIs
  <2>3. Top.saved.id \in 1 .. started /\ Top.saved \in Buffers
    <3>1. Ids
      BY <2>1 DEF IInv, Good
    <3> QED
      BY <2>1, <2>2, <3>1 DEF Ids, Frames
  <2>4. \/ active' = [Top.saved EXCEPT !.text = <<>>, !.status = TRUE]
        \/ active' = NoBuffer \/ active' = active
    BY <1>8 DEF Sent, Sent_Then, Resume
  <2>5. CASE active' = [Top.saved EXCEPT !.text = <<>>, !.status = TRUE]
    <3>1. active'.id = Top.saved.id /\ active'.text = <<>>
      BY <2>3, <2>5 DEF Buffers
    <3> QED
      BY <1>2, <1>3, <1>4, <2>1, <2>3, <3>1, NoPieces
  <2>6. CASE active' = NoBuffer
    <3>1. active'.id = 0 /\ active'.text = <<>>
      BY <2>6 DEF NoBuffer
    <3> QED
      BY <1>2, <1>3, <1>4, <2>1, <3>1, NoPieces
  <2> QED
    BY <1>5, <2>1, <2>4, <2>5, <2>6
<1>9. CASE Echo
  <2>1. /\ written' = written + 1 /\ started' = started /\ active'.id = active.id
        /\ level \in Nat
    BY <1>1, <1>9, EchoEffects DEF Types
  <2>2. PICK p \in Texts :
          /\ In(p) = {written'}
          /\ level = 0 => active' = active /\ sent' = sent \o p
          /\ level > 0 => active'.text = active.text \o p /\ sent' = sent
    BY <1>9, EchoEffects
  <2>3. In(p) \subseteq 1 .. written' /\ 1 .. written \subseteq 1 .. written'
    BY <1>2, <2>1, <2>2
  <2>4. /\ In(active.text \o p) = In(active.text) \cup In(p)
        /\ In(sent \o p) = In(sent) \cup In(p)
    BY <1>2, JoinedText
  <2>5. In(active'.text) \subseteq 1 .. written' /\ In(sent') \subseteq 1 .. written'
    <3>1. CASE level = 0
      <4>1. active' = active /\ sent' = sent \o p
        BY <2>2, <3>1
      <4> QED
        BY ONLY <1>4, <2>3, <2>4, <4>1
    <3>2. CASE level > 0
      <4>1. active'.text = active.text \o p /\ sent' = sent
        BY <2>2, <3>2
      <4> QED
        BY ONLY <1>4, <2>3, <2>4, <4>1
    <3> QED
      BY <2>1, <3>1, <3>2
  <2> QED
    BY <1>2, <1>3, <1>4, <2>1, <2>5
<1>10. CASE \E handler, chunk, erase \in BOOLEAN : ObStart(handler, chunk, erase)
  <2>1. /\ started' = started + 1 /\ written' = written /\ sent' = sent
        /\ active'.id = started + 1 /\ active'.text = <<>>
    BY <1>10 DEF ObStart
  <2> QED
    BY <1>2, <1>3, <1>4, <2>1, NoPieces
<1> QED
  BY <1>6, <1>7, <1>8, <1>9, <1>10 DEF Next, EndBuffer

LEMMA InitKnown == Init => Known
<1> SUFFICES ASSUME Init PROVE Known
  OBVIOUS
<1>1. OfBuffers = {}
  <2>1. Len(buffers) = 0
    BY EmptySeq DEF Init
  <2> QED
    BY <2>1 DEF OfBuffers
<1>2. active.id = 0 /\ active.text = <<>> /\ sent = <<>> /\ started = 0
  BY DEF Init, NoBuffer
<1> QED
  BY <1>1, <1>2, NoPieces DEF Known, Fits

LEMMA Typed == IInv /\ Known => TypeOK
<1> SUFFICES ASSUME IInv, Known PROVE TypeOK
  OBVIOUS
<1>1. Types /\ Histories
  BY DEF IInv
<1>2. level \in 0 .. started /\ Len(buffers) <= started /\ phase \in Phases
  BY <1>1 DEF Types
<1>3. \A b \in ToSet(buffers) \cup {active} :
        b.id \in 0 .. started /\ ToSet(b.text) \subseteq 1 .. written
  <2>1. ASSUME NEW b \in ToSet(buffers) \cup {active}
        PROVE  b.id \in 0 .. started /\ ToSet(b.text) \subseteq 1 .. written
    <3>1. DOMAIN buffers = OfBuffers
      BY <1>1, LenProperties DEF Types, OfBuffers
    <3>2. Fits(b) /\ b \in Buffers
      <4>1. CASE b = active
        BY <1>1, <4>1 DEF Known, Types
      <4>2. CASE b # active
        <5>1. PICK i \in OfBuffers : b = buffers[i]
          BY <3>1, <4>2 DEF ToSet
        <5>2. buffers[i] \in Buffers
          BY <1>1, <5>1, ElementOfSeq DEF Types, OfBuffers
        <5> QED
          BY <5>1, <5>2 DEF Known
      <4> QED
        BY <4>1, <4>2
    <3>3. ToSet(b.text) = In(b.text)
      BY <3>2, ToSetIsIn DEF Buffers
    <3> QED
      BY <3>2, <3>3 DEF Fits
  <2> QED
    BY <2>1
<1>4. ToSet(sent) \subseteq 1 .. written
  BY <1>1, ToSetIsIn DEF Types, Known
<1> QED
  BY <1>1, <1>2, <1>3, <1>4 DEF TypeOK, Histories, Phases

\* Nothing is in a buffer that has not been written, and no buffer is there that has
\* not been started.
THEOREM TypeOKHolds == Spec => []TypeOK
<1>1. IInv /\ Known /\ [Next]_vars => Known'
  BY NextKnown
<1> QED
  BY IInvHolds, InitKnown, <1>1, Typed, PTL DEF Spec
=============================================================================
