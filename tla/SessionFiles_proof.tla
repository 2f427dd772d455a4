------------------------- MODULE SessionFiles_proof -------------------------
(***************************************************************************)
(* Proof that requests of one session take turns, that no request's data   *)
(* is read while another one changes it, and that a file holds what was    *)
(* last written to it, for any numbers of requests, ids, bytes and starts. *)
(*                                                                         *)
(* All of it rests on the lock: a request between session_start() and the  *)
(* end of its write that has a file open holds its lock alone.  What it    *)
(* knows of the file - the data it has read, the size that decides about   *)
(* ftruncate() - stays true for that long and no longer.                   *)
(***************************************************************************)
EXTENDS SessionFiles, FiniteSetTheorems, SequenceTheorems, TLAPS

Labels == {"out", "lock, read", "read", "gc", "gc unlink", "script", "unlink", "unlinked",
           "lock, write", "write", "pwrite"}

\* Data of a session.
Text == {s \in Seq(1 .. MaxStarts) : Len(s) <= MaxSize}

Files == Inodes \cup {NoFile}
SomeId == Ids \cup {NoId}

Session == [at : Labels, id : SomeId, fd : Files, lastkey : SomeId, st_size : 0 .. MaxSize,
            seen : Text, data : Text, n : 0 .. MaxStarts, size_of : Files, target : SomeId]

Types ==
    /\ dir \in [Ids -> Files]
    /\ content \in [Inodes -> Text]
    /\ meant \in [Inodes -> Text]
    /\ locked \in [Inodes -> SUBSET Requests]
    /\ inodes \in Nat
    /\ starts \in 0 .. MaxStarts
    /\ req \in [Requests -> Session]

\* The names in the directory are of files that exist.
NamesExist == \A k \in Ids : dir[k] <= inodes

\* What a request can rely on where it is.
Knows(r) ==
    /\ req[r].at # "out" => req[r].id \in Ids /\ req[r].n \in 1 .. starts
    /\ req[r].fd <= inodes
    /\ req[r].at \in {"lock, read", "lock, write", "read", "write", "pwrite"} => req[r].fd # NoFile
    /\ req[r].at \in {"out", "unlink", "unlinked"} => req[r].fd = NoFile
    /\ req[r].at \in {"gc", "gc unlink", "script"} /\ req[r].fd # NoFile =>
          content[req[r].fd] = req[r].seen /\ req[r].st_size = Len(req[r].seen)
    /\ req[r].at = "lock, write" => req[r].size_of = NoFile
    /\ req[r].at = "write" /\ req[r].size_of = req[r].fd => req[r].st_size = Len(content[req[r].fd])
    /\ req[r].at = "pwrite" /\ req[r].size_of = req[r].fd => Len(content[req[r].fd]) <= Len(req[r].data)

\* Who has a file open and is not waiting for it holds its lock, alone.
LockHeld ==
    /\ \A r \in Requests, i \in Inodes :
          r \in locked[i] <=> req[r].fd = i /\ req[r].at \notin {"lock, read", "lock, write"}
    /\ \A i \in Inodes, q, r \in Requests : q \in locked[i] /\ r \in locked[i] => q = r

\* A file that does not hold the last data has been emptied by the request that
\* is about to write it.
Emptied(r, i) == At(r, "pwrite") /\ req[r].fd = i /\ Len(req[r].data) < req[r].st_size
LastWrite == \A i \in Inodes \ (cut \cup misled) :
    content[i] = meant[i] \/ \E r \in Requests : Emptied(r, i)

\* A session that has not come to its write has opened one file, the others two
\* at most.
OpenedOne(r) == req[r].at \notin {"out", "lock, write", "write", "pwrite"}
Opened == {req[r].n : r \in {q \in Requests : OpenedOne(q)}}
FewFiles ==
    /\ \A q, r \in Requests : req[q].at # "out" /\ req[r].at # "out" /\ req[q].n = req[r].n => q = r
    /\ inodes + Cardinality(Opened) <= 2 * starts

SInv ==
    /\ Types /\ NamesExist
    /\ \A r \in Requests : Knows(r)
    /\ LockHeld /\ LastWrite /\ FewFiles

-----------------------------------------------------------------------------
(* What a step of one request leaves to the others *)

\* Numbers of sessions and files.
LEMMA SessionFields ==
    ASSUME NEW s \in Session
    PROVE  s.n \in Nat /\ s.fd \in Nat /\ (s.fd = NoFile \/ s.fd \in Inodes)
BY MaxStartsNat DEF Session, Files, Inodes, NoFile

\* NoFile stands for no inode.
LEMMA NoFileIsNone == NoFile \notin Inodes
BY MaxStartsNat DEF Inodes, NoFile

\* A change of one request's session.
LEMMA Changed ==
    ASSUME Types, NEW r \in Requests, NEW s \in Session, req' = [req EXCEPT ![r] = s]
    PROVE  /\ req' \in [Requests -> Session]
           /\ req'[r] = s
           /\ \A q \in Requests \ {r} : req'[q] = req[q]
BY DEF Types

\* The numbers of the sessions that have opened one file are finitely many.
LEMMA OpenedFinite ==
    ASSUME SInv
    PROVE  /\ IsFiniteSet(Opened) /\ Cardinality(Opened) \in Nat
           /\ \A q \in Requests : OpenedOne(q) => req[q].n \in Opened /\ req[q].n \in 1 .. starts
<1>1. \A q \in Requests : OpenedOne(q) => req[q].n \in 1 .. starts
  BY DEF SInv, Knows, OpenedOne
<1>2. Opened \subseteq 1 .. starts
  BY <1>1 DEF Opened
<1>3. IsFiniteSet(1 .. starts)
  BY FS_Interval DEF SInv, Types
<1>4. IsFiniteSet(Opened) /\ Cardinality(Opened) \in Nat
  BY <1>2, <1>3, FS_Subset, FS_CardinalityType
<1> QED
  BY <1>1, <1>4 DEF Opened

\* A step that opens no file, and starts no session.
LEMMA FewKept ==
    ASSUME SInv, NEW r \in Requests,
           \A q \in Requests \ {r} : req'[q] = req[q],
           OpenedOne(r)' => OpenedOne(r) /\ req'[r].n = req[r].n,
           inodes' = inodes, starts' = starts
    PROVE  inodes' + Cardinality(Opened') <= 2 * starts'
<1>1. \A q \in Requests : OpenedOne(q)' => OpenedOne(q) /\ req'[q].n = req[q].n
  BY DEF OpenedOne
<1>2. Opened' \subseteq Opened
  BY <1>1 DEF Opened
<1>3. Cardinality(Opened') <= Cardinality(Opened) /\ Cardinality(Opened') \in Nat
  BY <1>2, OpenedFinite, FS_Subset, FS_CardinalityType
<1> QED
  BY <1>3, OpenedFinite DEF SInv, FewFiles, Types

\* What is in use stays so when there is more.
LEMMA LongerBounds ==
    ASSUME NEW a \in Nat, NEW b \in Nat, b >= a, NEW x \in Nat
    PROVE  (x \in 1 .. a => x \in 1 .. b) /\ (x <= a => x <= b)
OBVIOUS

\* The numbers in the state.
LEMMA Numbers ==
    ASSUME Types
    PROVE  /\ starts \in Nat /\ inodes \in Nat
           /\ \A q \in Requests : /\ req[q].n \in Nat /\ req[q].fd \in Nat
                                  /\ req[q].fd = NoFile \/ req[q].fd \in Inodes
<1>1. starts \in Nat /\ inodes \in Nat
  BY MaxStartsNat DEF Types
<1>2. \A q \in Requests : req[q] \in Session
  BY DEF Types
<1> QED
  BY <1>1, <1>2, SessionFields

\* The file of another request is not changed, if it holds the lock.
LEMMA FileKept ==
    ASSUME NEW r \in Requests, NEW q \in Requests \ {r}, Types, LockHeld,
           \A i \in Inodes : content'[i] = content[i] \/ r \in locked[i]
    PROVE  req[q].fd # NoFile /\ req[q].at \notin {"lock, read", "lock, write"} =>
              content'[req[q].fd] = content[req[q].fd]
<1>1. ASSUME NEW i \in Inodes, req[q].fd = i, req[q].at \notin {"lock, read", "lock, write"}
      PROVE  content'[i] = content[i]
  <2>1. q \in locked[i]
    BY <1>1 DEF LockHeld
  <2>2. r \notin locked[i]
    BY <2>1 DEF LockHeld
  <2> QED
    BY <2>2
<1>2. req[q].fd = NoFile \/ req[q].fd \in Inodes
  BY Numbers
<1> QED
  BY <1>1, <1>2

\* What the others know stays true.
LEMMA KnowsKept ==
    ASSUME NEW r \in Requests, NEW q \in Requests \ {r}, req'[q] = req[q],
           Types, Knows(q),
           inodes' \in Nat, starts' \in Nat, inodes' >= inodes, starts' >= starts,
           req[q].fd # NoFile /\ req[q].at \notin {"lock, read", "lock, write"} =>
              content'[req[q].fd] = content[req[q].fd]
    PROVE  Knows(q)'
<1>1. starts \in Nat /\ inodes \in Nat /\ req[q].n \in Nat /\ req[q].fd \in Nat
  BY Numbers
<1>3. /\ req[q].n \in 1 .. starts => req[q].n \in 1 .. starts'
      /\ req[q].fd <= inodes => req[q].fd <= inodes'
  BY <1>1, LongerBounds
<1>4. /\ req[q].at # "out" => req[q].id \in Ids /\ req[q].n \in 1 .. starts'
      /\ req[q].fd <= inodes'
  BY <1>3 DEF Knows
<1>5. /\ req[q].at \in {"lock, read", "lock, write", "read", "write", "pwrite"} => req[q].fd # NoFile
      /\ req[q].at \in {"out", "unlink", "unlinked"} => req[q].fd = NoFile
      /\ req[q].at = "lock, write" => req[q].size_of = NoFile
  BY DEF Knows
<1>6. /\ req[q].at \in {"gc", "gc unlink", "script"} /\ req[q].fd # NoFile =>
            content'[req[q].fd] = req[q].seen /\ req[q].st_size = Len(req[q].seen)
      /\ req[q].at = "write" /\ req[q].size_of = req[q].fd => req[q].st_size = Len(content'[req[q].fd])
      /\ req[q].at = "pwrite" /\ req[q].size_of = req[q].fd => Len(content'[req[q].fd]) <= Len(req[q].data)
  BY <1>5 DEF Knows
<1> QED
  BY <1>4, <1>5, <1>6 DEF Knows

\* A lock is taken when it is free.
LEMMA LockHeldKept ==
    ASSUME LockHeld, NEW r \in Requests,
           \A q \in Requests \ {r} : req'[q] = req[q],
           \A q \in Requests \ {r}, i \in Inodes : q \in locked'[i] <=> q \in locked[i],
           \A i \in Inodes : r \in locked'[i] <=>
              req'[r].fd = i /\ req'[r].at \notin {"lock, read", "lock, write"},
           \A i \in Inodes : r \in locked'[i] => r \in locked[i] \/ locked[i] = {}
    PROVE  LockHeld'
<1>1. ASSUME NEW q \in Requests, NEW i \in Inodes
      PROVE  q \in locked'[i] <=>
                req'[q].fd = i /\ req'[q].at \notin {"lock, read", "lock, write"}
  <2>1. CASE q = r
    BY <2>1
  <2>2. CASE q # r
    <3>1. q \in locked[i] <=> req[q].fd = i /\ req[q].at \notin {"lock, read", "lock, write"}
      BY DEF LockHeld
    <3>2. req'[q] = req[q] /\ (q \in locked'[i] <=> q \in locked[i])
      BY <2>2
    <3> QED
      BY <3>1, <3>2
  <2> QED
    BY <2>1, <2>2
<1>2. ASSUME NEW i \in Inodes, NEW p \in Requests, NEW q \in Requests,
             p \in locked'[i], q \in locked'[i]
      PROVE  p = q
  <2>1. \A x \in Requests, y \in Requests : x \in locked[i] /\ y \in locked[i] => x = y
    BY DEF LockHeld
  <2>2. p # r => p \in locked[i]
    BY <1>2
  <2>3. q # r => q \in locked[i]
    BY <1>2
  <2>4. CASE r \in locked'[i]
    BY <2>1, <2>2, <2>3, <2>4
  <2>5. CASE r \notin locked'[i]
    BY <1>2, <2>1, <2>2, <2>3, <2>5
  <2> QED
    BY <2>4, <2>5
<1> QED
  BY <1>1, <1>2 DEF LockHeld

\* The last data of a file that is not touched.
LEMMA LastWriteKept ==
    ASSUME LockHeld, LastWrite, NEW r \in Requests,
           \A q \in Requests \ {r} : req'[q] = req[q],
           \A i \in Inodes \ (cut' \cup misled') :
              \/ content'[i] = meant'[i]
              \/ Emptied(r, i)'
              \/ /\ r \notin locked[i] /\ i \notin cut \cup misled
                 /\ content'[i] = content[i] /\ meant'[i] = meant[i]
    PROVE  LastWrite'
<1> SUFFICES ASSUME NEW i \in Inodes \ (cut' \cup misled')
             PROVE  content'[i] = meant'[i] \/ \E q \in Requests : Emptied(q, i)'
  BY DEF LastWrite
<1>1. CASE content'[i] = meant'[i] \/ Emptied(r, i)'
  BY <1>1
<1>2. ASSUME r \notin locked[i], i \notin cut \cup misled,
             content'[i] = content[i], meant'[i] = meant[i]
      PROVE  content'[i] = meant'[i] \/ \E q \in Requests : Emptied(q, i)'
  <2>1. ASSUME NEW q \in Requests, Emptied(q, i) PROVE Emptied(q, i)'
    <3>1. q \in locked[i]
      BY <2>1 DEF LockHeld, Emptied, At
    <3>2. req'[q] = req[q]
      BY <1>2, <3>1
    <3> QED
      BY <2>1, <3>2 DEF Emptied, At
  <2> QED
    BY <1>2, <2>1 DEF LastWrite
<1> QED
  BY <1>1, <1>2

\* A session is the one it was or a new one.
LEMMA NumbersDiffer ==
    ASSUME Types, Types', \A q \in Requests : Knows(q), NEW r \in Requests,
           \A p, q \in Requests : req[p].at # "out" /\ req[q].at # "out" /\ req[p].n = req[q].n => p = q,
           \A q \in Requests \ {r} : req'[q] = req[q],
           req'[r].at # "out" => \/ req[r].at # "out" /\ req'[r].n = req[r].n
                                 \/ req'[r].n > starts,
           NEW p \in Requests, NEW q \in Requests,
           req'[p].at # "out", req'[q].at # "out", req'[p].n = req'[q].n
    PROVE  p = q
<1>1. ASSUME NEW x \in Requests, req[x].at # "out" PROVE ~(req[x].n > starts)
  <2>1. req[x].n \in 1 .. starts
    BY <1>1 DEF Knows
  <2>2. starts \in Nat
    BY Numbers
  <2> QED
    BY <2>1, <2>2
<1>2. CASE p # r /\ q # r
  BY <1>2
<1>3. ASSUME NEW x \in Requests \ {r}, req'[x].at # "out", req'[r].at # "out", req'[r].n = req'[x].n
      PROVE  FALSE
  <2>1. req'[x] = req[x]
    OBVIOUS
  <2>2. ~(req'[r].n > starts)
    BY <1>1, <1>3, <2>1
  <2> QED
    BY <1>3, <2>1, <2>2
<1>4. CASE p = r \/ q = r
  BY <1>3, <1>4
<1> QED
  BY <1>2, <1>4

\* A request takes a step, and changes no file but one whose lock it holds.
LEMMA StepKeeps ==
    ASSUME SInv, NEW r \in Requests,
           Types', NamesExist', Knows(r)',
           \A q \in Requests \ {r} : req'[q] = req[q],
           inodes' >= inodes, starts' >= starts,
           \A q \in Requests \ {r}, i \in Inodes : q \in locked'[i] <=> q \in locked[i],
           \A i \in Inodes : r \in locked'[i] <=>
              req'[r].fd = i /\ req'[r].at \notin {"lock, read", "lock, write"},
           \A i \in Inodes : r \in locked'[i] => r \in locked[i] \/ locked[i] = {},
           \A i \in Inodes : content'[i] = content[i] \/ r \in locked[i],
           \A i \in Inodes \ (cut' \cup misled') :
              \/ content'[i] = meant'[i]
              \/ Emptied(r, i)'
              \/ /\ r \notin locked[i] /\ i \notin cut \cup misled
                 /\ content'[i] = content[i] /\ meant'[i] = meant[i],
           req'[r].at # "out" => \/ req[r].at # "out" /\ req'[r].n = req[r].n
                                 \/ req'[r].n > starts,
           inodes' + Cardinality(Opened') <= 2 * starts'
    PROVE  SInv'
<1>1. Types /\ LockHeld /\ LastWrite /\ FewFiles /\ \A q \in Requests : Knows(q)
  BY DEF SInv
<1>n. inodes' \in Nat /\ starts' \in Nat
  BY ONLY Types', MaxStartsNat DEF Types
<1>2. ASSUME NEW q \in Requests PROVE Knows(q)'
  <2>1. CASE q # r
    <3>1. q \in Requests \ {r} /\ req'[q] = req[q]
      BY <2>1
    <3>2. \A i \in Inodes : content'[i] = content[i] \/ r \in locked[i]
      OBVIOUS
    <3>3. req[q].fd # NoFile /\ req[q].at \notin {"lock, read", "lock, write"} =>
             content'[req[q].fd] = content[req[q].fd]
      BY ONLY <1>1, <3>1, <3>2, r \in Requests, FileKept
    <3>4. Types /\ Knows(q) /\ inodes' >= inodes /\ starts' >= starts
      BY <1>1
    <3> QED
      BY ONLY <1>n, <3>1, <3>3, <3>4, r \in Requests, KnowsKept
  <2> QED
    BY <2>1
<1>3. LockHeld'
  BY <1>1, LockHeldKept
<1>4. LastWrite'
  BY <1>1, LastWriteKept
<1>5. \A p, q \in Requests :
         req'[p].at # "out" /\ req'[q].at # "out" /\ req'[p].n = req'[q].n => p = q
  BY <1>1, NumbersDiffer DEF FewFiles
<1>6. FewFiles'
  BY <1>5 DEF FewFiles
<1> QED
  BY <1>2, <1>3, <1>4, <1>6 DEF SInv

\* A file that is not touched, by a request that has not emptied one, is as it
\* was meant or another request's.
LEMMA Untouched ==
    ASSUME SInv, NEW r \in Requests, ~At(r, "pwrite"),
           UNCHANGED <<content, past>>
    PROVE  \A i \in Inodes \ (cut' \cup misled') :
              \/ content'[i] = meant'[i]
              \/ /\ r \notin locked[i] /\ i \notin cut \cup misled
                 /\ content'[i] = content[i] /\ meant'[i] = meant[i]
<1> SUFFICES ASSUME NEW i \in Inodes \ (cut \cup misled), r \in locked[i]
             PROVE  content[i] = meant[i]
  BY DEF past
<1>1. ASSUME NEW q \in Requests PROVE ~Emptied(q, i)
  BY DEF SInv, LockHeld, Emptied, At
<1> QED
  BY <1>1 DEF SInv, LastWrite

\* A step between two files: the request opens none and closes none, nor does it
\* come to or from a lock.
LEMMA GoesOnKeeps ==
    ASSUME SInv, NEW r \in Requests, NEW s \in Session, req' = [req EXCEPT ![r] = s],
           s.fd = req[r].fd, s.n = req[r].n \/ s.at = "out",
           req[r].at \notin {"out", "lock, read", "lock, write", "pwrite"},
           s.at \notin {"lock, read", "lock, write"},
           s.at \in {"out", "lock, write", "write", "pwrite"} \/ OpenedOne(r),
           dir' \in [Ids -> Files], \A k \in Ids : dir'[k] <= inodes,
           UNCHANGED <<content, inodes, locked, starts, past>>,
           Knows(r)'
    PROVE  SInv'
<1>1. /\ req' \in [Requests -> Session] /\ req'[r] = s
      /\ \A q \in Requests \ {r} : req'[q] = req[q]
  BY Changed DEF SInv
<1>2. Types' /\ NamesExist'
  BY <1>1 DEF SInv, Types, NamesExist, past
<1>3. inodes' + Cardinality(Opened') <= 2 * starts'
  <2>1. OpenedOne(r)' => OpenedOne(r) /\ req'[r].n = req[r].n
    BY <1>1 DEF OpenedOne
  <2>2. inodes' = inodes /\ starts' = starts
    OBVIOUS
  <2> QED
    BY <1>1, <2>1, <2>2, FewKept
<1>4. inodes' >= inodes /\ starts' >= starts
  <2>1. starts \in Nat /\ inodes \in Nat
    BY Numbers DEF SInv
  <2>2. starts' = starts /\ inodes' = inodes
    OBVIOUS
  <2> QED
    BY ONLY <2>1, <2>2
<1>5. ASSUME NEW i \in Inodes
      PROVE  r \in locked'[i] <=> req'[r].fd = i /\ req'[r].at \notin {"lock, read", "lock, write"}
  <2>1. r \in locked[i] <=> req[r].fd = i /\ req[r].at \notin {"lock, read", "lock, write"}
    BY DEF SInv, LockHeld
  <2>2. locked' = locked /\ req'[r] = s
    BY <1>1
  <2> QED
    BY <2>1, <2>2
<1>6. ~At(r, "pwrite")
  BY DEF At
<1> QED
  BY <1>1, <1>2, <1>3, <1>4, <1>5, <1>6, Untouched, StepKeeps

-----------------------------------------------------------------------------
(* The steps of the script and of the collector *)

\* The states of a request, with a new label.
LEMMA NewLabel ==
    ASSUME NEW v \in Session, NEW a \in Labels
    PROVE  /\ [v EXCEPT !.at = a] \in Session
           /\ [v EXCEPT !.at = a].at = a
           /\ [v EXCEPT !.at = a].id = v.id /\ [v EXCEPT !.at = a].fd = v.fd
           /\ [v EXCEPT !.at = a].st_size = v.st_size /\ [v EXCEPT !.at = a].seen = v.seen
           /\ [v EXCEPT !.at = a].data = v.data /\ [v EXCEPT !.at = a].n = v.n
           /\ [v EXCEPT !.at = a].size_of = v.size_of /\ [v EXCEPT !.at = a].target = v.target
BY DEF Session

\* A request that is out has no session.
LEMMA NoSessionType ==
    /\ NoSession \in Session
    /\ NoSession.at = "out" /\ NoSession.fd = NoFile /\ NoSession.n = 0
<1>1. <<>> \in Text
  BY MaxSizeNat DEF Text
<1>2. 0 \in 0 .. MaxSize /\ 0 \in 0 .. MaxStarts
  BY MaxSizeNat, MaxStartsNat
<1> QED
  BY <1>1, <1>2 DEF NoSession, Session, Labels, SomeId, Files

\* What the invariant says of one request.
LEMMA OneRequest ==
    ASSUME SInv, NEW r \in Requests
    PROVE  /\ Types /\ req[r] \in Session /\ Knows(r)
           /\ req[r].fd = NoFile \/ req[r].fd \in Inodes
           /\ dir \in [Ids -> Files] /\ \A k \in Ids : dir[k] <= inodes
<1>1. Types /\ Knows(r) /\ NamesExist
  BY DEF SInv
<1>2. req[r] \in Session /\ dir \in [Ids -> Files]
  BY <1>1 DEF Types
<1>3. req[r].fd = NoFile \/ req[r].fd \in Inodes
  BY <1>2, SessionFields
<1> QED
  BY <1>1, <1>2, <1>3 DEF NamesExist

\* A name that is removed.
LEMMA NameRemoved ==
    ASSUME SInv, NEW k, dir' = [dir EXCEPT ![k] = NoFile]
    PROVE  dir' \in [Ids -> Files] /\ \A x \in Ids : dir'[x] <= inodes
<1>1. dir \in [Ids -> Files] /\ (\A x \in Ids : dir[x] <= inodes) /\ inodes \in Nat
  BY DEF SInv, Types, NamesExist
<1>2. NoFile \in Files /\ NoFile = 0
  BY DEF Files, NoFile
<1>3. dir' \in [Ids -> Files]
  BY <1>1, <1>2
<1>4. ASSUME NEW x \in Ids PROVE dir'[x] <= inodes
  BY <1>1, <1>2
<1> QED
  BY <1>3, <1>4

\* The data has been read: the request knows it and its size.
LEMMA ReadKeeps == ASSUME SInv, NEW r \in Requests, Read(r) PROVE SInv'
<1> DEFINE v == req[r]
<1>1. PICK at \in {"script", "gc"} :
         req' = [req EXCEPT ![r] = [v EXCEPT !.at = at, !.st_size = Len(content[v.fd]),
                                             !.size_of = v.fd, !.seen = content[v.fd]]]
  BY DEF Read
<1>2. /\ v.at = "read"
      /\ UNCHANGED <<dir, content, inodes, locked, starts, past>>
  BY DEF Read, At, files
<1>3. v \in Session /\ Types /\ Knows(r)
  BY OneRequest
<1>4. v.fd \in Inodes
  BY <1>2, <1>3, OneRequest DEF Knows
<1>5. content[v.fd] \in Text /\ Len(content[v.fd]) \in 0 .. MaxSize
  BY <1>3, <1>4 DEF Types, Text
<1> DEFINE s == [v EXCEPT !.at = at, !.st_size = Len(content[v.fd]),
                          !.size_of = v.fd, !.seen = content[v.fd]]
<1>6. /\ s \in Session
      /\ s.at = at /\ s.id = v.id /\ s.fd = v.fd /\ s.n = v.n
      /\ s.seen = content[v.fd] /\ s.st_size = Len(content[v.fd])
  BY <1>3, <1>5 DEF Session, Labels
<1>7. req' = [req EXCEPT ![r] = s]
  BY <1>1
<1> HIDE DEF s
<1>8. req'[r] = s
  BY <1>3, <1>6, <1>7, Changed
<1>9. Knows(r)'
  BY <1>2, <1>3, <1>6, <1>8 DEF Knows
<1>10. dir' \in [Ids -> Files] /\ \A k \in Ids : dir'[k] <= inodes
  BY <1>2, OneRequest
<1>11. s.at \notin {"lock, read", "lock, write"} /\ OpenedOne(r)
  BY <1>2, <1>6 DEF OpenedOne
<1> QED
  BY <1>2, <1>6, <1>7, <1>9, <1>10, <1>11, GoesOnKeeps

\* The collector looks for an old file, removes it and goes on: no matter whose
\* the file is, only its name is gone.
LEMMA CollectKeeps == ASSUME SInv, NEW r \in Requests, Collect(r) PROVE SInv'
<1> DEFINE v == req[r]
<1>1. v \in Session /\ Types /\ Knows(r)
  BY OneRequest
<1>2. ASSUME NEW s \in Session, req' = [req EXCEPT ![r] = s],
             v.at \in {"gc", "gc unlink"}, s.at \in {"gc", "gc unlink", "script"},
             s.id = v.id, s.fd = v.fd, s.n = v.n, s.seen = v.seen, s.st_size = v.st_size,
             dir' \in [Ids -> Files], \A k \in Ids : dir'[k] <= inodes,
             UNCHANGED <<content, inodes, locked, starts, past>>
      PROVE  SInv'
  <2>1. req'[r] = s
    BY <1>1, <1>2, Changed
  <2>2. Knows(r)'
    BY <1>1, <1>2, <2>1 DEF Knows
  <2>3. OpenedOne(r)
    BY <1>2 DEF OpenedOne
  <2> QED
    BY <1>2, <2>2, <2>3, GoesOnKeeps
<1>3. ASSUME NEW k \in Ids, GcStat(r, k) PROVE SInv'
  <2> DEFINE s == [v EXCEPT !.at = "gc unlink", !.target = k]
  <2>1. /\ s \in Session /\ s.at = "gc unlink"
        /\ s.id = v.id /\ s.fd = v.fd /\ s.n = v.n /\ s.seen = v.seen /\ s.st_size = v.st_size
    BY <1>1 DEF Session, Labels, SomeId
  <2>2. /\ v.at = "gc" /\ req' = [req EXCEPT ![r] = s]
        /\ UNCHANGED <<dir, content, inodes, locked, starts, past>>
    BY <1>3 DEF GcStat, At, files
  <2>3. dir' \in [Ids -> Files] /\ \A x \in Ids : dir'[x] <= inodes
    BY <2>2, OneRequest
  <2> HIDE DEF s
  <2> QED
    BY <1>2, <2>1, <2>2, <2>3
<1>4. ASSUME GcUnlink(r) PROVE SInv'
  <2> DEFINE s == [v EXCEPT !.at = "gc", !.target = NoId]
  <2>1. /\ s \in Session /\ s.at = "gc"
        /\ s.id = v.id /\ s.fd = v.fd /\ s.n = v.n /\ s.seen = v.seen /\ s.st_size = v.st_size
    BY <1>1 DEF Session, Labels, SomeId
  <2>2. /\ v.at = "gc unlink" /\ req' = [req EXCEPT ![r] = s]
        /\ UNCHANGED <<content, inodes, locked, starts, past>>
    BY <1>4 DEF GcUnlink, At
  <2>3. dir' = [dir EXCEPT ![v.target] = NoFile]
    BY <1>4 DEF GcUnlink
  <2>4. dir' \in [Ids -> Files] /\ \A x \in Ids : dir'[x] <= inodes
    BY <2>3, NameRemoved
  <2> HIDE DEF s
  <2> QED
    BY <1>2, <2>1, <2>2, <2>4
<1>5. ASSUME GcEnd(r) PROVE SInv'
  <2> DEFINE s == [v EXCEPT !.at = "script"]
  <2>1. /\ s \in Session /\ s.at = "script"
        /\ s.id = v.id /\ s.fd = v.fd /\ s.n = v.n /\ s.seen = v.seen /\ s.st_size = v.st_size
    BY <1>1, NewLabel DEF Labels
  <2>2. /\ v.at = "gc" /\ req' = [req EXCEPT ![r] = s]
        /\ UNCHANGED <<dir, content, inodes, locked, starts, past>>
    BY <1>5 DEF GcEnd, At, files
  <2>3. dir' \in [Ids -> Files] /\ \A x \in Ids : dir'[x] <= inodes
    BY <2>2, OneRequest
  <2> HIDE DEF s
  <2> QED
    BY <1>2, <2>1, <2>2, <2>3
<1> QED
  BY <1>3, <1>4, <1>5 DEF Collect

\* The script replaces the id of its session.
LEMMA NewIdKeeps ==
    ASSUME SInv, NEW r \in Requests, NEW k \in Ids, SessionId(r, k) \/ Regenerate(r, k)
    PROVE  SInv'
<1> DEFINE v == req[r]
           s == [v EXCEPT !.id = k]
<1>1. v \in Session /\ Types /\ Knows(r)
  BY OneRequest
<1>2. /\ v.at = "script" /\ req' = [req EXCEPT ![r] = s]
      /\ UNCHANGED <<dir, content, inodes, locked, starts, past>>
  BY DEF SessionId, Regenerate, At, files
<1>3. /\ s \in Session /\ s.at = v.at /\ s.id = k
      /\ s.fd = v.fd /\ s.n = v.n /\ s.seen = v.seen /\ s.st_size = v.st_size
  BY <1>1 DEF Session, SomeId
<1> HIDE DEF s
<1>4. req'[r] = s
  BY <1>1, <1>2, <1>3, Changed
<1>5. Knows(r)'
  BY <1>1, <1>2, <1>3, <1>4 DEF Knows
<1>6. dir' \in [Ids -> Files] /\ \A x \in Ids : dir'[x] <= inodes
  BY <1>2, OneRequest
<1>7. OpenedOne(r)
  BY <1>2 DEF OpenedOne
<1> QED
  BY <1>2, <1>3, <1>5, <1>6, <1>7, GoesOnKeeps

\* The file of the session's id is removed, and the session ends or gets its new
\* id: it has no file open.
LEMMA UnlinkKeeps == ASSUME SInv, NEW r \in Requests, Unlink(r) \/ Unlinked(r) PROVE SInv'
<1> DEFINE v == req[r]
<1>1. v \in Session /\ Types /\ Knows(r)
  BY OneRequest
<1>2. ASSUME NEW s \in Session, req' = [req EXCEPT ![r] = s],
             v.at \in {"unlink", "unlinked"}, s.at \in {"out", "script", "unlinked"},
             s.at # "out" => s.id \in Ids /\ s.n = v.n, s.fd = NoFile,
             dir' \in [Ids -> Files], \A k \in Ids : dir'[k] <= inodes,
             UNCHANGED <<content, inodes, locked, starts, past>>
      PROVE  SInv'
  <2>1. req'[r] = s
    BY <1>1, <1>2, Changed
  <2>2. v.fd = NoFile /\ v.n \in 1 .. starts /\ v.fd <= inodes
    BY <1>1, <1>2 DEF Knows
  <2>3. Knows(r)'
    BY <1>2, <2>1, <2>2 DEF Knows
  <2>4. OpenedOne(r)
    BY <1>2 DEF OpenedOne
  <2> QED
    BY <1>2, <2>2, <2>3, <2>4, GoesOnKeeps
<1>3. v.at \in {"unlink", "unlinked"} => v.fd = NoFile /\ v.id \in Ids
  BY <1>1 DEF Knows
<1>4. ASSUME Unlink(r) PROVE SInv'
  <2> DEFINE s == [v EXCEPT !.at = "unlinked"]
  <2>1. s \in Session /\ s.at = "unlinked" /\ s.id = v.id /\ s.fd = v.fd /\ s.n = v.n
    BY <1>1, NewLabel DEF Labels
  <2>2. /\ v.at = "unlink" /\ req' = [req EXCEPT ![r] = s]
        /\ UNCHANGED <<content, inodes, locked, starts, past>>
    BY <1>4 DEF Unlink, At
  <2>3. dir' = [dir EXCEPT ![v.id] = NoFile]
    BY <1>4 DEF Unlink
  <2>4. dir' \in [Ids -> Files] /\ \A x \in Ids : dir'[x] <= inodes
    BY <2>3, NameRemoved
  <2> HIDE DEF s
  <2> QED
    BY <1>2, <1>3, <2>1, <2>2, <2>4
<1>5. ASSUME Unlinked(r) PROVE SInv'
  <2> DEFINE s == [v EXCEPT !.at = "script", !.id = v.target, !.target = NoId]
  <2>1. /\ v.at = "unlinked"
        /\ UNCHANGED <<dir, content, inodes, locked, starts, past>>
        /\ IF v.target = NoId THEN req' = [req EXCEPT ![r] = NoSession]
                              ELSE req' = [req EXCEPT ![r] = s]
    BY <1>5 DEF Unlinked, At, files
  <2>2. s \in Session /\ s.at = "script" /\ s.id = v.target /\ s.fd = v.fd /\ s.n = v.n
    BY <1>1 DEF Session, Labels, SomeId
  <2>3. v.target # NoId => v.target \in Ids
    BY <1>1 DEF Session, SomeId
  <2>4. dir' \in [Ids -> Files] /\ \A x \in Ids : dir'[x] <= inodes
    BY <2>1, OneRequest
  <2> HIDE DEF s
  <2>5. CASE v.target = NoId
    BY <1>2, <2>1, <2>4, <2>5, NoSessionType
  <2>6. CASE v.target # NoId
    BY <1>2, <1>3, <2>1, <2>2, <2>3, <2>4, <2>6
  <2> QED
    BY <2>5, <2>6
<1> QED
  BY <1>4, <1>5

-----------------------------------------------------------------------------
(* The steps that open, lock, write and close *)

\* Closing a file takes no other request's lock away.
LEMMA ReleasedLocks ==
    ASSUME Types, NEW r \in Requests
    PROVE  /\ Released(r) \in [Inodes -> SUBSET Requests]
           /\ \A i \in Inodes : /\ r \notin Released(r)[i]
                                /\ \A q \in Requests \ {r} : q \in Released(r)[i] <=> q \in locked[i]
BY DEF Types, Released

\* ps_files_open(): a file is created if the name has none.
LEMMA OpenedFile ==
    ASSUME SInv, NEW r \in Requests, NEW k \in Ids, NEW v \in Session, Open(r, k, v),
           inodes + 1 <= 2 * MaxStarts
    PROVE  /\ dir' \in [Ids -> Files] /\ \A x \in Ids : dir'[x] <= inodes'
           /\ inodes' \in Nat /\ inodes' >= inodes /\ inodes' <= inodes + 1
           /\ dir'[k] \in Inodes
           /\ req' = [req EXCEPT ![r] = [v EXCEPT !.fd = dir'[k], !.lastkey = k]]
           /\ [v EXCEPT !.fd = dir'[k], !.lastkey = k] \in Session
<1>1. /\ inodes' = IF dir[k] = NoFile THEN inodes + 1 ELSE inodes
      /\ dir' = IF dir[k] = NoFile THEN [dir EXCEPT ![k] = inodes + 1] ELSE dir
      /\ req' = [req EXCEPT ![r] = [v EXCEPT !.fd = dir'[k], !.lastkey = k]]
  BY DEF Open
<1>2. inodes \in Nat
  BY DEF SInv, Types
<1>3. dir \in [Ids -> Files] /\ (\A x \in Ids : dir[x] <= inodes)
  BY OneRequest
<1>4. inodes + 1 \in Inodes /\ \A x \in Files : x = NoFile \/ x \in Inodes
  BY <1>2, MaxStartsNat DEF Inodes, Files
<1>5. inodes' \in Nat /\ inodes' >= inodes /\ inodes' <= inodes + 1
  BY <1>1, <1>2
<1>6. dir' \in [Ids -> Files] /\ dir'[k] \in Inodes
  BY <1>1, <1>3, <1>4 DEF Files
<1>7. ASSUME NEW x \in Ids PROVE dir'[x] <= inodes'
  <2>1. dir[x] \in Nat /\ dir[x] <= inodes
    BY <1>3, MaxStartsNat DEF Files, Inodes, NoFile
  <2>2. CASE dir[k] = NoFile
    BY <1>1, <1>2, <1>3, <2>1, <2>2
  <2>3. CASE dir[k] # NoFile
    BY <1>1, <2>1, <2>3
  <2> QED
    BY <2>2, <2>3
<1>8. [v EXCEPT !.fd = dir'[k], !.lastkey = k] \in Session
  BY <1>6 DEF Session, Files, SomeId
<1> QED
  BY <1>1, <1>5, <1>6, <1>7, <1>8

\* session_start() opens the file of its id.
LEMMA StartKeeps == ASSUME SInv, NEW r \in Requests, NEW k \in Ids, Start(r, k) PROVE SInv'
<1> DEFINE v == [NoSession EXCEPT !.at = "lock, read", !.id = k, !.n = starts + 1]
           s == [v EXCEPT !.fd = dir'[k], !.lastkey = k]
<1>1. /\ req[r].at = "out" /\ starts < MaxStarts /\ starts' = starts + 1
      /\ Open(r, k, v)
      /\ UNCHANGED <<content, locked, past>>
  BY DEF Start, At
<1>s. starts' = starts + 1
  BY <1>1
<1>2. /\ Types /\ starts \in Nat /\ inodes \in Nat /\ starts + 1 \in 0 .. MaxStarts
      /\ starts' \in 0 .. MaxStarts /\ starts' \in 1 .. starts' /\ starts' > starts
  BY <1>1, MaxStartsNat DEF SInv, Types
<1>3. /\ v \in Session /\ v.at = "lock, read" /\ v.id = k /\ v.n = starts'
  BY <1>1, <1>2, NoSessionType DEF Session, Labels, SomeId
<1>4. inodes + Cardinality(Opened) <= 2 * starts /\ Cardinality(Opened) \in Nat /\ IsFiniteSet(Opened)
  BY OpenedFinite DEF SInv, FewFiles
<1>5. inodes + 1 <= 2 * MaxStarts
  BY <1>1, <1>2, <1>4, MaxStartsNat
<1>6. /\ dir' \in [Ids -> Files] /\ \A x \in Ids : dir'[x] <= inodes'
      /\ inodes' \in Nat /\ inodes' >= inodes /\ inodes' <= inodes + 1
      /\ dir'[k] \in Inodes
      /\ req' = [req EXCEPT ![r] = s] /\ s \in Session
  BY <1>1, <1>3, <1>5, OpenedFile
<1>7. s.at = "lock, read" /\ s.id = k /\ s.n = starts' /\ s.fd = dir'[k]
  BY <1>3 DEF Session
<1> HIDE DEF v, s
<1>8. /\ req' \in [Requests -> Session] /\ req'[r] = s
      /\ \A q \in Requests \ {r} : req'[q] = req[q]
  BY <1>2, <1>6, Changed
<1>9. Types' /\ NamesExist'
  BY <1>1, <1>2, <1>6, <1>8 DEF Types, NamesExist, past
<1>10. dir'[k] # NoFile /\ dir'[k] <= inodes'
  BY <1>6, MaxStartsNat DEF Inodes, NoFile
<1>11. Knows(r)'
  BY <1>2, <1>7, <1>8, <1>10 DEF Knows
<1>12. inodes' + Cardinality(Opened') <= 2 * starts'
  <2>1. \A q \in Requests \ {r} : OpenedOne(q)' <=> OpenedOne(q)
    BY <1>8 DEF OpenedOne
  <2>2. OpenedOne(r)' => req'[r].n = starts'
    BY <1>7, <1>8
  <2>3. Opened' \subseteq Opened \cup {starts'}
    BY <1>8, <2>1, <2>2 DEF Opened
  <2> DEFINE more == Opened \cup {starts'}
  <2>a. IsFiniteSet(more) /\ Cardinality(more) = IF starts' \in Opened THEN Cardinality(Opened) ELSE Cardinality(Opened) + 1
    BY ONLY <1>4, FS_AddElement
  <2>4. IsFiniteSet(more) /\ Cardinality(more) <= Cardinality(Opened) + 1 /\ Cardinality(more) \in Nat
    BY ONLY <1>4, <2>a
  <2>5. Cardinality(Opened') <= Cardinality(more) /\ Cardinality(Opened') \in Nat
    BY <2>3, <2>4, FS_Subset, FS_CardinalityType
  <2> QED
    BY ONLY <1>2, <1>4, <1>6, <1>s, <2>4, <2>5
<1>13. ASSUME NEW i \in Inodes PROVE r \notin locked[i]
  <2>1. req[r].fd = NoFile /\ NoFile # i
    BY <1>1, NoFileIsNone, OneRequest DEF Knows
  <2> QED
    BY <2>1 DEF SInv, LockHeld
<1>14. ~At(r, "pwrite")
  BY <1>1 DEF At
<1>15. /\ starts' >= starts /\ starts' = req'[r].n
       /\ locked' = locked /\ content' = content
       /\ req'[r].at = "lock, read"
  <2>1. starts' >= starts
    BY ONLY <1>2
  <2>2. locked' = locked /\ content' = content
    BY <1>1
  <2> QED
    BY <1>7, <1>8, <2>1, <2>2
<1>16. req'[r].n > starts
  BY <1>2, <1>15
<1>17. \A i \in Inodes \ (cut' \cup misled') :
          \/ content'[i] = meant'[i]
          \/ /\ r \notin locked[i] /\ i \notin cut \cup misled
             /\ content'[i] = content[i] /\ meant'[i] = meant[i]
  BY <1>1, <1>14, Untouched
<1> QED
  BY <1>6, <1>8, <1>9, <1>11, <1>12, <1>13, <1>15, <1>16, <1>17, StepKeeps

\* flock(): the lock is free.
LEMMA LockKeeps == ASSUME SInv, NEW r \in Requests, Lock(r) PROVE SInv'
<1> DEFINE v == req[r]
           a == IF v.at = "lock, read" THEN "read" ELSE "write"
           s == [v EXCEPT !.at = a]
<1>1. /\ v.at \in {"lock, read", "lock, write"} /\ locked[v.fd] = {}
      /\ locked' = [locked EXCEPT ![v.fd] = {r}]
      /\ req' = [req EXCEPT ![r] = s]
      /\ UNCHANGED <<dir, content, inodes, starts, past>>
  BY DEF Lock, files
<1>2. v \in Session /\ Types /\ Knows(r)
  BY OneRequest
<1>3. v.fd \in Inodes
  BY <1>1, <1>2, OneRequest DEF Knows
<1>a. /\ a \in Labels /\ a \in {"read", "write"}
      /\ a = "write" => v.at = "lock, write"
      /\ a = "read" => v.at = "lock, read"
  BY <1>1 DEF Labels
<1> HIDE DEF a
<1>4. /\ s \in Session /\ s.at = a
      /\ s.fd = v.fd /\ s.id = v.id /\ s.n = v.n /\ s.size_of = v.size_of
  BY <1>2, <1>a, NewLabel
<1> HIDE DEF s
<1>5. /\ req' \in [Requests -> Session] /\ req'[r] = s
      /\ \A q \in Requests \ {r} : req'[q] = req[q]
  BY <1>1, <1>2, <1>4, Changed
<1>6. /\ locked' \in [Inodes -> SUBSET Requests]
      /\ locked'[v.fd] = {r}
      /\ \A i \in Inodes : i # v.fd => locked'[i] = locked[i]
  BY <1>1, <1>2, <1>3 DEF Types
<1>7. Types' /\ NamesExist'
  BY <1>1, <1>2, <1>5, <1>6 DEF SInv, Types, NamesExist, past
<1>8. s.at = "write" => s.size_of = NoFile /\ s.fd # NoFile
  BY <1>2, <1>4, <1>a DEF Knows
<1>9. Knows(r)'
  BY <1>1, <1>2, <1>4, <1>5, <1>8, <1>a DEF Knows
<1>10. inodes' + Cardinality(Opened') <= 2 * starts'
  <2>1. OpenedOne(r)' => OpenedOne(r) /\ req'[r].n = req[r].n
    BY <1>1, <1>4, <1>5, <1>a DEF OpenedOne
  <2> QED
    BY <1>1, <1>5, <2>1, FewKept
<1>11. ASSUME NEW i \in Inodes
       PROVE  r \in locked'[i] <=> req'[r].fd = i /\ req'[r].at \notin {"lock, read", "lock, write"}
  <2>1. r \in locked[i] <=> v.fd = i /\ v.at \notin {"lock, read", "lock, write"}
    BY DEF SInv, LockHeld
  <2> QED
    BY <1>1, <1>4, <1>5, <1>6, <1>a, <2>1
<1>12. /\ \A i \in Inodes : r \in locked'[i] => r \in locked[i] \/ locked[i] = {}
       /\ \A q \in Requests \ {r}, i \in Inodes : q \in locked'[i] <=> q \in locked[i]
  BY <1>1, <1>6
<1>13. inodes' >= inodes /\ starts' >= starts /\ content' = content
  <2>1. inodes' = inodes /\ starts' = starts /\ content' = content
    BY <1>1
  <2>2. inodes \in Nat /\ starts \in Nat
    BY <1>2, Numbers
  <2> QED
    BY ONLY <2>1, <2>2
<1>14. ~At(r, "pwrite") /\ (req[r].at # "out" /\ req'[r].n = req[r].n)
  BY <1>1, <1>4, <1>5 DEF At
<1>15. \A i \in Inodes \ (cut' \cup misled') :
          \/ content'[i] = meant'[i]
          \/ /\ r \notin locked[i] /\ i \notin cut \cup misled
             /\ content'[i] = content[i] /\ meant'[i] = meant[i]
  BY <1>1, <1>14, Untouched
<1> QED
  BY <1>5, <1>7, <1>9, <1>10, <1>11, <1>12, <1>13, <1>14, <1>15, StepKeeps

\* The data that is written.
LEMMA DataType ==
    ASSUME NEW size \in 0 .. MaxSize, NEW n \in 1 .. MaxStarts
    PROVE  [i \in 1 .. size |-> n] \in Text
<1>1. size \in Nat /\ size <= MaxSize
  BY MaxSizeNat
<1>2. [i \in 1 .. size |-> n] \in Seq(1 .. MaxStarts) /\ Len([i \in 1 .. size |-> n]) = size
  BY <1>1
<1> QED
  BY <1>1, <1>2 DEF Text

\* Closing a file without a write in it: nothing relies on it any more.
LEMMA CloseKeeps ==
    ASSUME SInv, NEW r \in Requests, NEW s \in Session, req' = [req EXCEPT ![r] = s],
           s.at \in {"out", "unlink", "unlinked"}, s.fd = NoFile,
           s.at # "out" => s.id = req[r].id /\ s.n = req[r].n /\ OpenedOne(r),
           locked' = Released(r),
           UNCHANGED <<dir, inodes, starts>>,
           content' \in [Inodes -> Text], meant' \in [Inodes -> Text],
           \A i \in Inodes : content'[i] = content[i] \/ r \in locked[i],
           \A i \in Inodes \ (cut' \cup misled') :
              \/ content'[i] = meant'[i]
              \/ Emptied(r, i)'
              \/ /\ r \notin locked[i] /\ i \notin cut \cup misled
                 /\ content'[i] = content[i] /\ meant'[i] = meant[i]
    PROVE  SInv'
<1>1. req[r] \in Session /\ Types /\ Knows(r)
  BY OneRequest
<1>2. /\ req' \in [Requests -> Session] /\ req'[r] = s
      /\ \A q \in Requests \ {r} : req'[q] = req[q]
  BY <1>1, Changed
<1>3. inodes' = inodes /\ starts' = starts /\ dir' = dir /\ locked' = Released(r)
  OBVIOUS
<1>4. /\ locked' \in [Inodes -> SUBSET Requests]
      /\ \A i \in Inodes : r \notin locked'[i]
      /\ \A q \in Requests \ {r}, i \in Inodes : q \in locked'[i] <=> q \in locked[i]
  BY ONLY <1>1, <1>3, r \in Requests, ReleasedLocks
<1>5. content' \in [Inodes -> Text] /\ meant' \in [Inodes -> Text]
  OBVIOUS
<1>6. Types'
  BY ONLY <1>1, <1>2, <1>3, <1>4, <1>5 DEF Types
<1>7. NamesExist'
  BY <1>3 DEF SInv, NamesExist
<1>8. starts \in Nat /\ inodes \in Nat
  BY ONLY <1>1, Numbers
<1>9. s.at # "out" => s.id \in Ids /\ s.n \in 1 .. starts
  BY <1>1 DEF Knows, OpenedOne
<1>10. Knows(r)'
  <2>1. s.at \in {"out", "unlink", "unlinked"} /\ s.fd = NoFile
    OBVIOUS
  <2>2. NoFile <= inodes
    BY ONLY <1>8 DEF NoFile
  <2> QED
    BY ONLY <1>2, <1>3, <1>9, <2>1, <2>2 DEF Knows
<1>11. inodes' + Cardinality(Opened') <= 2 * starts'
  <2>1. OpenedOne(r)' => OpenedOne(r) /\ req'[r].n = req[r].n
    BY <1>2 DEF OpenedOne
  <2> QED
    BY <1>2, <1>3, <2>1, FewKept
<1>12. inodes' >= inodes /\ starts' >= starts
  BY ONLY <1>3, <1>8
<1>13. \A i \in Inodes : r \in locked'[i] <=>
          req'[r].fd = i /\ req'[r].at \notin {"lock, read", "lock, write"}
  BY <1>2, <1>4, NoFileIsNone
<1>14. req'[r].at # "out" => req[r].at # "out" /\ req'[r].n = req[r].n
  BY <1>2 DEF OpenedOne
<1> QED
  BY <1>2, <1>4, <1>6, <1>7, <1>10, <1>11, <1>12, <1>13, <1>14, StepKeeps

\* Who holds no file, but another's, has none to change.
LEMMA HeldIsOwn ==
    ASSUME SInv, NEW r \in Requests, NEW i \in Inodes
    PROVE  /\ r \in locked[i] => req[r].fd = i
           /\ r \in locked[i] /\ i \notin cut \cup misled =>
                 content[i] = meant[i] \/ Emptied(r, i)
<1>1. r \in locked[i] => req[r].fd = i
  BY DEF SInv, LockHeld
<1>2. ASSUME r \in locked[i], NEW q \in Requests, Emptied(q, i) PROVE q = r
  <2>1. q \in locked[i]
    BY <1>2 DEF SInv, LockHeld, Emptied, At
  <2> QED
    BY <1>2, <2>1 DEF SInv, LockHeld
<1> QED
  BY <1>1, <1>2 DEF SInv, LastWrite

\* s_destroy closes the file, and a script may close it as it is.
LEMMA GivenUpKeeps ==
    ASSUME SInv, NEW r \in Requests, NEW next, next \in SomeId,
           CloseToDestroy(r, next) \/ Discard(r)
    PROVE  SInv'
<1> DEFINE v == req[r]
           a == IF v.fd # NoFile THEN "unlink" ELSE "unlinked"
           s == [v EXCEPT !.at = a, !.target = next, !.fd = NoFile, !.size_of = NoFile]
<1>1. /\ v.at = "script" /\ locked' = Released(r)
      /\ UNCHANGED <<dir, content, inodes, starts, past>>
      /\ req' = [req EXCEPT ![r] = s] \/ req' = [req EXCEPT ![r] = NoSession]
  BY DEF CloseToDestroy, Discard, At, files
<1>2. v \in Session /\ Types
  BY OneRequest
<1>3. a \in {"unlink", "unlinked"} /\ a \in Labels
  BY DEF Labels
<1> HIDE DEF a
<1>4. s \in Session /\ s.at = a /\ s.fd = NoFile /\ s.id = v.id /\ s.n = v.n
  BY <1>2, <1>3 DEF Session, Files
<1> HIDE DEF s
<1>5. PICK w \in Session : /\ req' = [req EXCEPT ![r] = w]
                           /\ w.at \in {"out", "unlink", "unlinked"} /\ w.fd = NoFile
                           /\ w.at # "out" => w.id = v.id /\ w.n = v.n
  BY <1>1, <1>3, <1>4, NoSessionType
<1>6. content' \in [Inodes -> Text] /\ meant' \in [Inodes -> Text] /\ content' = content
  BY <1>1, <1>2 DEF Types, past
<1>7. ~At(r, "pwrite") /\ OpenedOne(r)
  BY <1>1 DEF At, OpenedOne
<1>8. \A i \in Inodes \ (cut' \cup misled') :
         \/ content'[i] = meant'[i]
         \/ /\ r \notin locked[i] /\ i \notin cut \cup misled
            /\ content'[i] = content[i] /\ meant'[i] = meant[i]
  BY <1>1, <1>7, Untouched
<1> QED
  BY <1>1, <1>5, <1>6, <1>7, <1>8, CloseKeeps

\* The kernel closes the file of a process that dies.
LEMMA CrashKeeps == ASSUME SInv, NEW r \in Requests, Crash(r) PROVE SInv'
<1> DEFINE v == req[r]
<1>1. /\ locked' = Released(r) /\ req' = [req EXCEPT ![r] = NoSession]
      /\ UNCHANGED <<dir, content, inodes, starts, meant, misled>>
      /\ cut' = IF v.at = "pwrite" /\ Len(v.data) < v.st_size THEN cut \cup {v.fd} ELSE cut
  BY DEF Crash, At, files
<1>2. content' \in [Inodes -> Text] /\ meant' \in [Inodes -> Text] /\ content' = content
  BY <1>1, OneRequest DEF Types
<1>3. ASSUME NEW i \in Inodes \ (cut' \cup misled')
      PROVE  \/ content'[i] = meant'[i]
             \/ /\ r \notin locked[i] /\ i \notin cut \cup misled
                /\ content'[i] = content[i] /\ meant'[i] = meant[i]
  <2>1. i \notin cut \cup misled /\ content'[i] = content[i] /\ meant'[i] = meant[i]
    BY <1>1, <1>3
  <2>2. ASSUME r \in locked[i] PROVE content[i] = meant[i]
    <3>1. ~Emptied(r, i)
      BY <1>1, <1>3 DEF Emptied, At
    <3> QED
      BY <2>1, <2>2, <3>1, HeldIsOwn
  <2> QED
    BY <2>1, <2>2
<1> QED
  BY <1>1, <1>2, <1>3, NoSessionType, CloseKeeps

\* pwrite() over the data of a file.
LEMMA Overwritten ==
    ASSUME NEW new \in Text, NEW old \in Text
    PROVE  /\ new \o SubSeq(old, Len(new) + 1, Len(old)) \in Text
           /\ Len(old) <= Len(new) => new \o SubSeq(old, Len(new) + 1, Len(old)) = new
<1> DEFINE rest == SubSeq(old, Len(new) + 1, Len(old))
<1>1. /\ new \in Seq(1 .. MaxStarts) /\ Len(new) \in Nat /\ Len(new) <= MaxSize
      /\ old \in Seq(1 .. MaxStarts) /\ Len(old) \in Nat /\ Len(old) <= MaxSize
  BY LenProperties DEF Text
<1>2. CASE Len(old) <= Len(new)
  <2>1. rest = <<>>
    BY <1>1, <1>2, SubSeqEmpty
  <2>2. new \o <<>> = new
    BY <1>1
  <2> QED
    BY <2>1, <2>2
<1>3. CASE ~(Len(old) <= Len(new))
  <2>1. rest \in Seq(1 .. MaxStarts) /\ Len(rest) = Len(old) - Len(new)
    <3>1. ASSUME NEW i \in Len(new) + 1 .. Len(old) PROVE old[i] \in 1 .. MaxStarts
      <4>1. i \in 1 .. Len(old)
        BY ONLY <1>1, i \in Len(new) + 1 .. Len(old)
      <4> QED
        BY <1>1, <4>1, ElementOfSeq
    <3>2. Len(new) + 1 \in Int /\ Len(old) \in Int /\ Len(new) + 1 <= Len(old)
      BY <1>1, <1>3
    <3>3. rest \in Seq(1 .. MaxStarts) /\ Len(rest) = Len(old) - (Len(new) + 1) + 1
      BY <3>1, <3>2, SubSeqProperties
    <3> QED
      BY ONLY <1>1, <3>3
  <2> HIDE DEF rest
  <2>2. new \o rest \in Seq(1 .. MaxStarts) /\ Len(new \o rest) = Len(new) + Len(rest)
    BY <1>1, <2>1, ConcatProperties
  <2>3. Len(new \o rest) <= MaxSize
    BY <1>1, <2>1, <2>2
  <2>4. new \o rest \in Text
    BY <2>2, <2>3 DEF Text
  <2> QED
    BY <1>3, <2>4 DEF rest
<1> QED
  BY <1>2, <1>3

\* ftruncate(), if the new data is smaller: only the request that holds the lock
\* of a file empties it, and it is about to write it.
LEMMA TruncateKeeps == ASSUME SInv, NEW r \in Requests, Truncate(r) PROVE SInv'
<1> DEFINE v == req[r]
           s == [v EXCEPT !.at = "pwrite"]
<1>1. /\ v.at = "write" /\ req' = [req EXCEPT ![r] = s]
      /\ content' = IF Len(v.data) < v.st_size THEN [content EXCEPT ![v.fd] = <<>>] ELSE content
      /\ UNCHANGED <<dir, inodes, locked, starts, past>>
  BY DEF Truncate, At
<1>2. v \in Session /\ Types /\ Knows(r)
  BY OneRequest
<1>3. v.fd \in Inodes
  BY <1>1, <1>2, OneRequest DEF Knows
<1>4. /\ s \in Session /\ s.at = "pwrite" /\ s.id = v.id /\ s.fd = v.fd
      /\ s.st_size = v.st_size /\ s.data = v.data /\ s.n = v.n /\ s.size_of = v.size_of
  BY <1>2, NewLabel DEF Labels
<1> HIDE DEF s
<1>5. /\ req' \in [Requests -> Session] /\ req'[r] = s
      /\ \A q \in Requests \ {r} : req'[q] = req[q]
  BY <1>1, <1>2, <1>4, Changed
<1>6. <<>> \in Text /\ content \in [Inodes -> Text]
  BY <1>2, MaxSizeNat DEF Text, Types
<1>7. /\ content' \in [Inodes -> Text]
      /\ \A i \in Inodes : i # v.fd => content'[i] = content[i]
      /\ content'[v.fd] = IF Len(v.data) < v.st_size THEN <<>> ELSE content[v.fd]
  BY ONLY <1>1, <1>3, <1>6
<1>8. Types' /\ NamesExist'
  BY <1>1, <1>2, <1>5, <1>7 DEF SInv, Types, NamesExist, past
<1>9. v.size_of = v.fd => Len(content'[v.fd]) <= Len(v.data)
  <2>1. v.size_of = v.fd => v.st_size = Len(content[v.fd])
    BY <1>1, <1>2 DEF Knows
  <2>2. Len(v.data) \in Nat /\ Len(content[v.fd]) \in Nat /\ Len(<<>>) = 0
    <3>1. v.data \in Seq(1 .. MaxStarts) /\ content[v.fd] \in Seq(1 .. MaxStarts)
      BY <1>2, <1>3, <1>6 DEF Session, Text
    <3> QED
      BY ONLY <3>1
  <2> QED
    BY ONLY <1>7, <2>1, <2>2
<1>10. Knows(r)'
  <2>1. v.id \in Ids /\ v.n \in 1 .. starts /\ v.fd <= inodes /\ v.fd # NoFile
    BY <1>1, <1>2 DEF Knows
  <2>2. starts' = starts /\ inodes' = inodes
    BY <1>1
  <2> QED
    BY ONLY <1>4, <1>5, <1>9, <2>1, <2>2 DEF Knows
<1>11. inodes' + Cardinality(Opened') <= 2 * starts'
  <2>1. OpenedOne(r)' => OpenedOne(r) /\ req'[r].n = req[r].n
    BY <1>4, <1>5 DEF OpenedOne
  <2> QED
    BY <1>1, <1>5, <2>1, FewKept
<1>12. inodes' >= inodes /\ starts' >= starts
  <2>1. inodes' = inodes /\ starts' = starts
    BY <1>1
  <2>2. inodes \in Nat /\ starts \in Nat
    BY <1>2, Numbers
  <2> QED
    BY ONLY <2>1, <2>2
<1>13. r \in locked[v.fd] /\ \A i \in Inodes : r \in locked[i] <=> v.fd = i
  BY <1>1, <1>3 DEF SInv, LockHeld
<1>14. locked' = locked
  BY <1>1
<1>15. /\ \A q \in Requests \ {r}, i \in Inodes : q \in locked'[i] <=> q \in locked[i]
       /\ \A i \in Inodes : r \in locked'[i] <=>
              req'[r].fd = i /\ req'[r].at \notin {"lock, read", "lock, write"}
       /\ \A i \in Inodes : r \in locked'[i] => r \in locked[i] \/ locked[i] = {}
  BY ONLY <1>4, <1>5, <1>13, <1>14
<1>16. \A i \in Inodes : content'[i] = content[i] \/ r \in locked[i]
  BY <1>7, <1>13
<1>17. ASSUME NEW i \in Inodes \ (cut' \cup misled')
       PROVE  \/ content'[i] = meant'[i]
              \/ Emptied(r, i)'
              \/ /\ r \notin locked[i] /\ i \notin cut \cup misled
                 /\ content'[i] = content[i] /\ meant'[i] = meant[i]
  <2>1. i \notin cut \cup misled /\ meant' = meant
    BY <1>1 DEF past
  <2>2. ~Emptied(r, i)
    BY <1>1 DEF Emptied, At
  <2>3. CASE i = v.fd /\ Len(v.data) < v.st_size
    BY <1>4, <1>5, <2>3 DEF Emptied, At
  <2>4. CASE ~(i = v.fd /\ Len(v.data) < v.st_size)
    <3>1. content'[i] = content[i]
      BY <1>7, <2>4
    <3> QED
      BY <2>1, <2>2, <3>1, HeldIsOwn
  <2> QED
    BY <2>3, <2>4
<1>18. req[r].at # "out" /\ req'[r].n = req[r].n
  BY <1>1, <1>4, <1>5
<1> QED
  BY <1>5, <1>8, <1>10, <1>11, <1>12, <1>15, <1>16, <1>17, <1>18, StepKeeps

\* pwrite() and s_close: who has the size of what it writes over leaves nothing
\* of it.
LEMMA WriteKeeps == ASSUME SInv, NEW r \in Requests, Write(r) PROVE SInv'
<1> DEFINE v == req[r]
           old == content[v.fd]
           bytes == v.data \o SubSeq(old, Len(v.data) + 1, Len(old))
<1>1. /\ v.at = "pwrite"
      /\ content' = [content EXCEPT ![v.fd] = bytes]
      /\ meant' = [meant EXCEPT ![v.fd] = v.data]
      /\ cut' = cut \ {v.fd}
      /\ misled' = IF v.fd # v.size_of /\ old # <<>> THEN misled \cup {v.fd} ELSE misled \ {v.fd}
      /\ locked' = Released(r) /\ req' = [req EXCEPT ![r] = NoSession]
      /\ UNCHANGED <<dir, inodes, starts>>
  BY DEF Write, At
<1>2. v \in Session /\ Types /\ Knows(r)
  BY OneRequest
<1>3. v.fd \in Inodes
  BY <1>1, <1>2, OneRequest DEF Knows
<1>4. /\ v.data \in Text /\ old \in Text
      /\ content \in [Inodes -> Text] /\ meant \in [Inodes -> Text]
  BY <1>2, <1>3 DEF Session, Types
<1>5. /\ bytes \in Text
      /\ Len(old) <= Len(v.data) => bytes = v.data
  BY <1>4, Overwritten
<1>6. v.size_of = v.fd \/ old = <<>> => Len(old) <= Len(v.data)
  <2>1. v.size_of = v.fd => Len(old) <= Len(v.data)
    BY <1>1, <1>2 DEF Knows
  <2>2. old = <<>> => Len(old) <= Len(v.data)
    <3>1. v.data \in Seq(1 .. MaxStarts)
      BY <1>4 DEF Text
    <3> QED
      BY ONLY <3>1
  <2> QED
    BY <2>1, <2>2
<1> HIDE DEF bytes
<1>7. /\ content' \in [Inodes -> Text] /\ content'[v.fd] = bytes
      /\ \A i \in Inodes : i # v.fd => content'[i] = content[i]
  BY ONLY <1>1, <1>3, <1>4, <1>5
<1>8. /\ meant' \in [Inodes -> Text] /\ meant'[v.fd] = v.data
      /\ \A i \in Inodes : i # v.fd => meant'[i] = meant[i]
  BY ONLY <1>1, <1>3, <1>4
<1>9. \A i \in Inodes : r \in locked[i] <=> v.fd = i
  BY <1>1, <1>3 DEF SInv, LockHeld
<1>10. \A i \in Inodes : content'[i] = content[i] \/ r \in locked[i]
  BY <1>7, <1>9
<1>11. ASSUME NEW i \in Inodes \ (cut' \cup misled')
       PROVE  \/ content'[i] = meant'[i]
              \/ /\ r \notin locked[i] /\ i \notin cut \cup misled
                 /\ content'[i] = content[i] /\ meant'[i] = meant[i]
  <2>1. CASE i = v.fd
    <3>1. v.size_of = v.fd \/ old = <<>>
      BY <1>1, <2>1, <1>11
    <3> QED
      BY <1>5, <1>6, <1>7, <1>8, <2>1, <3>1
  <2>2. CASE i # v.fd
    <3>1. i \notin cut \cup misled
      BY <1>1, <2>2, <1>11
    <3> QED
      BY <1>7, <1>8, <1>9, <2>2, <3>1
  <2> QED
    BY <2>1, <2>2
<1> QED
  BY <1>1, <1>7, <1>8, <1>10, <1>11, NoSessionType, CloseKeeps

\* s_write finds the file open, or closes it and opens the one of its id; what
\* the request knew of the first is of no use for the second.
LEMMA FlushKeeps ==
    ASSUME SInv, NEW r \in Requests, NEW size \in 0 .. MaxSize, Flush(r, size)
    PROVE  SInv'
<1> DEFINE v == req[r]
           bytes == [i \in 1 .. size |-> v.n]
           reopen == v.fd = NoFile \/ v.lastkey # v.id
           w == [v EXCEPT !.data = bytes, !.at = "lock, write", !.size_of = NoFile]
           t == [w EXCEPT !.fd = dir'[v.id], !.lastkey = v.id]
           s == [v EXCEPT !.data = bytes, !.at = "write"]
<1>0. v \in Session /\ Types /\ Knows(r)
  BY OneRequest
<1>1. v.at = "script" /\ UNCHANGED <<content, starts, past>>
  BY DEF Flush, At
<1>2. /\ v.id \in Ids /\ v.n \in 1 .. starts /\ v.n \in 1 .. MaxStarts
      /\ starts \in Nat /\ inodes \in Nat /\ MaxStarts \in Nat
  <2>1. starts \in 0 .. MaxStarts /\ inodes \in Nat
    BY <1>0 DEF Types
  <2>2. v.id \in Ids /\ v.n \in 1 .. starts
    BY <1>0, <1>1 DEF Knows
  <2> QED
    BY <2>1, <2>2, MaxStartsNat
<1>3. bytes \in Text
  BY <1>2, DataType
<1>4. /\ reopen => Open(r, v.id, w) /\ locked' = Released(r)
      /\ ~reopen => req' = [req EXCEPT ![r] = s] /\ UNCHANGED <<dir, inodes, locked>>
  <2>1. v.data \in Text /\ v.at \in Labels
    BY <1>0 DEF Session
  <2>2. /\ w = [[v EXCEPT !.data = bytes] EXCEPT !.at = "lock, write", !.size_of = NoFile]
        /\ s = [[v EXCEPT !.data = bytes] EXCEPT !.at = "write"]
    BY <1>0 DEF Session
  <2>3. /\ [v EXCEPT !.data = bytes].fd = v.fd
        /\ [v EXCEPT !.data = bytes].id = v.id
        /\ [v EXCEPT !.data = bytes].lastkey = v.lastkey
    BY <1>0 DEF Session
  <2> HIDE DEF w, s, bytes
  <2> QED
    BY <2>2, <2>3 DEF Flush, bytes
<1> HIDE DEF bytes
<1>5. /\ s \in Session /\ s.at = "write" /\ s.id = v.id /\ s.fd = v.fd /\ s.n = v.n
      /\ s.size_of = v.size_of /\ s.st_size = v.st_size
  BY <1>0, <1>3 DEF Session, Labels
<1>6. w \in Session /\ w.at = "lock, write" /\ w.id = v.id /\ w.n = v.n /\ w.size_of = NoFile
  BY <1>0, <1>3 DEF Session, Labels, Files
<1> HIDE DEF s
<1>7. CASE ~reopen
  <2>1. req' = [req EXCEPT ![r] = s] /\ req'[r] = s
    BY <1>0, <1>4, <1>5, <1>7, Changed
  <2>2. v.fd # NoFile /\ v.st_size = Len(content[v.fd])
    BY <1>0, <1>1, <1>7 DEF Knows
  <2>3. v.fd <= inodes
    BY <1>0 DEF Knows
  <2>4. inodes' = inodes /\ starts' = starts /\ content' = content
    BY <1>1, <1>4, <1>7
  <2>5. Knows(r)'
    BY ONLY <1>2, <1>5, <2>1, <2>2, <2>3, <2>4 DEF Knows
  <2>6. dir' \in [Ids -> Files] /\ \A x \in Ids : dir'[x] <= inodes
    BY <1>4, <1>7, OneRequest
  <2>7. UNCHANGED <<content, inodes, locked, starts, past>>
    BY <1>1, <1>4, <1>7
  <2> QED
    BY <1>1, <1>5, <2>1, <2>5, <2>6, <2>7, GoesOnKeeps
<1>8. CASE reopen
  <2>1. Open(r, v.id, w) /\ locked' = Released(r)
    BY <1>4, <1>8
  <2>2. /\ inodes + Cardinality(Opened) <= 2 * starts
        /\ Cardinality(Opened) \in Nat /\ IsFiniteSet(Opened) /\ v.n \in Opened
    BY <1>1, OpenedFinite DEF SInv, FewFiles, OpenedOne
  <2> DEFINE others == Opened \ {v.n}
  <2>3. IsFiniteSet(others) /\ Cardinality(others) = Cardinality(Opened) - 1 /\ Cardinality(others) \in Nat
    <3>1. IsFiniteSet(others) /\ Cardinality(others) = Cardinality(Opened) - 1
      BY ONLY <2>2, FS_RemoveElement
    <3> QED
      BY <3>1, FS_CardinalityType
  <2>4. inodes + 1 <= 2 * MaxStarts
    <3>1. starts <= MaxStarts
      BY <1>0, MaxStartsNat DEF Types
    <3> QED
      BY ONLY <1>2, <2>2, <2>3, <3>1
  <2>5. /\ dir' \in [Ids -> Files] /\ \A x \in Ids : dir'[x] <= inodes'
        /\ inodes' \in Nat /\ inodes' >= inodes /\ inodes' <= inodes + 1
        /\ dir'[v.id] \in Inodes
        /\ req' = [req EXCEPT ![r] = t] /\ t \in Session
    BY <1>2, <1>6, <2>1, <2>4, OpenedFile
  <2>6. t.at = "lock, write" /\ t.id = v.id /\ t.n = v.n /\ t.fd = dir'[v.id] /\ t.size_of = NoFile
    BY <1>6 DEF Session
  <2> HIDE DEF t, w, reopen
  <2>7. /\ req' \in [Requests -> Session] /\ req'[r] = t
        /\ \A q \in Requests \ {r} : req'[q] = req[q]
    BY <1>0, <2>5, Changed
  <2>8. /\ locked' \in [Inodes -> SUBSET Requests]
        /\ \A i \in Inodes : r \notin locked'[i]
        /\ \A q \in Requests \ {r}, i \in Inodes : q \in locked'[i] <=> q \in locked[i]
    BY <1>0, <2>1, ReleasedLocks
  <2>9. Types' /\ NamesExist'
    BY <1>0, <1>1, <2>5, <2>7, <2>8 DEF Types, NamesExist, past
  <2>10. starts' = starts /\ content' = content
    BY <1>1
  <2>11. Knows(r)'
    <3>1. dir'[v.id] # NoFile /\ dir'[v.id] <= inodes'
      BY <1>2, <2>5, NoFileIsNone
    <3> QED
      BY ONLY <1>2, <2>6, <2>7, <2>10, <3>1 DEF Knows
  <2>12. inodes' + Cardinality(Opened') <= 2 * starts'
    <3>1. ASSUME NEW q \in Requests, OpenedOne(q)' PROVE req'[q].n \in others
      <4>1. q # r
        BY <2>6, <2>7, <3>1 DEF OpenedOne
      <4>2. req'[q] = req[q]
        BY <2>7, <4>1
      <4>3. OpenedOne(q) /\ req[q].n \in Opened
        BY <3>1, <4>2 DEF OpenedOne, Opened
      <4>4. req[q].n # v.n
        BY <1>1, <4>1, <4>3 DEF SInv, FewFiles, OpenedOne
      <4> QED
        BY <4>2, <4>3, <4>4
    <3>2. Opened' \subseteq others
      BY <3>1 DEF Opened
    <3>3. Cardinality(Opened') <= Cardinality(others) /\ Cardinality(Opened') \in Nat
      BY <2>3, <3>2, FS_Subset, FS_CardinalityType
    <3> QED
      BY ONLY <1>2, <2>2, <2>3, <2>5, <2>10, <3>3
  <2>13. \A i \in Inodes : r \in locked'[i] <=>
             req'[r].fd = i /\ req'[r].at \notin {"lock, read", "lock, write"}
    BY <2>6, <2>7, <2>8
  <2>14. ~At(r, "pwrite") /\ UNCHANGED <<content, past>>
    BY <1>1 DEF At
  <2>15. \A i \in Inodes \ (cut' \cup misled') :
            \/ content'[i] = meant'[i]
            \/ /\ r \notin locked[i] /\ i \notin cut \cup misled
               /\ content'[i] = content[i] /\ meant'[i] = meant[i]
    BY <2>14, Untouched
  <2>16. inodes' >= inodes /\ starts' >= starts
    BY ONLY <1>2, <2>5, <2>10
  <2>17. req[r].at # "out" /\ req'[r].n = req[r].n
    BY <1>1, <2>6, <2>7
  <2> QED
    BY <2>7, <2>8, <2>9, <2>10, <2>11, <2>12, <2>13, <2>15, <2>16, <2>17, StepKeeps
<1> QED
  BY <1>7, <1>8

-----------------------------------------------------------------------------
(* The invariant and what follows from it *)

LEMMA InitSInv == Init => SInv
<1> SUFFICES ASSUME Init PROVE SInv
  OBVIOUS
<1>1. <<>> \in Text /\ 0 \in 0 .. MaxStarts /\ NoFile \in Files /\ NoFile = 0
  BY MaxSizeNat, MaxStartsNat DEF Text, Files, NoFile
<1>2. Types
  BY <1>1, NoSessionType DEF Init, Types
<1>3. \A r \in Requests : req[r].at = "out" /\ req[r].fd = NoFile
  BY NoSessionType DEF Init
<1>4. NamesExist
  BY <1>1 DEF Init, NamesExist
<1>5. inodes = 0 /\ starts = 0 /\ \A i \in Inodes : locked[i] = {} /\ content[i] = meant[i]
  BY DEF Init
<1>6. ASSUME NEW r \in Requests PROVE Knows(r)
  <2>1. req[r].at = "out" /\ req[r].fd = NoFile /\ NoFile <= inodes
    BY <1>1, <1>3, <1>5
  <2> QED
    BY ONLY <2>1 DEF Knows
<1>7. LockHeld
  BY <1>3, <1>5, NoFileIsNone DEF LockHeld
<1>8. LastWrite
  BY <1>5 DEF LastWrite
<1>9. Opened = {}
  BY <1>3 DEF Opened, OpenedOne
<1>10. FewFiles
  BY <1>3, <1>5, <1>9, FS_EmptySet DEF FewFiles
<1> QED
  BY <1>2, <1>4, <1>6, <1>7, <1>8, <1>10 DEF SInv

LEMMA StutterKeeps == ASSUME SInv, UNCHANGED vars PROVE SInv'
<1>1. /\ dir' = dir /\ content' = content /\ locked' = locked /\ inodes' = inodes
      /\ req' = req /\ starts' = starts /\ meant' = meant /\ cut' = cut /\ misled' = misled
  BY DEF vars
<1>2. Types' /\ NamesExist'
  BY <1>1 DEF SInv, Types, NamesExist
<1>3. \A r \in Requests : Knows(r)'
  BY <1>1 DEF SInv, Knows
<1>4. LockHeld'
  BY <1>1 DEF SInv, LockHeld
<1>5. LastWrite'
  BY <1>1 DEF SInv, LastWrite, Emptied, At
<1>6. Opened' = Opened
  BY <1>1 DEF Opened, OpenedOne
<1>7. FewFiles'
  BY <1>1, <1>6 DEF SInv, FewFiles
<1> QED
  BY <1>2, <1>3, <1>4, <1>5, <1>7 DEF SInv

LEMMA NextKeeps == ASSUME SInv, Next PROVE SInv'
<1> PICK r \in Requests :
    \/ Goes(r)
    \/ \E k \in Ids : Start(r, k)
    \/ \E k \in Ids : SessionId(r, k)
    \/ \E k \in Ids : Regenerate(r, k)
    \/ \E k \in Ids : RegenerateAndDelete(r, k)
    \/ Destroy(r)
    \/ \E size \in 0 .. MaxSize : Flush(r, size)
    \/ Discard(r)
    \/ Crash(r)
  BY DEF Next
<1>1. CASE Goes(r)
  BY <1>1, LockKeeps, ReadKeeps, CollectKeeps, UnlinkKeeps, TruncateKeeps, WriteKeeps DEF Goes
<1>2. CASE \E k \in Ids : Start(r, k)
  BY <1>2, StartKeeps
<1>3. CASE \E k \in Ids : SessionId(r, k) \/ Regenerate(r, k)
  BY <1>3, NewIdKeeps
<1>4. CASE \E k \in Ids : RegenerateAndDelete(r, k)
  BY <1>4, GivenUpKeeps DEF RegenerateAndDelete, SomeId
<1>5. CASE Destroy(r)
  BY <1>5, GivenUpKeeps DEF Destroy, SomeId
<1>6. CASE \E size \in 0 .. MaxSize : Flush(r, size)
  BY <1>6, FlushKeeps
<1>7. CASE Discard(r)
  <2>1. NoId \in SomeId
    BY DEF SomeId
  <2> QED
    BY <1>7, <2>1, GivenUpKeeps
<1>8. CASE Crash(r)
  BY <1>8, CrashKeeps
<1> QED
  BY <1>1, <1>2, <1>3, <1>4, <1>5, <1>6, <1>7, <1>8

LEMMA SInvHolds == Spec => []SInv
<1>1. SInv /\ [Next]_vars => SInv'
  BY NextKeeps, StutterKeeps
<1> QED
  BY <1>1, InitSInv, PTL DEF Spec

LEMMA SInvTypes == SInv => TypeOK
<1> SUFFICES ASSUME SInv PROVE TypeOK
  OBVIOUS
<1>1. Types /\ LockHeld /\ \A r \in Requests : Knows(r)
  BY DEF SInv
<1>2. ASSUME NEW t \in Text PROVE t \in Bytes
  <2>1. t \in Seq(1 .. MaxStarts) /\ Len(t) <= MaxSize
    BY DEF Text
  <2>2. Len(t) \in Nat /\ t \in [1 .. Len(t) -> 1 .. MaxStarts]
    BY ONLY <2>1, LenProperties
  <2>3. Len(t) \in 0 .. MaxSize
    BY ONLY <2>1, <2>2, MaxSizeNat
  <2> QED
    BY <2>2, <2>3 DEF Bytes
<1>3. dir \in [Ids -> Inodes \cup {NoFile}]
  BY <1>1 DEF Types, Files
<1>4. \A i \in Inodes : content[i] \in Bytes /\ locked[i] \in SUBSET Requests
  BY <1>1, <1>2 DEF Types
<1>5. inodes \in 0 .. 2 * MaxStarts
  <2>1. inodes + Cardinality(Opened) <= 2 * starts /\ Cardinality(Opened) \in Nat
    BY OpenedFinite DEF SInv, FewFiles
  <2>2. inodes \in Nat /\ starts \in 0 .. MaxStarts
    BY <1>1 DEF Types
  <2> QED
    BY ONLY <2>1, <2>2, MaxStartsNat
<1>6. ASSUME NEW r \in Requests
      PROVE  /\ req[r].id \in Ids \cup {NoId} /\ req[r].lastkey \in Ids \cup {NoId}
             /\ req[r].fd \in 0 .. inodes /\ req[r].st_size \in 0 .. MaxSize
             /\ req[r].at \in {"read", "write", "pwrite"} => locked[req[r].fd] = {r}
  <2>1. req[r] \in Session /\ Knows(r)
    BY <1>1, OneRequest
  <2>2. req[r].fd \in 0 .. inodes
    <3>1. req[r].fd \in Nat /\ inodes \in Nat
      BY <1>1, Numbers
    <3>2. req[r].fd <= inodes
      BY <2>1 DEF Knows
    <3> QED
      BY ONLY <3>1, <3>2
  <2>3. ASSUME req[r].at \in {"read", "write", "pwrite"} PROVE locked[req[r].fd] = {r}
    <3>1. req[r].fd \in Inodes
      BY <2>1, <2>3, OneRequest DEF Knows
    <3>2. r \in locked[req[r].fd] /\ locked[req[r].fd] \in SUBSET Requests
      BY <1>1, <2>3, <3>1 DEF LockHeld, Types
    <3>3. \A q \in locked[req[r].fd] : q = r
      BY <1>1, <3>1, <3>2 DEF LockHeld
    <3> QED
      BY <3>2, <3>3
  <2> QED
    BY <2>1, <2>2, <2>3 DEF Session, SomeId
<1> QED
  BY <1>3, <1>4, <1>5, <1>6 DEF TypeOK

\* No request writes a file whose lock it has not, and no session opens more than
\* two files, whatever the script does with its id (mod_files.c, session.c).
THEOREM TypeOKHolds == Spec => []TypeOK
BY SInvHolds, SInvTypes, PTL

\* PS_WRITE_FUNC(files): a file holds what the last request to write it has
\* written, all of it and nothing else, for any number of requests and ids and
\* whatever files are removed or replaced in the meantime - unless a writer has
\* died half way or had not the size of the data it wrote over.
THEOREM FileIsLastWriteHolds == Spec => []FileIsLastWrite
<1>1. SInv => FileIsLastWrite
  BY DEF SInv, LastWrite, Emptied, FileIsLastWrite, Truncated
<1> QED
  BY <1>1, SInvHolds, PTL

\* ps_files_open(): the lock is kept from the read to the write, so that while a
\* script runs no other request writes the file that it has read and has open.
THEOREM ReadIsCurrentHolds == Spec => []ReadIsCurrent
<1>1. SInv => ReadIsCurrent
  BY DEF SInv, Knows, ReadIsCurrent
<1> QED
  BY <1>1, SInvHolds, PTL
=====
