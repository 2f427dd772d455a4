--------------------------- MODULE IniEntries_proof ---------------------------
(***************************************************************************)
(* Proof that a directive gets back the value of startup at the end of     *)
(* each request, that the value of php_admin_value holds until then, and   *)
(* that no duplicate is leaked, used or freed twice, for any number of     *)
(* alterations, refusals and bailouts.                                     *)
(*                                                                         *)
(* Only one thing is kept when an error handler alters the directive while *)
(* it is being altered (`nested'): what php_admin_value has locked.        *)
(***************************************************************************)
EXTENDS IniEntries, SequenceTheorems, TLAPS

Frames == [op : {"alter", "restore"}, new : Pointers \cup {None}, was : BOOLEAN,
           by : Everybody, early : BOOLEAN]
Stages == {"between requests", "activate", "script", "deactivate", "free"}
OfCalls == 1 .. Len(calls)

CallsOK ==
    /\ calls \in Seq(Frames)
    /\ Len(calls) <= MaxCalls
    /\ \A i \in OfCalls : calls[i].op = "alter" => calls[i].new \in Duplicates

Types ==
    /\ value \in Pointers \cup {None} /\ orig \in Pointers \cup {None}
    /\ global \in Pointers \cup {None}
    /\ modifiable \in SUBSET Everybody /\ origModifiable \in SUBSET Everybody
    /\ nested \in BOOLEAN /\ corrupt \in BOOLEAN /\ refused \in BOOLEAN
    /\ modified \in BOOLEAN /\ listed \in BOOLEAN
    /\ heap \in SUBSET Duplicates
    /\ stage \in Stages
    /\ admin \in Duplicates \cup {None}

\* Handlers run while the server gives its values, one at a time, and while the
\* script runs, for the script.
WhoCalls ==
    /\ stage \notin {"activate", "script"} => calls = <<>>
    /\ stage = "activate" => Len(calls) <= 1
    /\ \A i \in OfCalls : stage = "activate" => calls[i].op = "alter"
    /\ \A i \in OfCalls : stage = "script" => calls[i].by = User
    /\ \A i \in OfCalls : calls[i].by = System => modifiable = {System}

\* What php_admin_value has given is locked: only php_admin_value alters it.
AdminLocks ==
    /\ admin # None => stage # "between requests"
    /\ admin # None /\ stage \in {"activate", "script"} =>
          /\ value = admin /\ modifiable = {System}
          /\ \A i \in OfCalls : calls[i].by = System

\* The entry, while nothing has altered the directive during an alteration: an
\* altered entry has the value and the rights of startup in reserve.
Reserve ==
    /\ listed = modified
    /\ modified => orig = Startup /\ origModifiable = Everybody
    /\ ~modified => value = Startup /\ orig = None /\ modifiable = Everybody
    /\ stage \in {"free", "between requests"} => ~modified

\* The duplicates that are allocated.
Memory ==
    /\ ~corrupt
    /\ value \in heap \cup {Startup}
    /\ stage = "between requests" => heap = {}
    /\ stage \in {"activate", "script"} =>
          heap = ({value} \cup {calls[i].new : i \in OfCalls}) \ {Startup}

\* At most one call of the handler, with a value other than the one it is to
\* replace, or with the one of startup; that one is not freed when it is replaced.
OneCall ==
    /\ Len(calls) <= 1
    /\ \A i \in OfCalls :
          /\ modified
          /\ IF calls[i].op = "restore" THEN calls[i].new = Startup
             ELSE calls[i].new # value /\ (calls[i].was \/ value = Startup)

\* The pointer of the module, unless its handler has refused the value of startup:
\* it has followed the value, or is ahead of it.
Follows == ~refused =>
    /\ calls = <<>> /\ (stage = "deactivate" => ~modified) => global = value
    /\ \A i \in OfCalls : global = IF calls[i].early THEN calls[i].new ELSE value

Single == Reserve /\ Memory /\ OneCall /\ Follows

IInv == Types /\ CallsOK /\ WhoCalls /\ AdminLocks /\ (~nested => Single)

-----------------------------------------------------------------------------
(* The stack of calls *)

\* A call of the handler comes on top.
LEMMA Pushed ==
    ASSUME CallsOK, NEW f \in Frames, f.op = "alter" => f.new \in Duplicates,
           Len(calls) < MaxCalls, calls' = Append(calls, f)
    PROVE  /\ CallsOK' /\ Len(calls') = Len(calls) + 1
           /\ \A i \in OfCalls : calls'[i] = calls[i]
           /\ calls'[Len(calls')] = f
           /\ calls = <<>> <=> Len(calls) = 0
<1>1. /\ calls' \in Seq(Frames) /\ Len(calls') = Len(calls) + 1
      /\ \A i \in 1 .. Len(calls) : calls'[i] = calls[i]
      /\ calls'[Len(calls) + 1] = f
  BY AppendProperties DEF CallsOK
<1>2. Len(calls) \in Nat /\ (calls = <<>> <=> Len(calls) = 0)
  BY LenProperties, EmptySeq DEF CallsOK
<1>3. \A i \in 1 .. Len(calls') : i \in 1 .. Len(calls) \/ i = Len(calls) + 1
  BY <1>1, <1>2
<1>4. Len(calls') <= MaxCalls
  BY <1>1, <1>2, MaxCallsPos
<1> QED
  BY <1>1, <1>2, <1>3, <1>4 DEF CallsOK, OfCalls

\* The handler that was called last returns.
LEMMA Popped ==
    ASSUME CallsOK, calls # <<>>, calls' = Front(calls)
    PROVE  /\ CallsOK' /\ Len(calls) \in Nat \ {0} /\ Len(calls') = Len(calls) - 1
           /\ \A i \in 1 .. Len(calls') : i \in OfCalls /\ calls'[i] = calls[i]
           /\ calls' = <<>> <=> Len(calls) = 1
<1>1. Len(calls) \in Nat \ {0} /\ \A i \in 1 .. Len(calls) : calls[i] \in Frames
  BY EmptySeq, ElementOfSeq DEF CallsOK
<1>2. /\ calls' \in Seq(Frames) /\ Len(calls') = Len(calls) - 1
      /\ \A i \in 1 .. Len(calls') : calls'[i] = calls[i]
  <2>1. PICK n : n = Len(calls) - 1
    OBVIOUS
  <2>2. PICK one : one = 1
    OBVIOUS
  <2>3. calls' = SubSeq(calls, one, n) /\ one \in Int /\ n \in Int
    BY <1>1, <2>1, <2>2 DEF Front
  <2>4. \A i \in one .. n : calls[i] \in Frames
    BY <1>1, <2>1, <2>2
  <2>5. /\ SubSeq(calls, one, n) \in Seq(Frames)
        /\ Len(SubSeq(calls, one, n)) = IF one <= n THEN n - one + 1 ELSE 0
        /\ \A i \in 1 .. n - one + 1 : SubSeq(calls, one, n)[i] = calls[one + i - 1]
    BY ONLY <2>3, <2>4, SubSeqProperties
  <2>6. Len(calls') = Len(calls) - 1
    BY <1>1, <2>1, <2>2, <2>3, <2>5
  <2>7. ASSUME NEW i \in 1 .. Len(calls') PROVE calls'[i] = calls[i]
    <3>1. i \in 1 .. n - one + 1 /\ one + i - 1 = i
      BY <1>1, <2>1, <2>2, <2>6
    <3> QED
      BY <2>3, <2>5, <3>1
  <2> QED
    BY <2>3, <2>5, <2>6, <2>7
<1>3. \A i \in 1 .. Len(calls') : i \in 1 .. Len(calls)
  BY <1>1, <1>2
<1>4. calls' = <<>> <=> Len(calls') = 0
  BY <1>2, EmptySeq
<1>5. Len(calls') <= MaxCalls
  BY <1>1, <1>2, MaxCallsPos DEF CallsOK
<1> QED
  BY <1>1, <1>2, <1>3, <1>4, <1>5 DEF CallsOK, OfCalls

\* The call on top.
LEMMA TopCall ==
    ASSUME CallsOK, calls # <<>>
    PROVE  /\ Len(calls) \in Nat \ {0} /\ Len(calls) \in OfCalls
           /\ Top = calls[Len(calls)] /\ Top \in Frames
           /\ Top.op = "alter" => Top.new \in Duplicates
<1>1. Len(calls) \in Nat \ {0} /\ \A i \in 1 .. Len(calls) : calls[i] \in Frames
  BY EmptySeq, ElementOfSeq DEF CallsOK
<1> QED
  BY <1>1 DEF CallsOK, OfCalls, Top, Last

\* No call.
LEMMA NoCall ==
    ASSUME CallsOK
    PROVE  /\ Len(calls) \in Nat
           /\ calls = <<>> <=> Len(calls) = 0
           /\ calls = <<>> => OfCalls = {}
<1>1. Len(calls) \in Nat /\ (calls = <<>> <=> Len(calls) = 0)
  BY LenProperties, EmptySeq DEF CallsOK
<1> QED
  BY <1>1 DEF OfCalls

\* Calls that stay as they are.
LEMMA SameCalls == ASSUME CallsOK, calls' = calls PROVE CallsOK' /\ OfCalls' = OfCalls
BY DEF CallsOK, OfCalls

\* All calls are left.
LEMMA NoneLeft == ASSUME calls' = <<>> PROVE CallsOK' /\ OfCalls' = {} /\ Len(calls') = 0
<1>1. calls' \in Seq(Frames) /\ Len(calls') = 0
  BY EmptySeq
<1> QED
  BY <1>1, MaxCallsPos DEF CallsOK, OfCalls

-----------------------------------------------------------------------------
(* One lemma for each operation *)

\* zend_alter_ini_entry_ex(), for the server or the script: the entry keeps the
\* value of startup before the handler is called with a new one.
LEMMA AlterKeeps ==
    ASSUME IInv, NEW by \in Everybody, NEW locks \in BOOLEAN, AlterBy(by, locks),
           Len(calls) < MaxCalls, locks <=> by = System,
           \/ stage = "activate" /\ calls = <<>>
           \/ stage = "script" /\ by = User
    PROVE  IInv'
<1>1. PICK new \in Duplicates \ heap :
         /\ heap' = heap \cup {new}
         /\ Call("alter", new, modified, by)
  BY DEF AlterBy
<1>2. PICK early \in BOOLEAN :
         /\ calls' = Append(calls, [op |-> "alter", new |-> new, was |-> modified, by |-> by, early |-> early])
         /\ global' = IF early THEN new ELSE global
         /\ nested' = (nested \/ calls # <<>>)
  BY <1>1 DEF Call
<1>3. /\ by \in (IF locks THEN {System} ELSE modifiable)
      /\ modifiable' = IF locks THEN {System} ELSE modifiable
      /\ IF modified THEN UNCHANGED <<orig, origModifiable, modified, listed>>
         ELSE orig' = value /\ origModifiable' = modifiable /\ modified' = TRUE /\ listed' = TRUE
      /\ value' = value /\ stage' = stage /\ admin' = admin /\ refused' = refused
      /\ corrupt' = corrupt
  BY DEF AlterBy
<1>4. Types /\ CallsOK /\ WhoCalls /\ AdminLocks /\ (~nested => Single)
  BY DEF IInv
<1>5. PICK f \in Frames : /\ f.op = "alter" /\ f.new = new /\ f.was = modified /\ f.by = by
                          /\ f.early = early /\ calls' = Append(calls, f)
  <2> DEFINE g == [op |-> "alter", new |-> new, was |-> modified, by |-> by, early |-> early]
  <2>1. /\ g \in Frames /\ g.op = "alter" /\ g.new = new /\ g.was = modified /\ g.by = by
        /\ g.early = early
    BY <1>4 DEF Frames, Pointers, Types
  <2>2. calls' = Append(calls, g)
    BY <1>2
  <2> HIDE DEF g
  <2> QED
    BY <2>1, <2>2
<1>6. /\ CallsOK' /\ Len(calls') = Len(calls) + 1
      /\ \A i \in OfCalls : calls'[i] = calls[i]
      /\ calls'[Len(calls')] = f
      /\ calls = <<>> <=> Len(calls) = 0
  BY <1>4, <1>5, Pushed
<1>7. /\ Len(calls) \in Nat
      /\ \A i \in OfCalls' : i \in OfCalls \/ i = Len(calls')
  <2>1. Len(calls) \in Nat
    BY <1>4, NoCall
  <2> QED
    BY <1>6, <2>1 DEF OfCalls
<1>8. \A i \in OfCalls' : calls'[i] = f \/ (i \in OfCalls /\ calls'[i] = calls[i])
  BY <1>6, <1>7
<1>9. Types'
  <2>1. modifiable' \in SUBSET Everybody /\ origModifiable' \in SUBSET Everybody
    BY <1>3, <1>4 DEF Types, Everybody
  <2>2. global' \in Pointers \cup {None} /\ orig' \in Pointers \cup {None} /\ heap' \in SUBSET Duplicates
    BY <1>1, <1>2, <1>3, <1>4 DEF Types, Pointers
  <2>3. nested' \in BOOLEAN /\ modified' \in BOOLEAN /\ listed' \in BOOLEAN
    BY <1>2, <1>3, <1>4 DEF Types
  <2> QED
    BY <1>3, <1>4, <2>1, <2>2, <2>3 DEF Types
<1>10. WhoCalls'
  <2>1. stage' = "activate" => Len(calls') <= 1
    BY <1>3, <1>6
  <2>2. \A i \in OfCalls' : stage' = "activate" => calls'[i].op = "alter"
    BY <1>3, <1>4, <1>5, <1>8 DEF WhoCalls
  <2>3. \A i \in OfCalls' : stage' = "script" => calls'[i].by = User
    <3>1. stage = "script" => by = User
      OBVIOUS
    <3> QED
      BY <1>3, <1>4, <1>5, <1>8, <3>1 DEF WhoCalls
  <2>4. \A i \in OfCalls' : calls'[i].by = System => modifiable' = {System}
    BY <1>3, <1>4, <1>5, <1>8 DEF WhoCalls
  <2> QED
    BY <1>3, <2>1, <2>2, <2>3, <2>4 DEF WhoCalls
<1>11. AdminLocks'
  <2>1. admin # None => value = admin /\ by = System /\ \A i \in OfCalls : calls[i].by = System
    BY <1>3, <1>4 DEF AdminLocks
  <2>2. admin # None => modifiable' = {System}
    BY <1>3, <2>1
  <2>3. admin # None => \A i \in OfCalls' : calls'[i].by = System
    BY <1>5, <1>8, <2>1
  <2> QED
    BY <1>3, <2>1, <2>2, <2>3 DEF AdminLocks
<1>12. ASSUME ~nested' PROVE Single'
  <2>1. ~nested /\ calls = <<>> /\ Single /\ OfCalls = {}
    BY <1>2, <1>4, <1>12, NoCall
  <2>2. Len(calls') = 1 /\ \A i \in OfCalls' : calls'[i] = f
    BY <1>6, <1>8, <2>1
  <2>3. OfCalls' = {1}
    BY <2>2 DEF OfCalls
  <2>4. Startup \notin Duplicates
    BY DuplicatesAreNew
  <2>5. Reserve'
    <3>1. CASE modified
      BY <1>3, <2>1, <3>1 DEF Single, Reserve
    <3>2. CASE ~modified
      <4>1. value = Startup /\ modifiable = Everybody /\ stage \notin {"free", "between requests"}
        BY <2>1, <3>2 DEF Single, Reserve
      <4>2. /\ modified' = TRUE /\ listed' = TRUE /\ orig' = Startup /\ origModifiable' = Everybody
            /\ stage' \notin {"free", "between requests"}
        BY <1>3, <3>2, <4>1
      <4> QED
        BY <4>2 DEF Reserve
    <3> QED
      BY <3>1, <3>2
  <2>6. Memory'
    <3>1. value \in heap \cup {Startup} /\ ~corrupt /\ heap = {value} \ {Startup}
      BY <2>1 DEF Single, Memory
    <3>2. {calls'[i].new : i \in OfCalls'} = {new}
      BY <1>5, <2>2, <2>3
    <3>3. heap' = ({value'} \cup {calls'[i].new : i \in OfCalls'}) \ {Startup}
      BY <1>1, <1>3, <2>4, <3>1, <3>2
    <3> QED
      BY <1>1, <1>3, <3>1, <3>3 DEF Memory
  <2>7. OneCall'
    <3>1. new # value
      BY <1>1, <2>1, <2>4 DEF Single, Memory
    <3>2. modified'
      BY <1>3, <1>4 DEF Types
    <3>3. \A i \in OfCalls' : /\ calls'[i].op # "restore" /\ calls'[i].new # value'
                              /\ (calls'[i].was \/ value' = Startup)
      <4>1. modified \/ value = Startup
        BY <2>1 DEF Single, Reserve
      <4> QED
        BY <1>3, <1>5, <2>2, <3>1, <4>1
    <3>4. Len(calls') <= 1
      BY <2>2
    <3> QED
      BY ONLY <3>2, <3>3, <3>4 DEF OneCall
  <2>8. Follows'
    <3>1. ~refused => global = value
      BY <2>1 DEF Single, Follows
    <3>2. calls' # <<>>
      BY <2>2, EmptySeq
    <3> QED
      BY <1>2, <1>3, <1>5, <2>2, <3>1, <3>2 DEF Follows
  <2> QED
    BY <2>5, <2>6, <2>7, <2>8 DEF Single
<1> QED
  BY <1>6, <1>9, <1>10, <1>11, <1>12 DEF IInv

\* Who may.
LEMMA AltersKeep == ASSUME IInv, AdminValue \/ PerdirValue \/ IniSet PROVE IInv'
<1>1. System \in Everybody /\ Perdir \in Everybody /\ User \in Everybody
      /\ System # Perdir /\ System # User
  BY DEF Everybody, System, Perdir, User
<1>2. calls = <<>> => Len(calls) < MaxCalls
  BY MaxCallsPos, NoCall DEF IInv
<1>3. CASE AdminValue
  BY <1>1, <1>2, <1>3, AlterKeeps DEF AdminValue
<1>4. CASE PerdirValue
  BY <1>1, <1>2, <1>4, AlterKeeps DEF PerdirValue
<1>5. CASE IniSet
  BY <1>1, <1>5, AlterKeeps DEF IniSet, Script
<1> QED
  BY <1>3, <1>4, <1>5

\* The handler has accepted the value.
LEMMA AlterAcceptedKeeps == ASSUME IInv, AlterAccepted PROVE IInv'
<1>1. /\ calls # <<>> /\ Top.op = "alter"
      /\ global' = IF Top.early THEN global ELSE Top.new
      /\ value' = Top.new
      /\ IF Top.was /\ orig # value
         THEN heap' = heap \ {value} /\ corrupt' = (corrupt \/ value \notin heap)
         ELSE heap' = heap /\ corrupt' = corrupt
      /\ calls' = Front(calls)
      /\ admin' = IF Top.by = System THEN Top.new ELSE admin
      /\ orig' = orig /\ modifiable' = modifiable /\ origModifiable' = origModifiable
      /\ modified' = modified /\ listed' = listed /\ stage' = stage /\ nested' = nested
      /\ refused' = refused
  BY DEF AlterAccepted, Returning, Accepts, Efree, NoFree
<1>2. Types /\ CallsOK /\ WhoCalls /\ AdminLocks /\ (~nested => Single)
  BY DEF IInv
<1>3. /\ CallsOK' /\ Len(calls) \in Nat \ {0} /\ Len(calls') = Len(calls) - 1
      /\ \A i \in 1 .. Len(calls') : i \in OfCalls /\ calls'[i] = calls[i]
      /\ calls' = <<>> <=> Len(calls) = 1
  BY <1>1, <1>2, Popped
<1>4. /\ Len(calls) \in OfCalls /\ Top = calls[Len(calls)] /\ Top \in Frames /\ Top.new \in Duplicates
  BY <1>1, <1>2, TopCall
<1>5. stage \in {"activate", "script"}
  BY <1>1, <1>2 DEF WhoCalls
<1>6. Types'
  <2>1. value' \in Pointers /\ global' \in Pointers \cup {None} /\ admin' \in Duplicates \cup {None}
    BY <1>1, <1>2, <1>4 DEF Types, Pointers
  <2>2. heap' \in SUBSET Duplicates /\ corrupt' \in BOOLEAN
    BY <1>1, <1>2 DEF Types
  <2> QED
    BY <1>1, <1>2, <2>1, <2>2 DEF Types
<1>7. \A i \in OfCalls' : i \in OfCalls /\ calls'[i] = calls[i]
  BY <1>3 DEF OfCalls
<1>8. WhoCalls'
  <2>1. stage' = "activate" => Len(calls') <= 1
    BY <1>1, <1>2, <1>3 DEF WhoCalls
  <2> QED
    BY <1>1, <1>2, <1>5, <1>7, <2>1 DEF WhoCalls
<1>9. AdminLocks'
  <2>1. CASE Top.by = System
    <3>1. modifiable = {System} /\ stage = "activate"
      BY <1>2, <1>4, <1>5, <2>1 DEF WhoCalls, System, User
    <3>2. Len(calls) = 1 /\ OfCalls' = {}
      <4>1. Len(calls) = 1
        BY <1>2, <1>3, <3>1 DEF WhoCalls
      <4> QED
        BY <1>3, <4>1 DEF OfCalls
    <3> QED
      BY <1>1, <1>5, <2>1, <3>1, <3>2 DEF AdminLocks
  <2>2. CASE Top.by # System
    <3>1. admin = None /\ admin' = None
      BY <1>1, <1>2, <1>4, <1>5, <2>2 DEF AdminLocks
    <3> QED
      BY <3>1 DEF AdminLocks
  <2> QED
    BY <2>1, <2>2
<1>10. ASSUME ~nested' PROVE Single'
  <2>1. Single
    BY <1>1, <1>2, <1>10
  <2>2. Len(calls) = 1 /\ calls' = <<>> /\ OfCalls = {1} /\ OfCalls' = {} /\ Len(calls') = 0
    <3>1. Len(calls) = 1
      BY <1>3, <2>1 DEF Single, OneCall
    <3> QED
      BY <1>3, <3>1 DEF OfCalls
  <2>3. /\ modified /\ Top.new # value /\ (Top.was \/ value = Startup) /\ orig = Startup
        /\ Top = calls[1] /\ Top.new # Startup
    BY <1>1, <1>4, <2>1, <2>2, DuplicatesAreNew DEF Single, OneCall, Reserve
  <2>4. Reserve'
    BY <1>1, <2>1, <2>3 DEF Single, Reserve
  <2>5. Memory'
    <3>1. ~corrupt /\ value \in heap \cup {Startup}
      BY <2>1 DEF Single, Memory
    <3>2. heap = {value, Top.new} \ {Startup}
      <4>1. {calls[i].new : i \in OfCalls} = {Top.new}
        BY <2>2, <2>3
      <4> QED
        BY <1>5, <2>1, <4>1 DEF Single, Memory
    <3>3. heap' = {Top.new} /\ ~corrupt'
      BY <1>1, <2>3, <3>1, <3>2
    <3> QED
      BY <1>1, <1>5, <2>2, <2>3, <3>3 DEF Memory
  <2>6. OneCall'
    BY <2>2 DEF OneCall
  <2>7. Follows'
    <3>1. ~refused => global = IF Top.early THEN Top.new ELSE value
      BY <2>1, <2>2, <2>3 DEF Single, Follows
    <3> QED
      BY <1>1, <2>2, <3>1 DEF Follows
  <2> QED
    BY <2>4, <2>5, <2>6, <2>7 DEF Single
<1> QED
  BY <1>3, <1>6, <1>8, <1>9, <1>10 DEF IInv

\* The handler has refused it, and the duplicate is freed.
LEMMA AlterRefusedKeeps == ASSUME IInv, AlterRefused PROVE IInv'
<1>1. /\ calls # <<>> /\ Top.op = "alter" /\ ~Top.early
      /\ heap' = heap \ {Top.new} /\ corrupt' = (corrupt \/ Top.new \notin heap)
      /\ calls' = Front(calls)
      /\ value' = value /\ global' = global /\ admin' = admin
      /\ orig' = orig /\ modifiable' = modifiable /\ origModifiable' = origModifiable
      /\ modified' = modified /\ listed' = listed /\ stage' = stage /\ nested' = nested
      /\ refused' = refused
  BY DEF AlterRefused, Returning, Efree, entry
<1>2. Types /\ CallsOK /\ WhoCalls /\ AdminLocks /\ (~nested => Single)
  BY DEF IInv
<1>3. /\ CallsOK' /\ Len(calls) \in Nat \ {0} /\ Len(calls') = Len(calls) - 1
      /\ \A i \in 1 .. Len(calls') : i \in OfCalls /\ calls'[i] = calls[i]
      /\ calls' = <<>> <=> Len(calls) = 1
  BY <1>1, <1>2, Popped
<1>4. /\ Len(calls) \in OfCalls /\ Top = calls[Len(calls)] /\ Top \in Frames /\ Top.new \in Duplicates
  BY <1>1, <1>2, TopCall
<1>5. stage \in {"activate", "script"}
  BY <1>1, <1>2 DEF WhoCalls
<1>6. Types'
  <2>1. heap' \in SUBSET Duplicates /\ corrupt' \in BOOLEAN
    BY <1>1, <1>2 DEF Types
  <2> QED
    BY <1>1, <1>2, <2>1 DEF Types
<1>7. \A i \in OfCalls' : i \in OfCalls /\ calls'[i] = calls[i]
  BY <1>3 DEF OfCalls
<1>8. WhoCalls'
  <2>1. stage' = "activate" => Len(calls') <= 1
    BY <1>1, <1>2, <1>3 DEF WhoCalls
  <2> QED
    BY <1>1, <1>2, <1>5, <1>7, <2>1 DEF WhoCalls
<1>9. AdminLocks'
  BY <1>1, <1>2, <1>7 DEF AdminLocks
<1>10. ASSUME ~nested' PROVE Single'
  <2>1. Single
    BY <1>1, <1>2, <1>10
  <2>2. Len(calls) = 1 /\ calls' = <<>> /\ OfCalls = {1} /\ OfCalls' = {} /\ Len(calls') = 0
    <3>1. Len(calls) = 1
      BY <1>3, <2>1 DEF Single, OneCall
    <3> QED
      BY <1>3, <3>1 DEF OfCalls
  <2>3. Top.new # value /\ Top = calls[1] /\ Top.new # Startup
    BY <1>1, <1>4, <2>1, <2>2, DuplicatesAreNew DEF Single, OneCall
  <2>4. Reserve'
    BY <1>1, <2>1, <2>3 DEF Single, Reserve
  <2>5. Memory'
    <3>1. ~corrupt /\ value \in heap \cup {Startup}
      BY <2>1 DEF Single, Memory
    <3>2. heap = {value, Top.new} \ {Startup}
      <4>1. {calls[i].new : i \in OfCalls} = {Top.new}
        BY <2>2, <2>3
      <4> QED
        BY <1>5, <2>1, <4>1 DEF Single, Memory
    <3>3. heap' = {value} \ {Startup} /\ ~corrupt'
      BY <1>1, <2>3, <3>1, <3>2
    <3> QED
      BY <1>1, <1>5, <2>2, <2>3, <3>3 DEF Memory
  <2>6. OneCall'
    BY <2>2 DEF OneCall
  <2>7. Follows'
    <3>1. ~refused => global = value
      BY <1>1, <2>1, <2>2, <2>3 DEF Single, Follows
    <3> QED
      BY <1>1, <2>2, <3>1 DEF Follows
  <2> QED
    BY <2>4, <2>5, <2>6, <2>7 DEF Single
<1> QED
  BY <1>3, <1>6, <1>8, <1>9, <1>10 DEF IInv

\* A call of the handler that is not caught ends the script; one that is caught
\* leaves the calls up to the one that restores.
LEMMA BailoutKeeps == ASSUME IInv, Bailout PROVE IInv'
<1> DEFINE restores == {i \in DOMAIN calls : calls[i].op = "restore"}
<1>1. /\ calls # <<>> /\ Top.op = "alter"
      /\ value' = value /\ global' = global /\ admin' = admin /\ heap' = heap
      /\ orig' = orig /\ modifiable' = modifiable /\ origModifiable' = origModifiable
      /\ modified' = modified /\ listed' = listed /\ nested' = nested
      /\ refused' = refused /\ corrupt' = corrupt
  BY DEF Bailout, Returning, entry, past
<1>2. Types /\ CallsOK /\ WhoCalls /\ AdminLocks /\ (~nested => Single)
  BY DEF IInv
<1>3. stage \in {"activate", "script"}
  BY <1>1, <1>2 DEF WhoCalls
<1>4. CASE calls' = <<>> /\ stage' = "deactivate"
  <2>1. CallsOK' /\ OfCalls' = {} /\ Len(calls') = 0
    BY <1>4, NoneLeft
  <2>2. Types'
    BY <1>1, <1>2, <1>4 DEF Types, Stages
  <2>3. WhoCalls' /\ AdminLocks'
    BY <1>4, <2>1 DEF WhoCalls, AdminLocks
  <2>4. ASSUME ~nested' PROVE Single'
    <3>1. Single
      BY <1>1, <1>2, <2>4
    <3>2. modified
      BY <1>1, <1>2, <3>1, TopCall DEF Single, OneCall
    <3>3. Reserve'
      BY <1>1, <1>4, <3>1 DEF Single, Reserve
    <3>4. Memory'
      BY <1>1, <1>4, <3>1 DEF Single, Memory
    <3>5. OneCall'
      BY <2>1 DEF OneCall
    <3>6. Follows'
      BY <1>1, <1>4, <2>1, <3>2 DEF Follows
    <3> QED
      BY <3>3, <3>4, <3>5, <3>6 DEF Single
  <2> QED
    BY <2>1, <2>2, <2>3, <2>4 DEF IInv
<1>5. ASSUME NEW last \in restores,
             calls' = [SubSeq(calls, 1, last) EXCEPT ![last].early = TRUE], stage' = stage
      PROVE  IInv'
  <2>1. /\ Len(calls) \in Nat /\ last \in OfCalls /\ last \in 1 .. Len(calls)
        /\ calls[last].op = "restore"
        /\ \A i \in 1 .. Len(calls) : calls[i] \in Frames
    <3>1. Len(calls) \in Nat /\ DOMAIN calls = 1 .. Len(calls)
      BY <1>2, LenProperties DEF CallsOK
    <3>2. \A i \in 1 .. Len(calls) : calls[i] \in Frames
      BY <1>2, ElementOfSeq DEF CallsOK
    <3> QED
      BY <1>5, <3>1, <3>2 DEF OfCalls
  <2>2. PICK s : s = SubSeq(calls, 1, last)
    OBVIOUS
  <2>3. s \in Seq(Frames) /\ Len(s) = last /\ \A i \in 1 .. last : s[i] = calls[i]
    <3>1. PICK one : one = 1
      OBVIOUS
    <3>2. one \in Int /\ last \in Int /\ s = SubSeq(calls, one, last)
      BY <2>1, <2>2, <3>1
    <3>3. \A i \in one .. last : calls[i] \in Frames
      BY <2>1, <3>1
    <3>4. /\ s \in Seq(Frames)
          /\ Len(s) = IF one <= last THEN last - one + 1 ELSE 0
          /\ \A i \in 1 .. last - one + 1 : s[i] = calls[one + i - 1]
      BY ONLY <3>2, <3>3, SubSeqProperties
    <3>5. ASSUME NEW i \in 1 .. last PROVE s[i] = calls[i]
      <4>1. i \in 1 .. last - one + 1 /\ one + i - 1 = i
        BY <2>1, <3>1
      <4> QED
        BY <3>4, <4>1
    <3> QED
      BY <2>1, <3>1, <3>4, <3>5
  <2>4. PICK e : e = [s[last] EXCEPT !.early = TRUE]
    OBVIOUS
  <2>5. e \in Frames /\ e.op = "restore" /\ e.by = s[last].by
    <3>1. s[last] \in Frames /\ s[last].op = "restore"
      BY <2>1, <2>3
    <3> QED
      BY <2>4, <3>1 DEF Frames
  <2>6. /\ calls' \in Seq(Frames) /\ Len(calls') = last
        /\ \A i \in 1 .. last : calls'[i] = IF i = last THEN e ELSE s[i]
    <3>1. calls' = [s EXCEPT ![last] = e]
      BY <1>5, <2>2, <2>4
    <3>2. last \in 1 .. Len(s)
      BY <2>1, <2>3
    <3> HIDE DEF restores
    <3> QED
      BY <2>3, <2>5, <3>1, <3>2, ExceptSeq
  <2>7. OfCalls' = 1 .. last
    BY <2>6 DEF OfCalls
  <2>8. \A i \in OfCalls' : /\ i \in OfCalls /\ calls'[i].op = calls[i].op
                            /\ calls'[i].by = calls[i].by
                            /\ calls'[i].op = "alter" => calls'[i] = calls[i]
    <3>1. ASSUME NEW i \in 1 .. last
          PROVE  /\ i \in OfCalls /\ calls'[i].op = calls[i].op /\ calls'[i].by = calls[i].by
                 /\ calls'[i].op = "alter" => calls'[i] = calls[i]
      <4>1. i \in OfCalls
        BY <2>1 DEF OfCalls
      <4>2. CASE i = last
        BY <2>1, <2>3, <2>5, <2>6, <4>1, <4>2
      <4>3. CASE i # last
        BY <2>3, <2>6, <4>1, <4>3
      <4> QED
        BY <4>2, <4>3
    <3> QED
      BY <2>7, <3>1
  <2>9. CallsOK'
    <3>1. Len(calls') <= MaxCalls
      BY <1>2, <2>1, <2>6, MaxCallsPos DEF CallsOK
    <3>2. \A i \in OfCalls' : calls'[i].op = "alter" => calls'[i].new \in Duplicates
      BY <1>2, <2>8 DEF CallsOK
    <3> QED
      BY <2>6, <3>1, <3>2 DEF CallsOK
  <2>10. stage = "script" /\ stage' = "script"
    BY <1>2, <1>3, <1>5, <2>1 DEF WhoCalls
  <2>11. Types'
    BY <1>1, <1>2, <1>5 DEF Types
  <2>12. WhoCalls'
    BY <1>1, <1>2, <2>8, <2>10 DEF WhoCalls
  <2>13. AdminLocks'
    BY <1>1, <1>2, <2>8, <2>10 DEF AdminLocks
  <2>14. nested'
    <3>1. ~nested => Len(calls) <= 1
      BY <1>2 DEF Single, OneCall
    <3>2. ~nested => Len(calls) = last
      BY <2>1, <3>1
    <3>3. Top = calls[Len(calls)]
      BY DEF Top, Last
    <3> QED
      BY <1>1, <1>2, <2>1, <3>2, <3>3 DEF Types
  <2> QED
    BY <2>9, <2>11, <2>12, <2>13, <2>14 DEF IInv
<1>6. \/ calls' = <<>> /\ stage' = "deactivate"
      \/ \E last \in restores :
            calls' = [SubSeq(calls, 1, last) EXCEPT ![last].early = TRUE] /\ stage' = stage
  BY DEF Bailout
<1> HIDE DEF restores
<1> QED
  BY <1>4, <1>5, <1>6

\* ini_restore() calls the handler with the value of startup.
LEMMA IniRestoreKeeps == ASSUME IInv, IniRestore PROVE IInv'
<1>1. /\ stage = "script" /\ Len(calls) < MaxCalls /\ User \in modifiable /\ modified
      /\ Call("restore", orig, TRUE, User)
      /\ value' = value /\ orig' = orig /\ modifiable' = modifiable
      /\ origModifiable' = origModifiable /\ modified' = modified /\ listed' = listed
      /\ heap' = heap /\ stage' = stage /\ admin' = admin /\ refused' = refused
      /\ corrupt' = corrupt
  BY DEF IniRestore, Script, entry
<1>2. PICK early \in BOOLEAN :
         /\ calls' = Append(calls, [op |-> "restore", new |-> orig, was |-> TRUE, by |-> User, early |-> early])
         /\ global' = IF early THEN orig ELSE global
         /\ nested' = (nested \/ calls # <<>>)
  BY <1>1 DEF Call
<1>3. Types /\ CallsOK /\ WhoCalls /\ AdminLocks /\ (~nested => Single)
  BY DEF IInv
<1>4. PICK f \in Frames : /\ f.op = "restore" /\ f.new = orig /\ f.by = User
                          /\ f.early = early /\ calls' = Append(calls, f)
  <2> DEFINE g == [op |-> "restore", new |-> orig, was |-> TRUE, by |-> User, early |-> early]
  <2>1. g \in Frames /\ g.op = "restore" /\ g.new = orig /\ g.by = User /\ g.early = early
    BY <1>3 DEF Frames, Types, Everybody
  <2>2. calls' = Append(calls, g)
    BY <1>2
  <2> HIDE DEF g
  <2> QED
    BY <2>1, <2>2
<1>5. /\ CallsOK' /\ Len(calls') = Len(calls) + 1
      /\ \A i \in OfCalls : calls'[i] = calls[i]
      /\ calls'[Len(calls')] = f
      /\ calls = <<>> <=> Len(calls) = 0
  BY <1>1, <1>3, <1>4, Pushed
<1>6. \A i \in OfCalls' : calls'[i] = f \/ (i \in OfCalls /\ calls'[i] = calls[i])
  <2>1. Len(calls) \in Nat
    BY <1>3, NoCall
  <2>2. \A i \in OfCalls' : i \in OfCalls \/ i = Len(calls')
    BY <1>5, <2>1 DEF OfCalls
  <2> QED
    BY <1>5, <2>2
<1>7. Types'
  BY <1>1, <1>2, <1>3 DEF Types
<1>8. WhoCalls'
  BY <1>1, <1>3, <1>4, <1>6 DEF WhoCalls, System, User
<1>9. AdminLocks'
  <2>1. admin = None
    BY <1>1, <1>3 DEF AdminLocks, System, User
  <2> QED
    BY <1>1, <2>1 DEF AdminLocks
<1>10. ASSUME ~nested' PROVE Single'
  <2>1. Single /\ calls = <<>> /\ OfCalls = {} /\ orig = Startup
    <3>1. Single /\ calls = <<>>
      BY <1>2, <1>3, <1>10
    <3> QED
      BY <1>1, <1>3, <3>1, NoCall DEF Single, Reserve
  <2>2. Len(calls') = 1 /\ OfCalls' = {1} /\ \A i \in OfCalls' : calls'[i] = f
    <3>1. Len(calls') = 1
      BY <1>5, <2>1
    <3> QED
      BY <1>6, <2>1, <3>1 DEF OfCalls
  <2>3. Reserve'
    BY <1>1, <2>1 DEF Single, Reserve
  <2>4. Memory'
    <3>1. heap = {value} \ {Startup}
      BY <1>1, <2>1 DEF Single, Memory
    <3>2. {calls'[i].new : i \in OfCalls'} = {Startup}
      BY <1>4, <2>1, <2>2
    <3>3. heap' = ({value'} \cup {calls'[i].new : i \in OfCalls'}) \ {Startup}
      BY <1>1, <3>1, <3>2
    <3> QED
      BY <1>1, <2>1, <3>3 DEF Single, Memory
  <2>5. OneCall'
    BY <1>1, <1>4, <2>1, <2>2 DEF OneCall
  <2>6. Follows'
    <3>1. ~refused => global = value
      BY <1>1, <2>1 DEF Single, Follows
    <3>2. calls' # <<>>
      BY <2>2, EmptySeq
    <3> QED
      BY <1>1, <1>2, <1>4, <2>1, <2>2, <3>1, <3>2 DEF Follows
  <2> QED
    BY <2>3, <2>4, <2>5, <2>6 DEF Single
<1> QED
  BY <1>5, <1>7, <1>8, <1>9, <1>10 DEF IInv

\* The entry has the value of startup again, whatever the handler has said.
LEMMA RestoredKeeps == ASSUME IInv, Restored PROVE IInv'
<1>1. /\ calls # <<>> /\ Top.op = "restore"
      /\ \/ /\ global' = IF Top.early THEN global ELSE Top.new
            /\ refused' = refused
         \/ global' = global /\ refused' = TRUE
      /\ IF value # orig
         THEN heap' = heap \ {value} /\ corrupt' = (corrupt \/ value \notin heap)
         ELSE heap' = heap /\ corrupt' = corrupt
      /\ value' = orig /\ modifiable' = origModifiable /\ modified' = FALSE
      /\ orig' = None /\ origModifiable' = {} /\ listed' = FALSE
      /\ calls' = Front(calls)
      /\ stage' = stage /\ admin' = admin /\ nested' = nested
  BY DEF Restored, Returning, Accepts, GiveBack, Efree, NoFree
<1>2. Types /\ CallsOK /\ WhoCalls /\ AdminLocks /\ (~nested => Single)
  BY DEF IInv
<1>3. /\ CallsOK' /\ Len(calls) \in Nat \ {0} /\ Len(calls') = Len(calls) - 1
      /\ \A i \in 1 .. Len(calls') : i \in OfCalls /\ calls'[i] = calls[i]
      /\ calls' = <<>> <=> Len(calls) = 1
  BY <1>1, <1>2, Popped
<1>4. Len(calls) \in OfCalls /\ Top = calls[Len(calls)] /\ Top \in Frames
  BY <1>1, <1>2, TopCall
<1>5. stage = "script" /\ Top.by = User
  BY <1>1, <1>2, <1>4 DEF WhoCalls
<1>6. Types'
  <2>1. global' \in Pointers \cup {None} /\ refused' \in BOOLEAN
    BY <1>1, <1>2, <1>4 DEF Types, Frames
  <2>2. heap' \in SUBSET Duplicates /\ corrupt' \in BOOLEAN
    BY <1>1, <1>2 DEF Types
  <2> QED
    BY <1>1, <1>2, <2>1, <2>2 DEF Types
<1>7. \A i \in OfCalls' : i \in OfCalls /\ calls'[i] = calls[i]
  BY <1>3 DEF OfCalls
<1>8. WhoCalls'
  BY <1>1, <1>2, <1>5, <1>7 DEF WhoCalls, System, User
<1>9. AdminLocks'
  <2>1. admin = None
    BY <1>2, <1>4, <1>5 DEF AdminLocks, System, User
  <2> QED
    BY <1>1, <2>1 DEF AdminLocks
<1>10. ASSUME ~nested' PROVE Single'
  <2>1. Single
    BY <1>1, <1>2, <1>10
  <2>2. Len(calls) = 1 /\ calls' = <<>> /\ OfCalls = {1} /\ OfCalls' = {} /\ Len(calls') = 0
    <3>1. Len(calls) = 1
      BY <1>3, <2>1 DEF Single, OneCall
    <3> QED
      BY <1>3, <3>1 DEF OfCalls
  <2>3. /\ modified /\ Top.new = Startup /\ orig = Startup /\ origModifiable = Everybody
        /\ Top = calls[1]
    BY <1>1, <1>4, <2>1, <2>2 DEF Single, OneCall, Reserve
  <2>4. Reserve'
    BY <1>1, <1>5, <2>3 DEF Reserve
  <2>5. Memory'
    <3>1. ~corrupt /\ value \in heap \cup {Startup}
      BY <2>1 DEF Single, Memory
    <3>2. heap = {value} \ {Startup}
      <4>1. {calls[i].new : i \in OfCalls} = {Startup}
        BY <2>2, <2>3
      <4> QED
        BY <1>5, <2>1, <4>1 DEF Single, Memory
    <3>3. heap' = {} /\ ~corrupt'
      BY <1>1, <2>3, <3>1, <3>2
    <3> QED
      BY <1>1, <1>5, <2>2, <2>3, <3>3 DEF Memory
  <2>6. OneCall'
    BY <2>2 DEF OneCall
  <2>7. Follows'
    <3>1. ~refused => global = IF Top.early THEN Top.new ELSE value
      BY <2>1, <2>2, <2>3 DEF Single, Follows
    <3> QED
      BY <1>1, <2>2, <2>3, <3>1 DEF Follows
  <2> QED
    BY <2>4, <2>5, <2>6, <2>7 DEF Single
<1> QED
  BY <1>3, <1>6, <1>8, <1>9, <1>10 DEF IInv

\* The request goes on: nothing is called and the entry stays as it is.
LEMMA StagesKeep ==
    ASSUME IInv, Activate \/ StartScript \/ EndScript \/ FreeMemory
    PROVE  IInv'
<1>1. /\ value' = value /\ orig' = orig /\ modifiable' = modifiable
      /\ origModifiable' = origModifiable /\ modified' = modified /\ listed' = listed
      /\ global' = global /\ calls' = calls /\ nested' = nested /\ refused' = refused
      /\ corrupt' = corrupt
  BY DEF Activate, StartScript, EndScript, FreeMemory, entry, past
<1>2. /\ \/ stage = "between requests" /\ stage' = "activate" /\ admin' = None /\ heap' = heap
         \/ stage = "activate" /\ stage' = "script" /\ admin' = admin /\ heap' = heap
         \/ stage = "script" /\ stage' = "deactivate" /\ admin' = admin /\ heap' = heap
         \/ stage = "free" /\ stage' = "between requests" /\ admin' = None /\ heap' = {}
      /\ stage \in {"activate", "script"} => calls = <<>>
  BY DEF Activate, StartScript, EndScript, FreeMemory, past
<1>3. Types /\ CallsOK /\ WhoCalls /\ AdminLocks /\ (~nested => Single)
  BY DEF IInv
<1>4. calls = <<>> /\ calls' = <<>>
  BY <1>1, <1>2, <1>3 DEF WhoCalls
<1>5. OfCalls = {} /\ Len(calls) = 0
  BY <1>3, <1>4, NoCall
<1>6. CallsOK' /\ OfCalls' = {} /\ Len(calls') = 0
  BY <1>4, NoneLeft
<1>7. Types'
  BY <1>1, <1>2, <1>3 DEF Types, Stages
<1>8. WhoCalls'
  BY <1>4, <1>6 DEF WhoCalls
<1>9. AdminLocks'
  BY <1>1, <1>2, <1>3, <1>6 DEF AdminLocks
<1>10. ASSUME ~nested' PROVE Single'
  <2>1. Single
    BY <1>1, <1>3, <1>10
  <2>2. Reserve'
    BY <1>1, <1>2, <2>1 DEF Single, Reserve
  <2>3. Memory'
    <3>1. ~corrupt /\ value \in heap \cup {Startup}
      BY <2>1 DEF Single, Memory
    <3>2. {calls[i].new : i \in OfCalls} = {} /\ {calls'[i].new : i \in OfCalls'} = {}
      BY <1>5, <1>6
    <3>3. stage' \in {"activate", "script"} => heap' = {value} \ {Startup}
      <4>1. CASE stage = "between requests"
        BY <1>2, <2>1, <4>1 DEF Single, Reserve, Memory
      <4>2. CASE stage = "activate"
        BY <1>2, <2>1, <3>2, <4>2 DEF Single, Memory
      <4> QED
        BY <1>2, <4>1, <4>2
    <3>4. stage' = "between requests" => heap' = {} /\ value = Startup
      BY <1>2, <2>1 DEF Single, Reserve
    <3>5. value' \in heap' \cup {Startup}
      BY <1>1, <1>2, <3>1, <3>4
    <3> QED
      BY <1>1, <3>1, <3>2, <3>3, <3>4, <3>5 DEF Memory
  <2>4. OneCall'
    BY <1>6 DEF OneCall
  <2>5. Follows'
    BY <1>1, <1>2, <1>4, <1>6, <2>1 DEF Single, Follows
  <2> QED
    BY <2>2, <2>3, <2>4, <2>5 DEF Single
<1> QED
  BY <1>6, <1>7, <1>8, <1>9, <1>10 DEF IInv

\* zend_ini_deactivate() gives back the value of startup.
LEMMA DeactivateKeeps == ASSUME IInv, Deactivate PROVE IInv'
<1>1. /\ stage = "deactivate" /\ stage' = "free" /\ listed' = FALSE
      /\ calls' = calls /\ admin' = admin /\ nested' = nested
      /\ refused' = (refused \/ (listed /\ modified /\ global' # orig))
  BY DEF Deactivate
<1>2. Types /\ CallsOK /\ WhoCalls /\ AdminLocks /\ (~nested => Single)
  BY DEF IInv
<1>3. calls = <<>> /\ calls' = <<>>
  BY <1>1, <1>2 DEF WhoCalls
<1>4. CallsOK' /\ OfCalls' = {} /\ Len(calls') = 0
  BY <1>3, NoneLeft
<1>5. WhoCalls' /\ AdminLocks'
  BY <1>1, <1>3, <1>4 DEF WhoCalls, AdminLocks
<1>6. CASE listed /\ modified
  <2>1. /\ IF value # orig
           THEN heap' = heap \ {value} /\ corrupt' = (corrupt \/ value \notin heap)
           ELSE heap' = heap /\ corrupt' = corrupt
        /\ value' = orig /\ modifiable' = origModifiable /\ modified' = FALSE
        /\ orig' = None /\ origModifiable' = {} /\ global' \in {global, orig}
    BY <1>6 DEF Deactivate, GiveBack, Efree, NoFree
  <2>2. Types'
    <3>1. global' \in Pointers \cup {None} /\ refused' \in BOOLEAN
      BY <1>1, <1>2, <2>1 DEF Types
    <3>2. heap' \in SUBSET Duplicates /\ corrupt' \in BOOLEAN
      BY <1>2, <2>1 DEF Types
    <3> QED
      BY <1>1, <1>2, <2>1, <3>1, <3>2 DEF Types, Stages
  <2>3. ASSUME ~nested' PROVE Single'
    <3>1. Single
      BY <1>1, <1>2, <2>3
    <3>2. orig = Startup /\ origModifiable = Everybody
      BY <1>6, <3>1 DEF Single, Reserve
    <3>3. Reserve'
      BY <1>1, <2>1, <3>2 DEF Reserve
    <3>4. Memory'
      <4>1. ~corrupt /\ value \in heap \cup {Startup}
        BY <3>1 DEF Single, Memory
      <4>2. ~corrupt' /\ value' = Startup
        BY <2>1, <3>2, <4>1
      <4> QED
        BY <1>1, <4>2 DEF Memory
    <3>5. OneCall'
      BY <1>4 DEF OneCall
    <3>6. Follows'
      <4>1. ~refused' => global' = value'
        BY <1>1, <1>6, <2>1
      <4> QED
        BY <1>4, <4>1 DEF Follows
    <3> QED
      BY <3>3, <3>4, <3>5, <3>6 DEF Single
  <2> QED
    BY <1>4, <1>5, <2>2, <2>3 DEF IInv
<1>7. CASE ~(listed /\ modified)
  <2>1. /\ value' = value /\ orig' = orig /\ modifiable' = modifiable
        /\ origModifiable' = origModifiable /\ modified' = modified /\ heap' = heap
        /\ global' = global /\ corrupt' = corrupt
    BY <1>7 DEF Deactivate
  <2>2. refused' = refused
    BY <1>1, <1>2, <1>7 DEF Types
  <2>3. Types'
    BY <1>1, <1>2, <2>1, <2>2 DEF Types, Stages
  <2>4. ASSUME ~nested' PROVE Single'
    <3>1. Single /\ ~modified
      <4>1. Single
        BY <1>1, <1>2, <2>4
      <4> QED
        BY <1>7, <4>1 DEF Single, Reserve
    <3>2. Reserve'
      <4>1. value = Startup /\ orig = None /\ modifiable = Everybody
        BY <3>1 DEF Single, Reserve
      <4>2. modified = FALSE
        BY <1>2, <3>1 DEF Types
      <4>3. /\ listed' = FALSE /\ modified' = FALSE
            /\ value' = Startup /\ orig' = None /\ modifiable' = Everybody
        BY ONLY <1>1, <2>1, <4>1, <4>2
      <4> QED
        BY ONLY <4>3 DEF Reserve
    <3>3. Memory'
      BY <1>1, <2>1, <3>1 DEF Single, Memory
    <3>4. OneCall'
      BY <1>4 DEF OneCall
    <3>5. Follows'
      BY <1>1, <1>3, <1>4, <2>1, <2>2, <3>1 DEF Single, Follows
    <3> QED
      BY <3>2, <3>3, <3>4, <3>5 DEF Single
  <2> QED
    BY <1>4, <1>5, <2>3, <2>4 DEF IInv
<1> QED
  BY <1>6, <1>7

-----------------------------------------------------------------------------
(* The invariant *)

LEMMA InitIInv == ASSUME Init PROVE IInv
<1>1. /\ value = Startup /\ orig = None /\ modifiable = Everybody /\ origModifiable = {}
      /\ modified = FALSE /\ listed = FALSE /\ heap = {} /\ global = Startup /\ calls = <<>>
      /\ stage = "between requests" /\ admin = None
      /\ nested = FALSE /\ refused = FALSE /\ corrupt = FALSE
  BY DEF Init
<1>2. calls \in Seq(Frames) /\ Len(calls) = 0 /\ OfCalls = {}
  <2>1. <<>> \in Seq(Frames) /\ Len(<<>>) = 0
    BY EmptySeq
  <2>2. calls \in Seq(Frames) /\ Len(calls) = 0
    BY <1>1, <2>1
  <2> QED
    BY <2>2 DEF OfCalls
<1>3. Types
  <2>1. Startup \in Pointers
    BY ONLY DEF Pointers
  <2>2. Everybody \in SUBSET Everybody /\ {} \in SUBSET Everybody /\ {} \in SUBSET Duplicates
    OBVIOUS
  <2>3. stage \in Stages
    BY <1>1 DEF Stages
  <2> QED
    BY ONLY <1>1, <2>1, <2>2, <2>3 DEF Types
<1>4. CallsOK /\ WhoCalls /\ AdminLocks
  <2>1. CallsOK
    BY <1>2, MaxCallsPos DEF CallsOK
  <2>2. WhoCalls
    BY <1>1, <1>2 DEF WhoCalls
  <2>3. AdminLocks
    BY ONLY <1>1, <1>2 DEF AdminLocks
  <2> QED
    BY <2>1, <2>2, <2>3
<1>5. Reserve
  BY ONLY <1>1 DEF Reserve
<1>6. Memory
  <2>1. stage \notin {"activate", "script"}
    BY <1>1
  <2> QED
    BY ONLY <1>1, <2>1 DEF Memory
<1>7. OneCall
  BY <1>2 DEF OneCall
<1>8. Follows
  <2>1. global = value
    BY <1>1
  <2> QED
    BY ONLY <1>2, <2>1 DEF Follows
<1> QED
  BY <1>3, <1>4, <1>5, <1>6, <1>7, <1>8 DEF IInv, Single

LEMMA StutterKeeps == ASSUME IInv, UNCHANGED directive PROVE IInv'
<1>1. /\ value' = value /\ orig' = orig /\ modifiable' = modifiable
      /\ origModifiable' = origModifiable /\ modified' = modified /\ listed' = listed
      /\ heap' = heap /\ global' = global /\ calls' = calls /\ stage' = stage
      /\ admin' = admin /\ nested' = nested /\ refused' = refused /\ corrupt' = corrupt
  BY DEF directive, entry, past
<1>2. OfCalls' = OfCalls
  BY <1>1 DEF OfCalls
<1>3. Types' /\ CallsOK' /\ WhoCalls' /\ AdminLocks'
  BY <1>1, <1>2 DEF IInv, Types, CallsOK, WhoCalls, AdminLocks
<1>4. (~nested => Single)'
  BY <1>1, <1>2 DEF IInv, Single, Reserve, Memory, OneCall, Follows
<1> QED
  BY <1>3, <1>4 DEF IInv

THEOREM IInvHolds == Spec => []IInv
<1>1. IInv /\ Next => IInv'
  BY AltersKeep, AlterAcceptedKeeps, AlterRefusedKeeps, BailoutKeeps, IniRestoreKeeps,
     RestoredKeeps, StagesKeep, DeactivateKeeps DEF Next
<1>2. IInv /\ [Next]_directive => IInv'
  BY <1>1, StutterKeeps
<1> QED
  BY InitIInv, <1>2, PTL DEF Spec

-----------------------------------------------------------------------------
(* What it implies *)

\* The type invariant of IniEntries.
THEOREM TypeOKHolds == Spec => []TypeOK
<1>1. IInv => TypeOK
  BY DEF IInv, Types, CallsOK, TypeOK
<1> QED
  BY <1>1, IInvHolds, PTL

\* Each request gives back the value of startup, the value of php_admin_value holds
\* as long as the request, and of the duplicates none is leaked, freed twice or
\* used when it is freed.
THEOREM DirectivesSafeHolds == Spec => []DirectivesSafe
<1>1. ASSUME IInv PROVE DirectivesSafe
  <2>1. CallsOK /\ AdminLocks /\ (~nested => Single)
    BY <1>1 DEF IInv
  <2>2. DOMAIN calls = OfCalls
    BY <2>1, LenProperties DEF CallsOK, OfCalls
  <2>3. LeavesNothing
    BY <2>1 DEF LeavesNothing, Single, Reserve
  <2>4. AdminHolds
    BY <2>1 DEF AdminHolds, AdminLocks
  <2>5. ValueAlive
    BY <2>1 DEF ValueAlive, Single, Memory
  <2>6. NoLeak
    BY <2>1, <2>2 DEF NoLeak, Single, Memory
  <2>7. GlobalFollows
    BY <2>1 DEF GlobalFollows, Single, Follows
  <2> QED
    BY <2>3, <2>4, <2>5, <2>6, <2>7 DEF DirectivesSafe
<1> QED
  BY <1>1, IInvHolds, PTL
=============================================================================
