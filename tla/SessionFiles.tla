---------------------------- MODULE SessionFiles ----------------------------
(***************************************************************************)
(* Sessions in files (ext/session/session.c, mod_files.c).  A request that *)
(* starts a session opens the file of its id and locks it until it has     *)
(* written it back, so that the requests of one session take turns.  Files *)
(* are removed by session_destroy() and session_regenerate_id(), and by a  *)
(* collector that runs in some requests and takes no lock.                 *)
(*                                                                         *)
(* The kernel (external) locks inodes, not names, and frees the lock of a  *)
(* process that dies.  The content of a file is a sequence of bytes, each  *)
(* named after the request that has written it.                            *)
(***************************************************************************)
EXTENDS SessionBounds, Sequences, FiniteSets

NoId == "no id"
NoFile == 0

VARIABLES
    dir,        \* the file of each name in the directory
    content,    \* the bytes of each file
    locked,     \* the requests that hold the lock of each file
    inodes,     \* how many files have been created
    req,        \* the session of each request
    starts,     \* how many sessions have been started
    meant,      \* history: what the last write to each file was to leave in it
    cut,        \* history: files whose writer has died before it had written
    misled      \* history: files last written by a request that had not the size of
                \* the data it wrote over

vars == <<dir, content, locked, inodes, req, starts, meant, cut, misled>>

\* PS(id), and what mod_files.c keeps: fd, lastkey and st_size.  `seen' is the
\* data the request has read, `data' what it writes, `n' its place in `starts',
\* `size_of' the file st_size is the size of, as long as that file stays locked.
NoSession == [at |-> "out", id |-> NoId, fd |-> NoFile, lastkey |-> NoId, st_size |-> 0,
              seen |-> <<>>, data |-> <<>>, n |-> 0, size_of |-> NoFile, target |-> NoId]

Init ==
    /\ dir = [k \in Ids |-> NoFile]
    /\ content = [i \in Inodes |-> <<>>]
    /\ locked = [i \in Inodes |-> {}]
    /\ inodes = 0
    /\ req = [r \in Requests |-> NoSession]
    /\ starts = 0
    /\ meant = [i \in Inodes |-> <<>>]
    /\ cut = {}
    /\ misled = {}

files == <<dir, content, inodes>>
past  == <<meant, cut, misled>>

At(r, at) == req[r].at = at

\* The locks once r has closed its file.
Released(r) == [i \in Inodes |-> locked[i] \ {r}]

\* open(O_CREAT) of the file of k; the caller waits for the lock next.
Open(r, k, session) ==
    /\ inodes' = IF dir[k] = NoFile THEN inodes + 1 ELSE inodes
    /\ dir' = IF dir[k] = NoFile THEN [dir EXCEPT ![k] = inodes + 1] ELSE dir
    /\ req' = [req EXCEPT ![r] = [session EXCEPT !.fd = dir'[k], !.lastkey = k]]

-----------------------------------------------------------------------------
(* session_start() *)

\* A request comes with an id (or makes one): s_open, s_read up to open().
Start(r, k) ==
    /\ At(r, "out")
    /\ starts < MaxStarts
    /\ starts' = starts + 1
    /\ Open(r, k, [NoSession EXCEPT !.at = "lock, read", !.id = k, !.n = starts + 1])
    /\ UNCHANGED <<content, locked, past>>

\* Mutant: shared locks.
Lock_Shared(r) ==
    /\ req[r].at \in {"lock, read", "lock, write"}
    /\ req' = [req EXCEPT ![r].at = IF @ = "lock, read" THEN "read" ELSE "write"]
    /\ UNCHANGED <<files, locked, starts, past>>

\* flock(LOCK_EX)
Lock(r) ==
    /\ req[r].at \in {"lock, read", "lock, write"}
    /\ locked[req[r].fd] = {}
    /\ locked' = [locked EXCEPT ![req[r].fd] = {r}]
    /\ req' = [req EXCEPT ![r].at = IF @ = "lock, read" THEN "read" ELSE "write"]
    /\ UNCHANGED <<files, starts, past>>

\* Mutant: the size is not kept.
Read_ForgetsSize(r) ==
    /\ At(r, "read")
    /\ \E at \in {"script", "gc"} : req' = [req EXCEPT ![r].at = at,
            ![r].size_of = req[r].fd, ![r].seen = content[req[r].fd]]
    /\ UNCHANGED <<files, locked, starts, past>>

\* fstat() and pread(); then session_start() may run the collector.
Read(r) ==
    /\ At(r, "read")
    /\ \E at \in {"script", "gc"} : req' = [req EXCEPT ![r].at = at,
            ![r].st_size = Len(content[req[r].fd]), ![r].size_of = req[r].fd,
            ![r].seen = content[req[r].fd]]
    /\ UNCHANGED <<files, locked, starts, past>>

\* ps_files_cleanup_dir(): stat() says that a file has not been written for
\* gc_maxlifetime seconds, which may be true of any.
GcStat(r, k) ==
    /\ At(r, "gc")
    /\ dir[k] # NoFile
    /\ req' = [req EXCEPT ![r].at = "gc unlink", ![r].target = k]
    /\ UNCHANGED <<files, locked, starts, past>>

GcUnlink(r) ==
    /\ At(r, "gc unlink")
    /\ dir' = [dir EXCEPT ![req[r].target] = NoFile]
    /\ req' = [req EXCEPT ![r].at = "gc", ![r].target = NoId]
    /\ UNCHANGED <<content, inodes, locked, starts, past>>

GcEnd(r) ==
    /\ At(r, "gc")
    /\ req' = [req EXCEPT ![r].at = "script"]
    /\ UNCHANGED <<files, locked, starts, past>>

-----------------------------------------------------------------------------
(* The script *)

\* session_id(k) replaces the id of a session that is active, too.
SessionId(r, k) ==
    /\ At(r, "script")
    /\ req' = [req EXCEPT ![r].id = k]
    /\ UNCHANGED <<files, locked, starts, past>>

\* Nobody has the id that session_regenerate_id() makes.
Fresh(k) == dir[k] = NoFile /\ \A r \in Requests : k \notin {req[r].id, req[r].lastkey}

Regenerate(r, k) ==
    /\ At(r, "script")
    /\ Fresh(k)
    /\ req' = [req EXCEPT ![r].id = k]
    /\ UNCHANGED <<files, locked, starts, past>>

\* s_destroy: ps_files_close(), then unlink() of the file of PS(id), if the
\* request has a file open.
CloseToDestroy(r, next) ==
    /\ At(r, "script")
    /\ locked' = Released(r)
    /\ req' = [req EXCEPT ![r].at = IF req[r].fd # NoFile THEN "unlink" ELSE "unlinked",
                          ![r].target = next, ![r].fd = NoFile, ![r].size_of = NoFile]
    /\ UNCHANGED <<files, starts, past>>

\* session_destroy(), session_regenerate_id(TRUE)
Destroy(r) == CloseToDestroy(r, NoId)
RegenerateAndDelete(r, k) == Fresh(k) /\ CloseToDestroy(r, k)

Unlink(r) ==
    /\ At(r, "unlink")
    /\ dir' = [dir EXCEPT ![req[r].id] = NoFile]
    /\ req' = [req EXCEPT ![r].at = "unlinked"]
    /\ UNCHANGED <<content, inodes, locked, starts, past>>

\* The session is over or has its new id.
Unlinked(r) ==
    /\ At(r, "unlinked")
    /\ req' = [req EXCEPT ![r] =
                  IF req[r].target = NoId THEN NoSession
                  ELSE [@ EXCEPT !.at = "script", !.id = req[r].target, !.target = NoId]]
    /\ UNCHANGED <<files, locked, starts, past>>

-----------------------------------------------------------------------------
(* session_write_close() and the end of the request *)

\* Mutant: the new file is opened before the old one is closed.
Flush_OpensFirst(r, size) ==
    LET data == [i \in 1 .. size |-> req[r].n]
        s    == [req[r] EXCEPT !.data = data]
    IN
    /\ At(r, "script")
    /\ IF s.fd = NoFile \/ s.lastkey # s.id
       THEN /\ Open(r, s.id, [s EXCEPT !.at = "lock, write"])
            /\ UNCHANGED locked
       ELSE /\ req' = [req EXCEPT ![r] = [s EXCEPT !.at = "write"]]
            /\ UNCHANGED <<dir, inodes, locked>>
    /\ UNCHANGED <<content, starts, past>>

\* s_write: ps_files_open() closes a file of another id and opens this one's.
Flush(r, size) ==
    LET data == [i \in 1 .. size |-> req[r].n]
        s    == [req[r] EXCEPT !.data = data]
    IN
    /\ At(r, "script")
    /\ IF s.fd = NoFile \/ s.lastkey # s.id
       THEN /\ Open(r, s.id, [s EXCEPT !.at = "lock, write", !.size_of = NoFile])
            /\ locked' = Released(r)
       ELSE /\ req' = [req EXCEPT ![r] = [s EXCEPT !.at = "write"]]
            /\ UNCHANGED <<dir, inodes, locked>>
    /\ UNCHANGED <<content, starts, past>>

\* ftruncate() if the new data is smaller than what has been read.
Truncate(r) ==
    /\ At(r, "write")
    /\ content' = IF Len(req[r].data) < req[r].st_size
                  THEN [content EXCEPT ![req[r].fd] = <<>>] ELSE content
    /\ req' = [req EXCEPT ![r].at = "pwrite"]
    /\ UNCHANGED <<dir, inodes, locked, starts, past>>

\* pwrite() at the start of the file, and s_close.
Write(r) ==
    LET s == req[r]  old == content[s.fd] IN
    /\ At(r, "pwrite")
    /\ content' = [content EXCEPT ![s.fd] = s.data \o SubSeq(old, Len(s.data) + 1, Len(old))]
    /\ meant' = [meant EXCEPT ![s.fd] = s.data]
    /\ cut' = cut \ {s.fd}
    /\ misled' = IF s.fd # s.size_of /\ old # <<>> THEN misled \cup {s.fd} ELSE misled \ {s.fd}
    /\ locked' = Released(r)
    /\ req' = [req EXCEPT ![r] = NoSession]
    /\ UNCHANGED <<dir, inodes, starts>>

\* The script has unset its session variables: the file is closed as it is.
Discard(r) ==
    /\ At(r, "script")
    /\ locked' = Released(r)
    /\ req' = [req EXCEPT ![r] = NoSession]
    /\ UNCHANGED <<files, starts, past>>

\* The process dies and the kernel closes its file.
Crash(r) ==
    /\ ~At(r, "out")
    /\ cut' = IF At(r, "pwrite") /\ Len(req[r].data) < req[r].st_size
              THEN cut \cup {req[r].fd} ELSE cut
    /\ locked' = Released(r)
    /\ req' = [req EXCEPT ![r] = NoSession]
    /\ UNCHANGED <<files, starts, meant, misled>>

-----------------------------------------------------------------------------

Collect(r) == GcUnlink(r) \/ GcEnd(r) \/ \E k \in Ids : GcStat(r, k)

\* What a request does without the script's doing.
Goes(r) == Lock(r) \/ Read(r) \/ Collect(r) \/ Unlink(r) \/ Unlinked(r) \/ Truncate(r) \/ Write(r)

Next == \E r \in Requests :
    \/ Goes(r)
    \/ \E k \in Ids : Start(r, k)
    \/ \E k \in Ids : SessionId(r, k)
    \/ \E k \in Ids : Regenerate(r, k)
    \/ \E k \in Ids : RegenerateAndDelete(r, k)
    \/ Destroy(r)
    \/ \E size \in 0 .. MaxSize : Flush(r, size)
    \/ Discard(r)
    \/ Crash(r)

Spec == Init /\ [][Next]_vars

(***************************************************************************)
(* Calls go on, the kernel hands a lock to those that wait in turn, and    *)
(* every script ends.  Nothing else need happen.                           *)
(***************************************************************************)
Fairness == \A r \in Requests :
    /\ WF_vars(Goes(r))
    /\ SF_vars(Lock(r))
    /\ WF_vars(\E size \in 0 .. MaxSize : Flush(r, size))

FairSpec == Spec /\ Fairness

-----------------------------------------------------------------------------
(* Properties *)

Bytes == UNION {[1 .. n -> 1 .. MaxStarts] : n \in 0 .. MaxSize}

TypeOK ==
    /\ dir \in [Ids -> Inodes \cup {NoFile}]
    /\ \A i \in Inodes : content[i] \in Bytes /\ locked[i] \in SUBSET Requests
    /\ inodes \in 0 .. 2 * MaxStarts
    /\ \A r \in Requests :
        /\ req[r].id \in Ids \cup {NoId} /\ req[r].lastkey \in Ids \cup {NoId}
        /\ req[r].fd \in 0 .. inodes /\ req[r].st_size \in 0 .. MaxSize
        /\ req[r].at \in {"read", "write", "pwrite"} => locked[req[r].fd] = {r}

Truncated(i) == \E r \in Requests : At(r, "pwrite") /\ req[r].fd = i

\* A file holds what the last request to write it has written, all of it and
\* nothing else, whoever has removed or replaced it, unless a process has died
\* between ftruncate() and pwrite() or the last writer had not read the file it
\* wrote, or had closed it in between.
FileIsLastWrite == \A i \in Inodes \ (cut \cup misled) :
    content[i] = meant[i] \/ Truncated(i)

\* While a script runs, the file it has open holds what it has read: no other
\* request of the session has written in the meantime.
ReadIsCurrent == \A r \in Requests :
    req[r].at \in {"script", "gc", "gc unlink"} /\ req[r].fd # NoFile =>
        content[req[r].fd] = req[r].seen

\* A request that waits for a session gets it (or dies): requests that change
\* their ids never wait for each other in a circle.  The requests are alike: what
\* one is promised, each is.
LockGranted == LET r == CHOOSE q \in Requests : TRUE IN
    req[r].at \in {"lock, read", "lock, write"} ~> req[r].at \notin {"lock, read", "lock, write"}

\* PS_WRITE_FUNC(files): "truncate file, if the amount of new data is smaller
\* than the existing data set."  So no file keeps the end of older data.
NoOldEnd == \A i \in Inodes \ cut : content[i] = meant[i] \/ Truncated(i)
=============================================================================
