---------------------------- MODULE SessionBounds ----------------------------
(* The instance of SessionFiles: how many requests, ids, bytes and sessions. *)
EXTENDS Integers

CONSTANTS
    Requests,   \* processes that serve one request after the other
    Ids,        \* session ids
    MaxSize,    \* bound: the size of a session's data
    MaxStarts   \* bound: the sessions started

ASSUME MaxSizeNat   == MaxSize \in Nat
ASSUME MaxStartsNat == MaxStarts \in Nat

Inodes == 1 .. 2 * MaxStarts    \* a request opens two files at most
=============================================================================
