----------------------------- MODULE HashStorage -----------------------------
(***************************************************************************)
(* A program that uses one hash, and the functions of hv.c it calls.       *)
(*                                                                         *)
(* Emptying a hash frees its values one at a time, and freeing a value may *)
(* run a destructor, which may do anything to the same hash before the     *)
(* function goes on, emptying it again included.  calls is the stack of    *)
(* the functions that wait for a destructor.                               *)
(***************************************************************************)
EXTENDS HashTable

CONSTANTS Reservations,  \* the n for which the program assigns keys %h = n
          MaxCalls,      \* bound on the functions waiting for a destructor
          MaxPlaceholders, \* bound on HvPLACEHOLDERS, which may run ahead
          Restricts,     \* whether the program restricts the hash
          LosesDeletion  \* whether emptying a restricted hash may end while the
                         \* deletion of its current key is still to be done

ASSUME StorageAssumption ==
    /\ Reservations \subseteq Nat \ {0}
    /\ MaxCalls \in Nat
    /\ MaxPlaceholders \in Nat
    /\ Restricts \in BOOLEAN
    /\ LosesDeletion \in BOOLEAN

VARIABLES
    hv,      \* the storage
    locked,  \* SvREADONLY: the hash is restricted
    calls,   \* hv_clear and hv_undef calls, each waiting for a destructor
    defined  \* no function has read the storage as what it is not

vars == <<hv, locked, calls, defined>>

Call == [op : {"clear", "undef", "restrict"}, at : Nat]

TypeOK ==
    /\ hv \in Table
    /\ locked \in BOOLEAN
    /\ calls \in Seq(Call)
    /\ defined \in BOOLEAN

Init ==
    /\ hv = Empty
    /\ locked = FALSE
    /\ calls = <<>>
    /\ defined = TRUE

-----------------------------------------------------------------------------
\* What all the actions but one have in common: they do what they are meant to.
Proper == defined /\ UNCHANGED defined

\* A store to a key that is not there.  It may be the store of a destructor.
Store(k) ==
    /\ Proper
    /\ Found(hv, k) = {}
    /\ ~locked
    /\ hv' = Added(hv, k)
    /\ UNCHANGED <<locked, calls>>

\* Mutation: the number of placeholders is left alone.
Placeholder_Uncounted(h, p, b) == [h EXCEPT !.entries[p].placeholder = b]

Placeholder(h, p, b) ==
    [h EXCEPT !.entries = [@ EXCEPT ![p] = [key |-> h.entries[p].key, placeholder |-> b]],
              !.placeholders = IF b THEN @ + 1 ELSE @ - 1]

\* A store to a key that a restricted hash keeps.
StoreLegal(k) ==
    \E p \in Found(hv, k) :
        /\ Proper
        /\ hv.entries[p].placeholder
        /\ hv' = Placeholder(hv, p, FALSE)
        /\ UNCHANGED <<locked, calls>>

\* The value is mortal: its destructor runs when the delete is over.
Delete(k) ==
    \E p \in Found(hv, k) :
        /\ Proper
        /\ ~hv.entries[p].placeholder
        /\ locked => hv.placeholders < MaxPlaceholders
        /\ hv' = IF locked THEN Placeholder(hv, p, TRUE) ELSE Removed(hv, {p})
        /\ UNCHANGED <<locked, calls>>

Each ==
    /\ Proper
    /\ hv' = Iterated(hv)
    /\ UNCHANGED <<locked, calls>>

\* keys %h, values %h
Reset ==
    /\ Proper
    /\ hv' = IteratorReset(hv)
    /\ UNCHANGED <<locked, calls>>

\* keys %h = n
Reserve(n) ==
    /\ Proper
    /\ hv' = Enlarged(IteratorReset(hv), n)
    /\ UNCHANGED <<locked, calls>>

Lock(b) ==
    /\ Proper
    /\ Restricts
    /\ locked' = b
    /\ UNCHANGED <<hv, calls>>

\* A count that is too high is put right in a dense array and nowhere else.
ClearPlaceholders ==
    LET gone == {p \in Live(hv) : hv.entries[p].placeholder}
    IN /\ Proper
       /\ hv.placeholders > 0
       /\ hv' = [(IF gone = {} THEN hv ELSE Removed(hv, gone)) EXCEPT
                    !.placeholders = IF hv.form = "indexed"
                                     THEN @ - Cardinality(gone) ELSE 0]
       /\ UNCHANGED <<locked, calls>>

-----------------------------------------------------------------------------
\* hv_free_entries() on behalf of op, up to the next destructor or to the end.
\* hv_clear() keeps the storage, hv_undef() does not.
Emptied(op, h) ==
    IF op = "clear"
    THEN [h EXCEPT !.placeholders = 0, !.eiter = Null]
    ELSE [h EXCEPT !.form = "none", !.entries = <<>>, !.cap = 0,
                   !.buckets = 0, !.indexed = {}, !.placeholders = 0]

FreeFrom(op, at, below) ==
    LET r == Released(hv)
        p == NextFreed(r, at)
    IN IF r.keys = 0
       THEN /\ hv' = Emptied(op, r)
            /\ calls' = below
       ELSE /\ hv' = Removed(r, {p})
            /\ calls' = Append(below, [op |-> op, at |-> IndexAfter(r, p)])

\* hv_clear() of a restricted hash: every key becomes a placeholder.  There is
\* a loop for a dense array, which ends when the array is not dense any more,
\* and one for an indexed array, which the first leads to.
RestrictLoop(h) == IF h.form = "indexed" THEN 1 ELSE 0

RestrictFrom(below) ==
    IF WithValue(hv) = {}
    THEN /\ hv.lazydel => LosesDeletion
         /\ hv' = [hv EXCEPT !.eiter = Null]
         /\ calls' = below
    ELSE /\ hv' = Placeholder(hv, First(WithValue(hv)), TRUE)
         /\ calls' = Append(below, [op |-> "restrict", at |-> RestrictLoop(hv)])

Clear ==
    /\ Proper
    /\ hv.keys = 0 \/ Len(calls) < MaxCalls
    /\ ~locked \/ hv.keys = 0
    /\ FreeFrom("clear", 0, calls)
    /\ UNCHANGED locked

ClearRestricted ==
    /\ Proper
    /\ WithValue(hv) = {} \/ Len(calls) < MaxCalls
    /\ locked
    /\ hv.keys > 0
    /\ hv.placeholders < MaxPlaceholders
    /\ RestrictFrom(calls)
    /\ UNCHANGED locked

Undef ==
    /\ Proper
    /\ hv.keys = 0 \/ Len(calls) < MaxCalls
    /\ FreeFrom("undef", 0, calls)
    /\ UNCHANGED locked

\* The loop for an indexed array does not look whether it still is one: a
\* destructor may have lifted the restriction, undefined the hash and stored
\* keys in a new, dense array.
Astray ==
    /\ calls # <<>>
    /\ calls[Len(calls)].op = "restrict"
    /\ calls[Len(calls)].at = 1
    /\ hv.form = "linear"

\* The destructor returns, and the function that waited for it goes on.
Return ==
    /\ Proper
    /\ calls # <<>>
    /\ ~Astray
    /\ LET top == calls[Len(calls)]
           below == SubSeq(calls, 1, Len(calls) - 1)
       IN IF top.op = "restrict" THEN RestrictFrom(below)
          ELSE FreeFrom(top.op, top.at, below)
    /\ UNCHANGED locked

\* The dense array is read as a struct hv_oa: its number of entries and where
\* they are come from an entry's pointers, and nothing is known from there on.
Misread ==
    /\ defined
    /\ Astray
    /\ defined' = FALSE
    /\ UNCHANGED <<hv, locked, calls>>

Next ==
    \/ \E k \in Key : Store(k) \/ StoreLegal(k) \/ Delete(k)
    \/ Each
    \/ Reset
    \/ \E n \in Reservations : Reserve(n)
    \/ \E b \in BOOLEAN : Lock(b)
    \/ ClearPlaceholders
    \/ Clear
    \/ ClearRestricted
    \/ Undef
    \/ Return
    \/ Misread

Spec == Init /\ [][Next]_vars
=============================================================================
