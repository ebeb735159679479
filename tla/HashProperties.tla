---------------------------- MODULE HashProperties ----------------------------
(***************************************************************************)
(* What has to be true of the storage of a hash for a program never to see *)
(* that there are three forms of it, holes, thresholds and a deferred      *)
(* deletion.  Behaviours end at a Misread: the properties speak of what    *)
(* comes before.                                                           *)
(***************************************************************************)
EXTENDS HashStorage

\* The index leads to every entry that was not deleted and to no other, however
\* the table was grown, packed or shrunk; a dense array has no holes; and no
\* key is there twice.  (S_oa_index_insert, S_oa_index_delete, S_oa_rebuild.)
IndexMatchesEntries ==
    /\ Searched(hv) = Live(hv)
    /\ \A p, q \in Live(hv) : hv.entries[p].key = hv.entries[q].key => p = q
    /\ Used(hv) <= hv.cap

\* HvTOTALKEYS is the number of entries at any moment, while destructors run
\* included.  HvPLACEHOLDERS may lag behind while the hash is being emptied,
\* and is exact again afterwards.  (hv_clear, S_clear_placeholders.)
CountsAgree ==
    LET empty == {p \in Live(hv) : hv.entries[p].placeholder}
    IN /\ hv.keys = Cardinality(Live(hv))
       /\ hv.placeholders >= Cardinality(empty)
       /\ calls = <<>> => hv.placeholders = Cardinality(empty)

\* xhv_eiter never names an entry that was freed or has moved, and the flag
\* that says its entry is deleted is on only for an entry that is: otherwise
\* the next each() frees a key of the hash.  (HvLAZYDEL, hv.h:753.)
IteratorAnchored ==
    /\ hv.eiter > 0 =>
        /\ hv.eiter \in DOMAIN hv.entries
        /\ hv.entries[hv.eiter] # Hole
        /\ hv.eiter = hv.riter
    /\ hv.lazydel => hv.eiter # Null
    /\ hv.lazydel <=> hv.eiter = Retired \/ (hv.eiter > 0 /\ hv.eiter \notin Searched(hv))

-----------------------------------------------------------------------------
\* The hash as an ordered map with an iterator.
Order(h) == [r \in 1 .. Cardinality(Live(h)) |-> Packed(h.entries, Live(h))[r].key]

Absent(h) == {h.entries[p].key : p \in Live(h) \ WithValue(h)}

Iterating(h) == h.riter > 0 \/ h.active

Stale(h) == Iterating(h) /\ h.inserted

Passed(h) == IF Stale(h) THEN 0 ELSE Rank(Live(h), h.riter)

Map == INSTANCE OrderedMap WITH
    order <- Order(hv),
    absent <- Absent(hv),
    cur <- Passed(hv),
    iterating <- Iterating(hv),
    stale <- Stale(hv)

\* Every operation does to the ordered map what its name says: no entry is
\* lost, repeated or reordered by a change of form, by packing or by shrinking,
\* and each() visits each remaining key once, in order.
ImplementsOrderedMap == Map!Spec

-----------------------------------------------------------------------------
\* sv.h:527 says of SVphv_LAZYDEL: "entry in xhv_eiter must be deleted".  While
\* the flag is on, the entry the iterator stands on is one that was deleted, and
\* never an entry a store put there.
LazyEntryIsDeleted ==
    hv.lazydel /\ hv.eiter > 0 => hv.eiter \notin Searched(hv)

\* hv.c:3330 says that hv_undef() leaves non-pointer values "correct for an empty
\* hash".  When it has freed the last entry, no iteration is open.
UndefEndsIteration ==
    [][\A i \in DOMAIN calls :
          calls[i].op = "undef" /\ Len(calls') < i => hv'.riter = 0 /\ ~hv'.active]_vars
=============================================================================
