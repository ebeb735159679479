------------------------------ MODULE StackInfo ------------------------------
(***************************************************************************)
(* The doubly linked list of stack-info blocks (PERL_SI) and the four      *)
(* pieces of code that relink it: push_stackinfo and pop_stackinfo         *)
(* (inline.h), and the detach/attach pair with which a suspended generator *)
(* takes its own block out of the list (run.c).                            *)
(*                                                                         *)
(* A popped block is never freed: it stays behind PL_curstackinfo->si_next *)
(* and the next push reuses it.  That cache is what makes the surgery of   *)
(* detach and attach delicate.                                             *)
(***************************************************************************)
EXTENDS Naturals

CONSTANT MaxSI      \* how many blocks new_stackinfo_flags may allocate

ASSUME MaxSIAssumption == MaxSI \in Nat \ {0}

SI == 1 .. MaxSI
NULL == 0
Main == 1           \* the block of PL_mainstack

\* The list: the si_prev and si_next fields of every block, PL_curstackinfo,
\* and the number of blocks allocated so far (blocks are 1, 2, ...).
Chain == [prev : [SI -> SI \cup {NULL}],
          next : [SI -> SI \cup {NULL}],
          cur  : SI,
          used : SI]

InitChain == [prev |-> [s \in SI |-> NULL],
              next |-> [s \in SI |-> NULL],
              cur  |-> Main,
              used |-> 1]

\* The bound on allocation: a push either finds a cached block or a fresh one.
CanPush(c) == c.next[c.cur] # NULL \/ c.used < MaxSI

\* The block push_stackinfo switches to.
PushTarget(c) == IF c.next[c.cur] # NULL THEN c.next[c.cur] ELSE c.used + 1

Pushed(c) ==
    LET n == PushTarget(c) IN
    IF c.next[c.cur] # NULL
    THEN [c EXCEPT !.cur = n]
    ELSE [prev |-> [c.prev EXCEPT ![n] = c.cur],
          next |-> [c.next EXCEPT ![c.cur] = n],
          cur  |-> n,
          used |-> n]

\* PL_curstackinfo = s.
SwitchedTo(c, s) == [c EXCEPT !.cur = s]

Popped(c) == SwitchedTo(c, c.prev[c.cur])

\* Mutation: only the block itself is cut loose, and its si_next keeps pointing
\* back at it.
Detached_OneWay(c, s) ==
    [c EXCEPT !.prev = [t \in SI |-> IF t = s THEN NULL ELSE c.prev[t]],
              !.next = [t \in SI |-> IF t = s THEN NULL
                                     ELSE IF t = c.prev[s] THEN c.next[s]
                                     ELSE c.next[t]]]

\* Mutation: the block of a suspended generator stays in the list.
Detached_Skipped(c, s) == c

\* Take block s out of the list: its neighbours are joined, it points nowhere.
Detached(c, s) ==
    LET p == c.prev[s]
        n == c.next[s]
    IN  [prev |-> [t \in SI |-> IF t = s THEN NULL
                                ELSE IF t = n THEN p ELSE c.prev[t]],
         next |-> [t \in SI |-> IF t = s THEN NULL
                                ELSE IF t = p THEN n ELSE c.next[t]],
         cur  |-> c.cur,
         used |-> c.used]

\* Mutation: the block the current one had cached is forgotten.
Attached_DropsCache(c, s) ==
    [c EXCEPT !.prev = [c.prev EXCEPT ![s] = c.cur],
              !.next = [c.next EXCEPT ![s] = NULL, ![c.cur] = s]]

\* Mutation: si_prev of the block is left as detaching it set it.
Attached_NoPrev(c, s) ==
    [c EXCEPT !.next = [c.next EXCEPT ![s] = c.next[c.cur], ![c.cur] = s]]

\* Put block s back, right after the current one and before whatever block
\* the current one had cached.
Attached(c, s) ==
    LET p == c.cur
        n == c.next[p]
    IN  [prev |-> [t \in SI |-> IF t = s THEN p
                                ELSE IF t = n THEN s ELSE c.prev[t]],
         next |-> [t \in SI |-> IF t = s THEN n
                                ELSE IF t = p THEN s ELSE c.next[t]],
         cur  |-> c.cur,
         used |-> c.used]

-----------------------------------------------------------------------------
\* What the list has to be, whoever relinked it last.

\* next and prev are each other's inverse, and the main block is first.
DoublyLinked(c) ==
    /\ \A s, t \in SI : c.next[s] = t <=> c.prev[t] = s
    /\ c.prev[Main] = NULL

\* Blocks not yet allocated are linked to nothing.
FreshUnlinked(c) ==
    \A s \in SI : s > c.used => c.prev[s] = NULL /\ c.next[s] = NULL

\* Block s is outside the list.
Isolated(c, s) == c.prev[s] = NULL /\ c.next[s] = NULL
=============================================================================
