# A verification project for xperl

These TLA+ modules model parts of the perl interpreter in this repository: the
parts where control, and not data, is what is hard to get right. TLC checks
small instances, TLAPS proves the most important facts for all of them. Every
definition that models code names its lines under `map` in `PROJECT.json`.

## The system

| Component | State it keeps | Operations | Interacts with | Hard because | Correct when |
|---|---|---|---|---|---|
| Generator runtime (`run.c`, `cop.h`) | one `PERL_GENERATOR` per generator: lifecycle state, saved interpreter context, flags | make, call, yield, finish, fail, free | stack-info list, exception boundaries, `@_`, pads | C control flow by `longjmp`, suspended stacks, nested runops loops | one activation at a time, callers restored exactly, exceptions reach the right boundary, terminal states final |
| Stack-info list (`inline.h`, `run.c`) | `PERL_SI` blocks, `PL_curstackinfo` | push, pop, detach, attach | everything that calls back into Perl | popped blocks stay cached in the list, detached ones leave it | doubly linked, nothing lost, follows the calls |
| Exception boundaries (`cop.h`, `pp_ctl.c`, `perl.c`) | `JMPENV` chain, eval contexts, `PL_restartjmpenv` | eval, die, exit, docatch | generators, sort and other callbacks | pointers to C frames that may have returned | every target is alive and of the right activation |
| Process scheduler (`run.c`) | saved process states, done flags, boundary counts | run, boundary hook | the runops loops | nested loops see the same hook; budgets count op boundaries | fair, bounded, honest about failure |
| Compact ordered hash storage (`hv.c`) | entry array, index, tombstones, iterator | fetch, store, delete, iterate, compact | everything | deletion during iteration, thresholds, destructors that use the hash being emptied | a map, in insertion order, that each remaining key is visited once in |
| threads::shared (`dist/threads-shared/shared.xs`) | recursive locks, condition variables | lock, cond_wait, cond_timedwait, cond_signal | threads | lost wake-ups, lock order, timeouts | mutual exclusion, recursion depth restored |
| Thread::Queue, Thread::Semaphore | shared array, counter | enqueue, dequeue, end, limit; up, down | threads::shared | waiters of several kinds on one condition | no item lost, waiters released at end |
| threads lifecycle (`dist/threads/threads.xs`) | ithread records, reference counts | create, join, detach, kill, exit | interpreter clone | join against detach against end | freed once, after the last use |
| Reader/writer locks (`perl.h`, `locale.c`) | per-thread depth counters, reader count | read lock, write lock, and their ends | locale, environment | recursion, upgrade | readers exclude writers |
| Safe signals (`mg.c`) | `PL_psig_pend`, `PL_sig_pending` | handler, despatch | runops loops | asynchronous increments | none lost, none run twice |
| Weak references (`sv.c`) | reference counts, back-reference lists | weaken, copy, free | destructors | code that runs during destruction | no dangling weak reference |
| Save stack and scopes (`scope.c`) | save stack | save, leave scope | die, local | unwinding that runs code | values restored in reverse order |
| Method cache (`mro_core.c`, `gv.c`) | generation counters, cached GVs | look up, change `@ISA`, assign globs | stashes | stale entries | a cached method is the one a fresh search finds |
| Classes (`class.c`) | sealed classes, field lists | compose, construct, tear down | generators via field initialisers | partial construction | every field initialised once, torn down once |
| PerlIO buffers (`perlio.c`) | buffers, positions | read, unread, write, seek, flush | the operating system | mixed reading and writing | the bytes of the file |

Not modelled and not planned, with the reasons under `components`: the parser and
op-tree builder, the regular-expression engine, scalar and numeric conversion,
Unicode and locale tables, the generated diagnostics and keyword tables, malloc,
pack and the sort algorithms, operating-system wrappers, the CPAN and other
libraries, ports and the build.

## The plan

Modules, in order; each is written as parameters with assumptions, one action per
operation, and no `RECURSIVE` operator.

| | Modules | State |
|---|---|---|
| 1 | `StackInfo`, `Generator`, `GeneratorLifecycle` (abstract) | checked, safety and refinement proved |
| 2 | `Packing`, `OrderedMap` (abstract), `HashTable`, `HashStorage` | checked, safety and refinement proved |
| 3 | `Monitor` (abstract), `SharedLock` | checked, safety and refinement proved |
| 4 | `ThreadQueue`, on the atomicity `SharedLock` gives it | checked, safety proved |
| 5 | `ThreadLifecycle` | checked, safety proved |
| 6 | `ResourceLocks` | checked, safety proved |
| 7 | `SafeSignals` | checked, with a liveness property, safety proved |
| 8 | `WeakMap` (abstract), `WeakReferences` | checked, safety and refinement proved |
| 9 | save stack, method cache, classes, PerlIO buffers | not begun |

The process scheduler, third in the first plan, was dropped when its only caller turned out
to be a test extension (see "Not modelled").

Every safety property, action property and refinement that a passing run checks is also a
theorem; only the three liveness properties are model-checked alone. What is left is breadth:
row 9, in the order of its modules.

## The generator runtime

### Modules

| Module | What it is |
|---|---|
| `StackInfo` | the list of `PERL_SI` blocks and the four pieces of code that relink it |
| `Generator` | the state machine: generators, context stacks, the C stack with its `JMPENV`s, `die_unwind`, `docatch` |
| `GeneratorLifecycle` | the abstract specification: what `perlgenerator.pod` promises |
| `GeneratorProperties` | invariants, action properties, liveness, the refinement mapping |
| `GeneratorInvariant` | the inductive invariant, and what the calls, the contexts and the list add to it |
| `GeneratorProofs` | lemmas about the list and the C stack; what a step does to the calls in progress; the theorems |
| `MCGenerator` | the instance for TLC |

### State

`chain` is the list: `si_prev`, `si_next`, `PL_curstackinfo` and how many blocks are
allocated. `cxs` is the context stack of each block. `cstack` is the C stack, as far
as it matters: a frame for `perl_run`, one per `generator_resume`, per `docatch` and
per C operation that calls back into Perl. A frame records what the C function's
local variables record: the block it switches back to, the hook it displaced, and
(as `env` and `loop`) the nearest boundary and the nearest activation, which are
`PL_top_env` and the innermost runops loop. `hook` is `PL_runops_boundary_data`,
`gvav` is `GvAV(PL_defgv)`, `depth` is `CvDEPTH` of each body, `exc` is the exception
being delivered, with `PL_restartjmpenv`.

### Actions

`Make`, `Start`, `Resume` and `CallRejected` are the calls of a generator. `Yield`,
`YieldDeferred` and `Finish` are what its body can do to it; `EnterCallback`,
`LeaveCallback`, `EnterEval`, `LeaveEval` are what any Perl code can do to the C
stack. `Die` and `Exit` start an exception and `UnwindPop`, `UnwindFound`,
`UnwindMain`, `JumpDocatch`, `JumpResume`, `JumpMain` deliver it, step by step as the
code does. `Drop` and `DestructFree` free a generator. Every action of Perl code is
available to whichever activation is innermost, so all nestings are explored.
`generator_resume` is one C function, but the body runs in its middle: `Start` and
`Resume` are the part before, `SuspendOn`, `Finish` and `JumpResume` the three parts
after.

What is abstracted: values yielded and returned, resume arguments, `$_`, scopes and
`local`; a body makes no ordinary sub calls, since their contexts are popped the way
the body's own is. Calling an exhausted generator changes nothing but its result list
and is left out. `Perl_generator_capture` has no caller. Frames of `callback` stand
for every C operation that pushes a block and sets `CATCH` (sort blocks, field
initialisers, tie and overload calls through `call_sv`).

### What the runs show

| Run | Instance | Question |
|---|---|---|
| `generator_core` | 2 generators, 3 blocks, 4 C frames, 1 eval per block | lifecycle, activations, exceptions, `@_`, liveness of delivery |
| `generator_blocks` | 2 generators, 4 blocks, 5 C frames, no evals, symmetry | the list surgery and suspended continuations |

Bounds. Two generators are enough for one to call the other, to call back, and to
be freed or resumed while the other is suspended; a third adds depth only. Three
blocks hold a generator called from a generator, or a callback inside one; the
fourth lets a detached block meet a cached one. Four C frames hold main, a
resume, a docatch or callback in it, and a second resume; the fifth frame of
`generator_blocks` adds a callback inside the inner generator. `MaxFrames`, `MaxSI`
and `MaxEvals` bound guards of the actions that push, and nothing else.
`CHECK_DEADLOCK FALSE` is there because a program ends: `destruct` with no
generator left, a panic, or the use of a freed record.

Fairness. `FairSpec` has weak fairness of `Deliver` only: between raising an exception
and the boundary that takes it the interpreter runs C code that never waits. Perl code
itself may loop or stop, so nothing is assumed about it.

### Known deviations

Six statements of `GeneratorProperties` quote the documentation or a test and are false of
the code. They are not properties of a run; given to TLC with the constants of
`MCGenerator.cfg`, each yields a short counterexample.

| Statement | Promise | Code |
|---|---|---|
| `OnlyUncaughtFails` | `pod/perlgenerator.pod:331`: an exception caught by an `eval` inside the generator does not fail it | `run.c:1058-1062` aims every eval that was open across a yield at `generator_resume`, which takes its exception for the generator's failure |
| `ArgsBelongToCaller` | `t/op/generator.t:274`: "generator @_ is isolated from the caller @_" | freeing a suspended generator unwinds its body (`run.c:639-641`), which stores the body's saved `@_` where the code that freed it has its own |
| `NoYieldLost` | `pod/perlgenerator.pod:157`: `yield` "pauses the generator and sends LIST back" | a yield deferred in a nested runops loop is lost when that loop dies or docatch's plain loop continues the body |
| `PadsSeparate` | `pod/perlgenerator.pod:73`: "The block keeps its own variables" | generators of a block that closes over nothing share a CV; when one ends, `CvDEPTH` goes back below pads that others are suspended in. Needs four generators of one body and five blocks |
| `ExitIsOrderly` | `pod/perlfunc.pod:2793`: exit "calls any defined END routines first" | `exit` in a body pops to the main stack and jumps to `generator_resume`, which pops the main stack and panics |
| `RunningMeansNotExhausted` | `pod/perlgenerator.pod:308`: `running` returns "the generators that are not exhausted" | `run.c:886-889` leaves out a generator that is executing |

### What is proved

`GeneratorProofs` proves, for any number of generators, blocks, frames and evals, and
for any assignment of bodies to generators:

- `TypeCorrect`: `Spec => []TypeOK`
- `ChainStaysLinked`: `Spec => []ChainLinked`
- `StackAlwaysFollowsCalls`: `Spec => []StackFollowsCalls`
- `JumpTargetsStayLive`: `Spec => []JumpTargetsLive`
- `GeneratorsRunOnce`: `Spec => []RunningOnce`
- `HookStaysInnermost`: `Spec => []HookIsInnermost`

from `GeneratorAssumption` and `MaxSIAssumption` alone. None of these is inductive:
that the next `pop` finds the caller's block, for instance, depends on which frames
are on the C stack, on their `env` and `loop`, on detached blocks being isolated, and,
while an exception is delivered, on the activations above the current block being
unwound already. `IndInv` in `GeneratorInvariant` says all of this; `Invariance` proves
it initially true and preserved, one lemma per action. The lemmas on the list
at its beginning say that each of the four operations keeps it doubly linked and
moves only the blocks it names; those on the C stack say what
pushing a frame, and cutting the stack back to a frame, keeps.

Its second part proves, from the same assumptions:

- `CallersGetTheirArraysBack`: `Spec => CallerArrayRestored`
- `DeferredYieldsComeFirst`: `Spec => []PendingNotPassed`
- `OverIsForever`: `Spec => TerminalForever`
- `ContinuationsStayIntact`: `Spec => ContinuationIntact`
- `RuntimeImplementsLifecycle`: `Spec => ImplementsLifecycle`
- `DepthsAreRight`: `Spec => []DepthCountsActivations`

The first five rest on `NextMoves`: under `IndInv`, every step of `Generator` moves the calls in one
of few ways, whatever else it does: it enters a generator, returns from the innermost call,
puts a yield off, makes or frees a generator, changes what is above the innermost call, or
ends the program. `CallInv` adds to `IndInv` that the `@_` an outer call will restore is the
one its caller had (`ArraysKept`: each activation keeps the array of the code that called
it in its `gen` record, and the resume frame remembers it) and that a deferred yield is
pending only below a nested loop (`PutOffBelow`). In `GeneratorLifecycle` a state is the
`life` of each generator, the `active` one, its `caller` and whether the program is `over`;
the mapping reads `active` from the innermost activation and `caller` from the hook that
each resume frame displaced. A step that is none of the lifecycle's steps is a stutter, and
`NextMoves` is the case split of that proof.

`DepthsAreRight` needs to know what is on each context stack (`DepthInv`, proved in
`ContextInvariance`): the stack of a generator's block begins with the fake eval of
`generator_resume` and the `BODY` context from the first call until the generator ends, above
them are only evals, and the contexts are missing only where an exception on its way to that
very frame, or an exit, has popped them (`OnItsWay`). `CvDEPTH` of a body that no other generator
shares is one exactly while its `BODY` context is on a stack, which outside an unwinding is
while the generator is in progress or suspended.

Its last part proves:

- `NoBlockIsLost`: `Spec => []BlocksAccountedFor`

`DoublyLinked` alone does not give it: a list whose `si_next` and `si_prev` are inverse may
still fall apart into a chain from the main block and a ring beside it. `ListInv` adds that
from each allocated block that no suspended generator keeps, `si_prev` leads to such a block
and goes down in some measure `far` (`Rooted`), which leaves no room for a ring.
`ListInvariance` proves it preserved: a push puts the fresh block one step beyond the current
one, detaching joins two blocks that were already in order, attaching stretches the measure to
make room. `OnList` is a recursive function, so `ListHoldsTheKept` needs an
induction: that the walk along `si_next` reaches a new block with each of its `MaxSI` steps
until it has reached all. It is done on sets of numbers (`LeastNumber`, from the library's
`WFMin`, and `StepByStep`), which takes no operator as a parameter; that the function
exists at all is proved in the same way (`LevelsExist`).

The last two are about the delivery of exceptions:

- `DeliveryComesDown`: `Spec => DeliveryDescends`
- `DeliveryNeverStuck`: `Spec => []DeliveryGoesOn`

The first says that delivery does not go round in circles. While an exception is on its way
nothing else happens, and each step ends the delivery, or lowers in lexicographic order the
depth of the C stack, whether it unwinds or jumps already, and which activation the
unwinding has arrived at. `OnPath` is why popping a block arrives further out, and that a
boundary is never frame 1 unless it is `perl_run`'s is why a `longjmp` leaves a frame. The
second says that some step of delivery is always possible: the innermost eval, the block
below or the boundary that it needs is there.

Only model-checked: `ExceptionDelivered`, liveness under fairness. It follows from these two by
the fairness of `Deliver` and induction on that order, a step that TLAPS's backends
cannot take.

## Hash storage

A small hash is a dense array of entries, searched in order. A store that finds the
array full at `PL_hash_linear_max` promotes it: the array stays, gets holes where
entries are deleted, and an index leads from a key's hash to a position. Perl programs
see none of this: they see keys in the order of insertion and one iterator.

### Modules

| Module | What it is |
|---|---|
| `OrderedMap` | the abstract specification: a sequence of keys and an iterator between two of them |
| `Packing` | some positions of a sequence, moved together |
| `HashTable` | the storage as a record, and what each function of `hv.c` does to it, as operators |
| `HashStorage` | the state machine: one hash, the program that uses it, the calls that wait for a destructor |
| `HashProperties` | invariants, the refinement mapping, two statements that fail |
| `HashProofs` | a lemma for each operator of `HashTable`, the inductive invariant, the theorems |
| `MCHash` | the instance for TLC, and a check of `Packing` against `SelectSeq` |

### State and actions

`hv` is the storage: `form` (no array, dense, indexed), `entries` with `Hole` for an entry
whose key is NULL, its capacity, the buckets and the positions the index leads to,
`xhv_keys`, `HvPLACEHOLDERS`, and the iterator: `riter`, `eiter`, and the flags LAZYDEL,
ITER_INSERTED and ITER_ACTIVE. Positions start at 1, so that 0 is -1 in `xhv_riter`; `eiter`
is a position, `Null`, or `Retired`, the deleted entry that packing moved out of the array.
`locked` is `SvREADONLY` of the hash. `calls` is the stack of the `hv_clear` and `hv_undef`
calls that wait for a destructor, each with its index into the array, or with which of the
two loops of `hv_clear` over a restricted hash it is in. `defined` is TRUE until a function reads
the storage as what it is not; nothing happens after that.

`Store`, `StoreLegal` (to a placeholder), `Delete`, `Each`, `Reset` (`keys %h`), `Reserve`
(`keys %h = n`), `Lock` (of a restricted hash), `ClearPlaceholders`, `Clear`, `ClearRestricted` and `Undef` are
what a program does. Emptying frees one value per step: `Clear` and `Undef` free the first
and `Return` goes on when its destructor is over, or `Misread` ends the behaviour (see "Findings"). Between them every action is possible,
another `Clear` or `Undef` included: a destructor may do what any program may. A store
makes room (`Room`), which may promote, pack, spread the index and grow in one step, as
the code does.

What is abstracted: values and key encodings; the index layout (chains or open
addressing), which is the set of positions it leads to, so a collision is not a case of its
own; tied and magical hashes, packages, the shared string table; whether the
iterator's structure is allocated, which makes no difference once its fields have their
initial values. A store to a key that has a value changes nothing here and is left out. An
iteration that asks for placeholders too is left out. That a store into a placeholder does
not set ITER_INSERTED is modelled, and `OrderedMap` allows it.

### What the runs show

| Run | Instance | Question |
|---|---|---|
| `hash_growth` | 5 keys, dense up to 4, two nested emptyings | forms, thresholds, iteration, destructors |
| `hash_restricted` | 3 keys, dense up to 2, `keys %h = 8`, one emptying that waits, restricted or not | placeholders and counts |
| `lost_deletion` | as `hash_restricted` | finding: a deferred deletion that a clear forgets |

Both passing runs check the refinement `ImplementsOrderedMap`. `IndexMatchesEntries` is
checked where the index grows most; `CountsAgree` needs placeholders, and `IteratorAnchored`
has the most ways to break where placeholders, deferred deletions and destructors meet: both
are checked by the second.

Bounds. `MinCapacity` is 8 in the code and 4 in the runs: the thresholds are fractions of
the capacity, and with 4 a fifth key already meets a full array worth packing, an index
under pressure and an array much too large, which 8 would need ten keys for. Five keys are
the fewest that promote a hash of linear limit 4; three do with limit 2. `MaxCalls` bounds
how many emptyings wait for a destructor: one inside another is enough for an index to go stale
twice. An emptying that finds nothing to free does not wait and is always possible, which is
how `hash_restricted`, with one that waits, gets to `Misread`. Two that wait in a hash of three keys
that may be restricted are too many states; the theorems allow any number.
`MaxPlaceholders` bounds `HvPLACEHOLDERS`, which runs ahead while a restricted hash is
emptied and its destructors lift the restriction. Keys are symmetric: no operator compares
them but for equality.

`LosesDeletion` is FALSE in `hash_restricted`: an emptying of a restricted hash that would
forget a deferred deletion does not end there, since everything after it is the subject
of `lost_deletion`. Everything before it, and every emptying with no deletion pending,
is in both. `CHECK_DEADLOCK FALSE` is there for `Misread`.

No fairness is assumed and no liveness is stated: a destructor may store as fast as its
caller frees, so emptying need not end.

### Findings

`sv.h` says that with LAZYDEL on, the entry in `xhv_eiter` must be deleted. Emptying a
restricted hash while a deletion is deferred breaks this: the iterator forgets the entry, the
flag stays, and the next entry visited is freed although it is alive and in the index. A known
deviation without a run is `UndefEndsIteration` of `HashProperties`: `hv_undef` says
(`hv.c:3329-3330`) that what it leaves is correct for an empty hash, but in a dense array whose
current key was deleted the iteration stays open, and the next program to fill the hash and
call `each` gets a warning and nothing else. With an index it starts over.

Another known deviation is `Misread`. `hv_clear` of a restricted hash has a loop for a dense array,
which looks after each destructor whether the array still is one (`hv.c:2965`), and one for an
indexed array, which does not (`hv.c:2971`). A destructor that lifts the restriction, undefines the
hash and stores a key leaves a dense array of `HE`, and the second loop reads it as a `struct hv_oa`:
the number of entries and their address come from the pointers of the first `HE`. What happens
then is undefined, so the model stops, and no property says anything of it.

### Theorems

`HashProofs` proves, for every set of keys, finite or not, every `LinearMax` and
`MinCapacity` of `HashAssumption`, and without the bounds `MaxCalls` and `MaxPlaceholders`
being small, when `LosesDeletion` is FALSE (the runs say the same, and `lost_deletion` why), up
to a `Misread`:

- `IndexIsRight`: `Spec => []IndexMatchesEntries`
- `CountsAreRight`: `Spec => []CountsAgree`
- `IteratorIsRight`: `Spec => []IteratorAnchored`
- `HashImplementsMap`: `Spec => ImplementsOrderedMap`
- `HashTypes`: `Spec => []TypeOK`

Each operator of `HashTable` has a lemma that says what it makes of a `Sound` table:
another one, and what of the ordered map it changes. `Sound` adds to the three properties what
they need of one another: `lazydel` is on exactly when `eiter` is retired or at an entry the
index does not lead to; a dense array has no deferred deletion, so that closing it up never
meets one; a table with an index has room for `MinCapacity`. The operators that only rearrange
(`Compacted`, `Rebuilt`, `IndexResized`, `Reserved`, `IndexedRoom`, `Room`, `Enlarged`) keep
the view (`Same`) and those that take entries out leave the keys of the rest in their order
(`Taken`). All of it comes down to `Packed`: the lemmas `RankFacts`, `RankOnto` and
`PackedFacts` say that the rank of a position among those kept is increasing and onto, so that
packing loses, repeats and reorders nothing, and `RankOfRanks` that packing twice is packing once.

`HashInv` is `Sound(hv)` with the placeholders: `HvPLACEHOLDERS` is never below their number,
and is exact while every call that waits is an emptying of a restricted hash (`Exact`), since
those count as they go. `CountsAgree` asks for exactness only when no call waits, which is not
inductive: a `Clear` that ends inside the destructor of another one would not show it.

For the refinement a step of the storage is one of a few things to the map: nothing, an added
key, a filled or hidden one, keys that leave (`Leave`), a visit, a reset. That each() goes to
the next key, whatever holes and placeholders lie between, is `AheadIsComing`. When an emptying
gives the iterator up and frees an entry in one step, the map removes a key and ends the
iteration in one step as well (`LeaveAfterReset`).

## Threads and locks

Four models share one convention: a step is what a thread does under one mutex, and a
mutex is a variable only where the code keeps it across such steps. `COND_SIGNAL` wakes any
one sleeper, `COND_BROADCAST` all, and where POSIX allows it a sleeper may wake for no reason.

### Locks of threads::shared

`SharedLock` is `recursive_lock_t` and `user_lock`: `lock[v]` is owner and count,
`contenders` the threads asleep on `lock.cond`, `sleepers` those on `user_cond`, `waiters`
and `curLock` the C fields. `scopes` is the part of each save stack that will release locks.
`Lock`, `Relock` and `Release` are `recursive_lock_acquire` and `recursive_lock_release`.
`S_do_cond_timedwait` is six actions: `CondWait` gives the lock up and keeps its mutex,
`TakeCondMutex` takes that of the condition if it was used with another lock, `FallAsleep`
counts the waiter and sleeps, `WakeUnsignalled` is a time-out, `Reacquire` waits for the lock,
`LeaveWait` counts it out. The new value of `waiters` is computed from the one read when the
mutex was taken (`seen`), since two locks of one condition do not protect it.

`Monitor` is what the documentation promises, over the program's own view, the scopes that
are open: no owner, no count, no mutex. `ImplementsMonitor` says that resetting and restoring
`owner` and `locks` around a wait never lets two threads into one lock and never leaves a lock
at another depth than its scopes.

`shared_locks`: three threads, two scopes deep, a variable that is its own condition (`va`) and
a condition used with two locks (`vc` with `va` or `vb`). Three threads are the fewest where a
wake-up can go to the wrong one while a third holds the lock. `MaxWaiters` stops new waits
when `waiters` has drifted, which it does when a condition is used with several locks;
`WaitersCounted` is therefore about conditions with one lock.

Proved in `SharedLockProofs`, for any threads, variables, pairs and bounds:
`FreeLocksAreHandedOn` (`LockHandedOn`), `WaitersAreCounted` (`WaitersCounted`, of conditions
used with exactly one lock), `SignalsAreNotLost` (`NoSignalLost`, of signals sent by the thread
that has the lock of a waiter), `LocksImplementMonitor` (`ImplementsMonitor`), and
`LocksExclude` (`MutualExclusion` of `Monitor`). `MutexesStayInOrder` (`MutexOrder`) has the
hypothesis `PairsInOrder`: among the pairs whose condition is used with another lock too, no
set of conditions has each of its members used as the lock of one of them. The invariant,
`IndInv` in `SharedLockInvariant`, adds to these properties who keeps which mutex at which
place of `S_do_cond_timedwait`, that owner and count are those of the open scopes except for
a thread that put its depth by, and that no update of `waiters` of a condition with one lock
starts from an old value. `LockHandedOn` is inductive only with the first two: a wake-up is
passed on by a release, and a release is due because somebody owns the lock.

Known deviation: with a condition waited on with itself as the lock as well as
with another, `MutexOrder` is false, which is the case that `PairsInOrder` rules out. The thread that waits with itself keeps its mutex, finds the
condition in use with another lock, and takes that mutex again (`shared.xs:1472`).

### Thread::Queue

`ThreadQueue` counts items. Every method runs under the lock of the queue and waits on the
queue, so a step is what happens between getting that lock and giving it up, and
`SharedLock` is why nothing gets in between. `Add` and `Take` are the wait loops of
`enqueue` and `dequeue` and what follows; `EnqueueAgain`, `DequeueAgain` and
`DequeueTimedAgain` go round again after a wake-up; `Expire` is a time-out.

`thread_queue`: two producers and three consumers, batches of one and two, items that cannot be
shared, `LIMIT` unset, 2, or set to 2 at any moment. In `enqueue` and `insert`, `shared_clone` croaks for such an
item after the wait and before the signal, or leaves it out, if `$threads::shared::clone_warn` is
set; both are modelled (`Unshareable`). Three consumers are what it takes for a wake-up to be passed
on twice. `NobodyOversleeps` and `EndUnblocks` make their claim while `RoomFor(limit)` holds, in this
run while there is no limit; the states with the limit are there for the queue to come from.
Fairness: a thread that was woken runs again (the operating system schedules threads), and a
time-out comes; nobody is assumed to call any method. A run may stop when all sleep.

Proved in `ThreadQueueProofs`, for any number of threads: `SleepersAreServed`
(`NobodyOversleeps`), if consumers ask for one item at a time (`Singly`) and a program that ever
sets a limit with room for all sets no other (`RoomIsKept`). `RoomFor(n)` is that there is no
limit, whatever the batches and whatever croaks; or that n is no less than the number of
producers and than that of consumers, while producers add one item at a time and nothing
croaks. The invariant is that producers and consumers never sleep at the same time, that as
many consumers are on their way as there are items while a consumer sleeps, and as many
producers as there are free places while a producer does. The bound is what makes it
inductive: a queue that is full while a consumer sleeps would need more consumers awake than
there are others. A limit of half the number of threads is not enough: with a limit of four,
five consumers and three producers it is false.

Without hypotheses, for all values of the constants: `NoneWaitsOnceEnded` (`NoneWaitsAfterEnd`). The
queue stays ended, and then no dequeue method goes to sleep any more, so a consumer that is
awake leaves its call with its next step. With `NobodyOversleeps` it is the safety behind
`EndUnblocks`, which itself is only model-checked.

Known deviations. One condition and one signal are not enough when producers sleep at a limit:

- `EndUnblocksAll` is false. `Queue.pm:518` says of `end` that "All threads blocking on `dequeue()`
  calls will be unblocked". With `LIMIT` 2, three producers, two consumers and single items, `end` can
  signal a producer, which finds the queue full and sleeps again without passing the signal
  on; the consumer that sleeps is never woken.
- `SleepersServed` is false, with `LIMIT` 2 and five threads, and with consumers that ask for
  different counts: the wake-up goes to a thread that has no use for it. With `LIMIT` 2 and two
  threads of each kind it is false too when the producer that was woken croaks (`Queue.pm:40`):
  there is room, and nobody wakes the others.
- `NothingAfterEnd` is false: an `enqueue` that waits for room does not look at `ENDED` again
  (`Queue.pm:37-40`).
- Raising the limit signals nobody (`Queue.pm:45-50`). `RoomIsKept` keeps the theorems away from it, and
  `NewLimits` of the run has only the limit that the queue has already or gets as its first.

### threads

`ThreadLifecycle` is the ithread records (`rec`), how far the OS thread has got (`os`), the
thread objects each interpreter has (`objs`), the pool's counters, and a stack of calls per
interpreter (`op`): freeing an interpreter frees its thread objects, each of which may free
another record and interpreter. `Create` clones the interpreter and its objects, `Start` or
`StartFails` follow; `Release`, `Unlink`, `Clear`, `Destruct`, `FreeRecord`, `Uncount` are
`S_ithread_dec_free` and `S_ithread_clear`; `Look` and `TakeObject` are `list` and `object`;
`Join`, `JoinCount`, `JoinDone`, `Detach`, `DetachFree`, `Drop`, `Self` are the methods; `Finish`,
`EndRun`, `Gone` the end of `S_ithread_run`.

`thread_lifecycle`: the main interpreter creates two threads, which get its objects, may make
their own, join and detach each other, and end dead or alive. Two threads and the creator are
all the parties the code of one record knows: the joiner, the thread, and one more holder.

Proved in `ThreadLifecycleProofs`, for any number of threads, creators and listers:
`CountIsExact` (`CountAccounts`), `FreedIsUnreachable` (`NoDanglingRecord`), `ErrorIsKept`
(`ErrorKept`) and `CountersAlwaysAgree` (`CountersAgree`, where `running_threads` includes
creations under way and refused ones), all with the hypothesis
`RefusalUnseen`: either no creation is refused (`Refused` is empty), or the only interpreter
that creates threads is the only one that calls `list`. The first known deviation below is
what happens otherwise. `LifecycleInv` has three parts. `Sound` relates the record of one
thread to its OS thread, to how many interpreters have an object of it and to how many calls
on it are at each place (`TallyOf`): the count, one start and one join per thread, one end
of the record. `Settled` is about one interpreter: the calls from Perl code are alone in
`op`, and an interpreter is cleared inside the release or the freeing that its record is
going through, so that returning from it finds the right call. `CountersAgree` itself is
the third. Each action moves one call from one place to another, adds or removes an object,
or changes a record; `OneStep` and `RecordStep` reduce it to a statement about one record and
its tally, which the `Sound...` lemmas prove, and the rest is how many threads have a flag.

Known deviations: `pthread_create` that fails sets `count = 1` (`threads.xs:1154`), although
an interpreter other than the creator may have got an object of the record from `list`
meanwhile, since the pool's mutex is free while the interpreter is cloned; that object then
leads to a freed record. `Refused` and `Listers` are constants so that a run can say who may
meet this, and in `thread_lifecycle` only the creator lists threads.
`detach` may free the interpreter that `thread_locale_term` still works on
(`threads.xs:768`, `1601`); `total_threads` reaches zero while a detached OS thread still has
to take the pool's mutex (`threads.xs:806`); a failed creation leaves `running_threads` raised,
which `CountersAgree` states as it is.

### Locale and environment locks

`ResourceLocks` is the two many-reader locks, with the per-thread counters that make them
recursive, and the compound macros. `Repurposed` and `Separate` are two sets of definitions
of those macros (`perl.h:8083-8305`), by what they map a section's needs to; `build` picks one.
There is a third, not modelled: with `EMULATE_THREAD_SAFE_LOCALES` (`perl.h:8307-8342`) the second set
is kept, but a lock of the locale is a call of `category_lock` in `locale.c`.
`Enter` begins a section, `ReadLock` and `ExclusiveLock` take its locks in order, a writer that
finds readers sleeps, `ReadUnlock` and `ExclusiveUnlock` give them up in reverse. `Allowed` is the
rule of the comments that a nested section takes no new lock, and the panics.

`resource_locks`: three threads, sections nested two deep, every section but those that differ
only in reading the locale. Two readers and a writer, or two writers and a reader, are what
the wake-up of one writer has to get right. Deadlock is checked, and would be a real one: any
thread may always enter or leave something.

Proved in `ResourceLocksProofs`, for any threads, any sections, any depth and both kinds of
build: `SectionsAlwaysExclude` (`SectionsExclude`: the generic resource and the environment, and
the locale only where it has a lock; see the deviation below), `WritersAreWoken` (`WritersWoken`),
`NoCircularWaits` (`NoCircularWait`), and `CountersAlwaysAgree`, that the counters of the
macros say what the frames of the threads say. The invariant counts places in frames: the
exclusive and the shared counter of a thread are the numbers of frame positions that hold
the lock in that mode. A nested section is `Covered`: each lock it takes, an outer section of
the same thread has, exclusively if it wants it so. Hence a nested section never waits,
a thread that waits is in its outermost section and has at most the first of its two locks,
and that lock is the same for all threads of a build, so nobody waits in a circle.

Known deviation: `LocaleWritersExclude` is false. `perl.h:8095` says "Any LCx component of a lock
macro maps into GENx", but in `Repurposed` builds `ENVr_LCx_LOCK_` is `ENVr_LOCK_`, so two threads in
`setlocale` (which `perl_lock_definitions.h` gives that macro) are not kept apart.

## Safe signals

`SafeSignals` is a C stack of loops of `despatch_signals`, handlers they called, and
assignments to `%SIG` that are about to install a value, with the process mask and the
signals the kernel keeps. `Arrive` and `Deliver` run the C handler between any two steps;
`AsyncCheck`, `SkipSig`, `CallHandler`, `Despatched` are an op boundary and the loop;
`HandlerReturns` and `HandlerDies` end a handler, the second by unwinding to any eval of the
program or of an outer handler, with the destructors on the save stack that restore the mask;
`AssignSig` blocks the signal and despatches what is pending, `InstallSig` stores the value;
`ForkChild` goes on as the child. A step touches the pending count of one signal only, so an
arrival in the middle of one has the effect of an arrival before or after it.

`safe_signals`: two signals, five sent, seven frames. Two signals are a lower and a higher
one, which is what the order of the loop distinguishes; five arrivals and seven frames let a
handler be interrupted by the other's, that one assign to `%SIG`, and the assignment
despatch again. `DieCount` is 3 instead of 120, so that the limit is met. In this run only
the handler of the last signal dies: any other that dies is the subject of
`forgotten_signal`. Fairness: C code goes on; an op boundary that comes up again and again
is reached, and so is the end of a handler: perl looks for signals between any two ops, and a
handler that never returned would be the program's. Nothing is assumed about arrivals.

Proved in `SafeSignalsProofs`, for any number of signals, any handlers and any nesting:
`HandlersAreNotReentered` (`HandlerNotReentered`) and `MaskIsRestored` (`MaskRestored`) without
hypothesis; `NoneIsForgotten` (`NoneForgotten`) and `HandlersAreKept` (`HandlerKept`) with
`OnlyLastDies`, that of all handlers only the one the loop comes to last dies, without which
both are false (see the finding). `MaskInv` says that every handler and every assignment
on the stack has its signal blocked now, in the masks that assignments further in put back,
and after handlers further in unblock theirs; and that leaving everything from any point,
by return or by exception, gives the mask in closed form (`After`), in which only the
signals in `stuck` remain. `NoticeInv` says who still looks at a pending signal: `sigPending`,
or a loop on the stack that has not passed it.

Finding: `forgotten_signal`. `despatch_signals` resets `PL_sig_pending` before it looks at any
signal. When the handler of one dies, the ones after it stay counted, and nothing looks for
them until another signal comes. The interpreter built from this source shows the same.

Known deviations: `NeverWithoutHandler` is false: `magic_setsig` blocks the signal to "Avoid having
the signal arrive at a bad time, if possible" (`mg.c:2442`), but a handler that deletes
`$SIG{X}`, while an outer loop has still to look at a pending X, ends the process when that loop
comes to it. And a signal that meets `SIG_PENDING_DIE_COUNT` throws out of its C handler and
stays blocked; `MaskRestored` states that as the exception it is (`stuck`).

## Weak references

`WeakReferences` has blessed hashes of one element, and variables; `value` is what each holds,
`refcnt` and `backrefs` what the objects keep, `stack` (innermost last) the C code that runs when a
count falls to zero: `Release` starts DESTROY, `DestroyReturns` finds the object resurrected or takes its
list, `KillBackref` clears one weak reference and calls its set magic, `KilledAll`, `FreeElement`
and `FreeBody` free the rest, and with the element perhaps the next object. Perl code runs when
the stack is empty, in DESTROY and in set magic, and does `Assign`, `Clear`, `Weaken`, `Unweaken`
with whatever it can reach.

`WeakMap` is the promise of `builtin.pm:331-338` over references alone, without counts and lists:
an object is doomed when its destructor ends with no strong reference left, only references
that lead to a doomed object or belong to one are cleared, and no program uses one of those.
`BooksKept` is the invariant behind it: count and list match the references at every step, and
so `sv_del_backref` never panics.

`weak_references`: three objects, a variable, and one with set magic. Three objects hold a
chain whose end dies inside the death of its begin, with a third that refers back weakly. A
run may stop: a program that has no object left to make and lost its last reference to a
cycle can do nothing more.

`WeakReferencesProofs` proves, for any sets of objects and variables, finite or not, when
`Intrudes` is FALSE:

- `BooksAreKept`: `Spec => []BooksKept`
- `ReferentsStayLive`: `Spec => []ReferentsLive`
- `BooksImplementWeakMap`: `Spec => ImplementsWeakMap`

`BooksKept` alone is not inductive: `FreeBody` needs to know that nothing refers to the object, so
`Staged` relates its phase to its count and to the frame it is in, and `FreedOnce` says that there
is one such frame. The hard part is `KillBackref`. While it works through its list, set magic runs,
and what that destroys, with the frames further in, must not free a scalar the list still names.
`Guards` says why it cannot: the objects that lead to the dying one form a set `P` in which each is
held strongly by a variable, by a member of `P`, or by a frame further out; Perl code that leaves
the way to the dying object alone changes no member of `P` and no variable that refers to one, so
none of them is freed before the frame is done. The condition is needed, as the deviation
below shows. `Mutates` says what each of the assignments, clearings and weakenings does, wherever it
comes from; `MutationKeeps` proves the invariant for all of them once, and `MutationHolds` the
step of the promise.

Known deviation: with `Intrudes` TRUE, set magic that a cleared weak reference runs uses other
weak references to the object that is dying. Despite the comment at `sv.c:7922` ("Free
back-references before magic, in case the magic calls Perl code that has weak references to
sv") `NeverSeenDying` and `BooksKept` are then false: a strong copy taken there dangles, and
undefining another weak reference panics in `sv_del_backref`. The interpreter built from this
source does both.

## Type invariants

Each module of properties defines `TypeOK`, or its proofs do. It is a property of a run for
the generator, where it is also a theorem; in the others it is subsumed by what the run
checks, and it is the first conjunct of the inductive invariant where there is one.

## Not modelled

- The process scheduler: its only caller is `ext/XS-APItest`, with processes of two ops that do
  nothing, so nothing that would be hard about it can happen in a program yet.
- The locale locks of builds with `EMULATE_THREAD_SAFE_LOCALES`.
- Thread::Semaphore; `$thr->kill` and `exit`; the proxies of shared data.
- Unsafe signals; the `__DIE__` and `__WARN__` hooks.
- Back-references of stashes, globs and subs; global destruction; thread cloning of any of these.
- Save stack, method cache, classes and PerlIO buffers: within reach, not begun.
- The rest of the table under "The system", for the reasons given under `components`.

Only model-checked: every liveness property (`ExceptionDelivered`, `EndUnblocks`,
`PendingHandled`), since TLAPS's backends do not reason about ENABLED.
