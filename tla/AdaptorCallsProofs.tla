------------------------- MODULE AdaptorCallsProofs -------------------------
(* Proofs about the calls into the resource adaptor: what is on a thread's *)
(* stack in each of its states, where one stretch of locked code may take  *)
(* it, and what is left when the adaptor is shut down or everybody waits.  *)
EXTENDS SparkResourceAdaptorProofs, SequenceTheorems

-----------------------------------------------------------------------------
(* The inductive invariant.                                                *)

\* Nobody uses RmmSpark.forceRetryOOM and its like, which are for tests.
NoInjections == \A t \in Threads : Injected[t] = {} /\ CudfInjected[t] = {}

\* Every CPU allocation is made with blocking = true, as GPU ones are.
OnlyBlocking == AllocKinds \subseteq BOOLEAN \X {TRUE}

\* A frame that waits is of a blocking, outermost allocation; a nested
\* blocking CPU allocation never gets past pre_alloc.
Proper(f) ==
  /\ f.call = "pre_alloc" => f.blocking
  /\ f.recursive => f.call = "allocate" /\ ~(f.cpu /\ f.blocking)

\* The stack of a thread in ALLOC: allocations only, the outermost one is
\* the one that is tracked and fits the kind in the record.
Nested(r, st) ==
  /\ st # <<>>
  /\ \A i \in 1 .. Len(st) : st[i].call = "allocate" /\ (st[i].recursive <=> i < Len(st))
  /\ st[Len(st)].cpu = r.is_cpu_alloc

\* A registered thread is in nested allocations, in one call that waits, or
\* in its own code.
Framed(r, st) ==
  /\ \A i \in 1 .. Len(st) : Proper(st[i])
  /\ registered(r) =>
       IF r.state \in {"ALLOC", "ALLOC_FREE"} THEN Nested(r, st)
       ELSE st # <<>> => Len(st) = 1 /\ st[1].call # "allocate"

Blank(r) == ~registered(r) => r.task_id = -1 /\ r.pool_task_ids = {}

Quiet(r) ==
  r.retry_oom.hit = 0 /\ r.split_and_retry_oom.hit = 0 /\ r.cudf_exception_injected = 0

InPreAlloc(st) == st # <<>> /\ Head(st).call = "pre_alloc"

\* Without injected exceptions a paused thread is where it paused.
Calm(r, st) ==
  /\ Quiet(r)
  /\ r.state = "BLOCKED" => InPreAlloc(st)
  /\ r.state \in {"BUFN", "SPLIT_THROW"} => r.wake # "idle"
  /\ r.state = "REMOVE_THROW" => st # <<>>
  /\ OnlyBlocking => /\ r.state = "BUFN_THROW" => InPreAlloc(st)
                     /\ \A i \in 1 .. Len(st) : st[i].blocking

Fine(r, st) == Framed(r, st) /\ Blank(r) /\ (NoInjections => Calm(r, st))

CallInv ==
  /\ \A t \in Threads : Fine(threads[t], stack[t])
  /\ TaskKnowsItsThreads
  /\ ShutdownReachesEveryone

\* The states in which all_done() leaves its threads.
Over == {"UNKNOWN", "REMOVE_THROW"}

\* One record became another: along the diagram, and once the adaptor is
\* shutting down never back from Over.
Onward(r, q) ==
  /\ NoInjections => q.state \in Reach[r.state] \cup {r.state}
  /\ adaptor # "open" /\ r.state \in Over => q.state \in Over

\* What an action may make of the invariant and of every thread.
CallStep ==
  /\ CallInv'
  /\ NoInjections =>
       \A t \in Threads : threads'[t].state \in Reach[threads[t].state] \cup {threads[t].state}

-----------------------------------------------------------------------------
(* Stacks.                                                                 *)

(* A frame is put on a stack.                                              *)
LEMMA PushedFrames ==
  ASSUME NEW f \in FrameRecord, NEW st \in Seq(FrameRecord)
  PROVE  /\ <<f>> \o st \in Seq(FrameRecord)
         /\ <<f>> \o st # <<>>
         /\ Head(<<f>> \o st) = f
         /\ Len(<<f>> \o st) = Len(st) + 1
         /\ Len(st) \in Nat
         /\ (<<f>> \o st)[1] = f
         /\ \A i \in 2 .. Len(st) + 1 : i - 1 \in 1 .. Len(st) /\ (<<f>> \o st)[i] = st[i - 1]
OBVIOUS

(* A frame is taken off a stack.                                           *)
LEMMA PoppedFrames ==
  ASSUME NEW st \in Seq(FrameRecord), st # <<>>
  PROVE  /\ Head(st) = st[1] /\ Head(st) \in FrameRecord
         /\ Tail(st) \in Seq(FrameRecord)
         /\ Len(st) \in Nat \ {0}
         /\ Len(Tail(st)) = Len(st) - 1
         /\ Tail(st) = <<>> <=> Len(st) = 1
         /\ \A i \in 1 .. Len(st) - 1 : i + 1 \in 1 .. Len(st) /\ Tail(st)[i] = st[i + 1]
<1>1. Tail(st) \in Seq(FrameRecord) /\ Len(st) \in Nat \ {0} /\ Len(Tail(st)) = Len(st) - 1
  OBVIOUS
<1>2. Head(st) = st[1] /\ Head(st) \in FrameRecord
  OBVIOUS
<1>3. \A i \in 1 .. Len(st) - 1 : i + 1 \in 1 .. Len(st) /\ Tail(st)[i] = st[i + 1]
  OBVIOUS
<1>4. Tail(st) = <<>> <=> Len(st) = 1
  BY <1>1, EmptySeq
<1> QED BY <1>1, <1>2, <1>3, <1>4

(* The stack of a thread that is in one call.                              *)
LEMMA OneFrame ==
  ASSUME NEW f \in FrameRecord
  PROVE  /\ <<f>> \o <<>> \in Seq(FrameRecord)
         /\ <<f>> \o <<>> # <<>>
         /\ Len(<<f>> \o <<>>) = 1
         /\ Head(<<f>> \o <<>>) = f
         /\ (<<f>> \o <<>>)[1] = f
OBVIOUS

(* A thread that is registered and not in ALLOC may have an empty stack.   *)
LEMMA FineOutside ==
  ASSUME NEW r \in ThreadRecord, registered(r), r.state \notin {"ALLOC", "ALLOC_FREE"},
         NoInjections => /\ Quiet(r)
                         /\ r.state \notin {"BLOCKED", "BUFN", "SPLIT_THROW", "REMOVE_THROW"}
                         /\ OnlyBlocking => r.state # "BUFN_THROW"
  PROVE  Fine(r, <<>>)
BY DEF Fine, Framed, Blank, Calm, registered

(* An unregistered thread may have any stack of proper frames.             *)
LEMMA FineUnknown ==
  ASSUME NEW r \in ThreadRecord, ~registered(r), NEW st \in Seq(FrameRecord),
         r.task_id = -1, r.pool_task_ids = {},
         \A i \in 1 .. Len(st) : Proper(st[i]),
         NoInjections => /\ Quiet(r)
                         /\ OnlyBlocking => \A i \in 1 .. Len(st) : st[i].blocking
  PROVE  Fine(r, st)
BY DEF Fine, Framed, Blank, Calm, registered

(* A thread that waits has that one call on its stack.                     *)
LEMMA FineWaiting ==
  ASSUME NEW r \in ThreadRecord, registered(r), r.state \notin {"ALLOC", "ALLOC_FREE"},
         NEW f \in FrameRecord, Proper(f), f.call # "allocate",
         NoInjections => /\ Quiet(r)
                         /\ r.state \in {"BLOCKED", "BUFN_THROW"} => f.call = "pre_alloc"
                         /\ r.state \in {"BUFN", "SPLIT_THROW"} => r.wake # "idle"
                         /\ OnlyBlocking => f.blocking
  PROVE  Fine(r, <<f>> \o <<>>)
<1> DEFINE st == <<f>> \o <<>>
<1>1. st # <<>> /\ Len(st) = 1 /\ Head(st) = f /\ st[1] = f
  BY OneFrame
<1> HIDE DEF st
<1>2. \A i \in 1 .. Len(st) : st[i] = f
  BY <1>1
<1>3. Framed(r, st)
  BY <1>1, <1>2 DEF Framed
<1>4. NoInjections => Calm(r, st)
  BY <1>1, <1>2 DEF Calm, InPreAlloc
<1> QED BY <1>3, <1>4 DEF Fine, Blank, st

-----------------------------------------------------------------------------
(* What may happen to a thread while its stack stays as it is.             *)

SameState(r, q) == q.state = r.state

Apart(r, q) ==
  /\ q \in ThreadRecord
  /\ q.wake = "idle" <=> r.wake = "idle"
  /\ \/ SameState(r, q)
     \/ <<r.state, q.state>> \in Pokes
     \/ r.state = "ALLOC" /\ q.state = "ALLOC_FREE"
     \/ is_blocked(r.state) /\ q.state = "REMOVE_THROW"
     \/ ~is_blocked(r.state) /\ q.state = "UNKNOWN"
  /\ registered(q) => q.is_cpu_alloc = r.is_cpu_alloc
  /\ Blank(r) => Blank(q)
  /\ NoInjections /\ Quiet(r) => Quiet(q)

(* Every such change follows the diagram.                                  *)
LEMMA ApartOnward ==
  ASSUME NEW r \in ThreadRecord, NEW q, Apart(r, q)
  PROVE  Onward(r, q) /\ (registered(q) => registered(r))
<1>1. r.state \in States /\ q.state \in States
  BY DEF Apart, ThreadRecord
<1>2. CASE SameState(r, q)
  BY <1>2 DEF SameState, Onward, registered
<1>3. CASE <<r.state, q.state>> \in Pokes
  BY <1>3 DEF Pokes, Onward, Over, Reach, registered
<1>4. CASE r.state = "ALLOC" /\ q.state = "ALLOC_FREE"
  BY <1>4 DEF Onward, Over, Reach, registered
<1>5. CASE is_blocked(r.state) /\ q.state = "REMOVE_THROW"
  BY <1>5 DEF Onward, Over, Reach, registered, is_blocked
<1>6. CASE ~is_blocked(r.state) /\ q.state = "UNKNOWN"
  BY <1>1, <1>6 DEF Onward, Over, Reach, registered, is_blocked, States
<1> QED BY <1>2, <1>3, <1>4, <1>5, <1>6 DEF Apart

(* And leaves a thread where its stack says it is.                         *)
LEMMA ApartFine ==
  ASSUME NEW r \in ThreadRecord, NEW st \in Seq(FrameRecord), NEW q, Fine(r, st), Apart(r, q),
         r.wake # "idle" => st # <<>>
  PROVE  Fine(q, st)
<1>1. registered(q) => registered(r)
  BY ApartOnward
<1>2. Framed(q, st)
  <2>1. registered(q) =>
          (q.state \in {"ALLOC", "ALLOC_FREE"} <=> r.state \in {"ALLOC", "ALLOC_FREE"})
    BY DEF Apart, SameState, Pokes, is_blocked, registered
  <2>2. registered(q) /\ Nested(r, st) => Nested(q, st)
    BY DEF Nested, Apart
  <2> QED BY <1>1, <2>1, <2>2 DEF Fine, Framed
<1>3. ASSUME NoInjections PROVE Calm(q, st)
  <2>1. Calm(r, st)
    BY <1>3 DEF Fine
  <2>2. q.state = "BLOCKED" => r.state = "BLOCKED"
    BY DEF Apart, SameState, Pokes, is_blocked
  <2>3. q.state \in {"BUFN", "SPLIT_THROW"} => r.state \in {"BUFN", "SPLIT_THROW"}
    BY DEF Apart, SameState, Pokes, is_blocked
  <2>4. q.state = "REMOVE_THROW" => r.state \in {"REMOVE_THROW", "BLOCKED", "BUFN"}
    BY DEF Apart, SameState, Pokes, is_blocked
  <2>5. q.state = "BUFN_THROW" => r.state \in {"BUFN_THROW", "BLOCKED"}
    BY DEF Apart, SameState, Pokes, is_blocked
  <2>6. q.state = "REMOVE_THROW" => st # <<>>
    BY <2>1, <2>4 DEF Calm, InPreAlloc
  <2>7. Quiet(q) /\ (q.wake = "idle" <=> r.wake = "idle")
    BY <1>3, <2>1 DEF Apart, Calm
  <2> QED BY <2>1, <2>2, <2>3, <2>5, <2>6, <2>7 DEF Calm
<1> QED BY <1>2, <1>3 DEF Fine, Apart

(* A thread nobody touched.                                                *)
LEMMA ApartSame ==
  ASSUME NEW r \in ThreadRecord
  PROVE  Apart(r, r)
BY DEF Apart, SameState

(* Poked records are quiet if they were.                                   *)
LEMMA SameQuiet ==
  ASSUME NEW r, NEW q, Injections(q) = Injections(r)
  PROVE  Quiet(q) <=> Quiet(r)
BY DEF Injections, Quiet

(* A poke, also on top of another change made under the same mutex.        *)
LEMMA ApartPoked ==
  ASSUME NEW r \in ThreadRecord, NEW q, Apart(r, q), NEW p, p = q \/ Poked(q, p)
  PROVE  Apart(r, p)
<1>1. CASE p = q
  BY <1>1
<1>2. CASE Poked(q, p)
  <2>1. \/ SameState(r, p)
        \/ <<r.state, p.state>> \in Pokes
    <3>1. <<q.state, p.state>> \in Pokes
      BY <1>2 DEF Poked
    <3>2. q.state \notin {"ALLOC_FREE", "REMOVE_THROW", "UNKNOWN"}
      BY <3>1 DEF Pokes
    <3>3. SameState(r, q) \/ <<r.state, q.state>> \in Pokes
      BY <3>2 DEF Apart
    <3> QED BY <3>1, <3>3 DEF Pokes, SameState
  <2>2. registered(q) /\ registered(p)
    BY <1>2 DEF Poked, Pokes, registered
  <2>3. Quiet(p) <=> Quiet(q)
    BY <1>2, SameQuiet DEF Poked
  <2>4. p \in ThreadRecord /\ (p.wake = "idle" <=> q.wake = "idle")
          /\ p.is_cpu_alloc = q.is_cpu_alloc
    BY <1>2 DEF Poked
  <2> QED BY <2>1, <2>2, <2>3, <2>4 DEF Apart, Blank
<1> QED BY <1>1, <1>2

(* remove_thread_association of one thread: it is told, or forgotten.      *)
LEMMA RemovedApart ==
  ASSUME NEW r \in ThreadRecord, NEW k \in Tasks \cup {-1}
  PROVE  /\ Apart(r, removed(r, k))
         /\ thread_should_be_removed(r, k) =>
              /\ removed(r, k).state \in Over
              /\ removed(r, k).state = "UNKNOWN" => removed(r, k).task_id = -1
         /\ ~thread_should_be_removed(r, k) =>
              removed(r, k).task_id = r.task_id /\ SameState(r, removed(r, k))
<1> DEFINE w == without_task(r, k)
<1>1. /\ w \in ThreadRecord /\ w.wake = r.wake /\ w.state = r.state /\ w.task_id = r.task_id
      /\ w.is_cpu_alloc = r.is_cpu_alloc /\ Injections(w) = Injections(r)
      /\ w.pool_task_ids \subseteq r.pool_task_ids
  BY DEF without_task, ThreadRecord, Injections
<1> HIDE DEF w
<1>2. Apart(r, w)
  BY <1>1, SameQuiet DEF Apart, SameState, Blank, registered
<1>3. CASE ~thread_should_be_removed(r, k)
  BY <1>1, <1>2, <1>3 DEF removed, w, SameState
<1>4. CASE thread_should_be_removed(r, k) /\ is_blocked(r.state)
  <2> DEFINE p == transition(w, "REMOVE_THROW")
             q == notify_all(p)
  <2>1. /\ p \in ThreadRecord /\ p.state = "REMOVE_THROW" /\ p.wake = r.wake
        /\ p.is_cpu_alloc = r.is_cpu_alloc /\ Injections(p) = Injections(r)
    BY <1>1, TransitionType DEF States
  <2> HIDE DEF p
  <2>2. /\ q \in ThreadRecord /\ q.state = "REMOVE_THROW" /\ (q.wake = "idle" <=> r.wake = "idle")
        /\ q.is_cpu_alloc = r.is_cpu_alloc /\ Injections(q) = Injections(r)
    BY <2>1, NotifyType
  <2>3. removed(r, k) = q
    BY <1>4 DEF removed, w, p
  <2> HIDE DEF q
  <2>4. Apart(r, q)
    BY <1>4, <2>2, SameQuiet DEF Apart, Blank, registered
  <2> QED BY <1>4, <2>2, <2>3, <2>4 DEF Over
<1>5. CASE thread_should_be_removed(r, k) /\ ~is_blocked(r.state)
  <2> DEFINE q == erase(r)
  <2>1. q \in ThreadRecord /\ q.wake = r.wake /\ q.state = "UNKNOWN"
    BY EraseType
  <2>2. q.task_id = -1 /\ q.pool_task_ids = {} /\ Quiet(q)
    BY DEF erase, Unregistered, Quiet, no_oom
  <2>3. removed(r, k) = q
    BY <1>5 DEF removed
  <2> HIDE DEF q
  <2>4. Apart(r, q)
    BY <1>5, <2>1, <2>2 DEF Apart, Blank, registered
  <2> QED BY <1>5, <2>1, <2>2, <2>3, <2>4 DEF Over
<1> QED BY <1>3, <1>4, <1>5

-----------------------------------------------------------------------------
(* What an action leaves behind when it gives up the mutex.                *)

Listed(ttt, u, r) ==
  r.task_id >= 0 /\ r.state # "REMOVE_THROW" => u \in ttt[r.task_id]

\* TaskKnowsItsThreads of a locked state.
Knows(s) == \A u \in Threads : Listed(s.task_to_threads, u, s.threads[u])

\* Thread t has made s of the state in which it took the mutex.
Turn(s, t) ==
  /\ s \in LockedRecord
  /\ TotallyOrders(s.order)
  /\ Knows(s)
  /\ \A u \in Threads \ {t} : Apart(threads[u], s.threads[u])

(* The parts of the invariants that every action starts from.              *)
LEMMA StartOfCall ==
  ASSUME AdaptorInv, CallInv, NEW t \in Threads
  PROVE  /\ threads[t] \in ThreadRecord
         /\ stack[t] \in Seq(FrameRecord)
         /\ Fine(threads[t], stack[t])
         /\ threads[t].wake # "idle" => stack[t] # <<>> /\ Head(stack[t]).call # "allocate"
         /\ Locked.threads = threads
         /\ Turn(Locked, t)
         /\ Apart(threads[t], threads[t])
<1>1. \A u \in Threads : threads[u] \in ThreadRecord
  BY DEF AdaptorInv, TypeOK
<1>2. Locked \in LockedRecord /\ TotallyOrders(Locked.order)
  BY LockedSound DEF Sound
<1>3. Locked.threads = threads /\ Locked.task_to_threads = task_to_threads
  BY DEF Locked
<1>4. Knows(Locked)
  BY <1>3 DEF CallInv, TaskKnowsItsThreads, Knows, Listed
<1>5. Turn(Locked, t)
  BY <1>1, <1>2, <1>3, <1>4, ApartSame DEF Turn
<1> QED BY <1>1, <1>3, <1>5, ApartSame
     DEF AdaptorInv, TypeOK, CallInv, SleepersAreInCalls, asleep, idle

(* Shutting down: nobody can sleep in a state that does not ask for it.    *)
LEMMA ShutdownKept ==
  ASSUME AdaptorInv', adaptor' \in {"open", "crashed"} \/ \A t \in Threads : threads'[t].state \in Over
  PROVE  ShutdownReachesEveryone'
BY DEF ShutdownReachesEveryone, AdaptorInv, NoLostWakeup, Over, is_blocked

(* The new state, put together from its threads.                           *)
LEMMA Together ==
  ASSUME CallInv, AdaptorInv', NEW s, Unlock(s), Knows(s),
         \A u \in Threads : Fine(s.threads[u], stack'[u]) /\ Onward(threads[u], s.threads[u]),
         \/ UNCHANGED adaptor
         \/ adaptor' = "shutting_down" /\ \A u \in Threads : s.threads[u].state \in Over
  PROVE  CallStep
<1>1. threads' = s.threads /\ task_to_threads' = s.task_to_threads
  BY DEF Unlock
<1>2. TaskKnowsItsThreads'
  BY <1>1 DEF TaskKnowsItsThreads, Knows, Listed
<1>3. ShutdownReachesEveryone'
  <2>1. ASSUME UNCHANGED adaptor, adaptor \notin {"open", "crashed"}, NEW u \in Threads
        PROVE  s.threads[u].state \in Over
    <3>1. threads[u].state \in Over
      BY <2>1 DEF CallInv, ShutdownReachesEveryone, Over
    <3> QED BY <2>1, <3>1 DEF Onward
  <2> QED BY <1>1, <2>1, ShutdownKept
<1>4. \A u \in Threads : Fine(threads[u], stack[u])'
  BY <1>1
<1> QED BY <1>1, <1>2, <1>3, <1>4 DEF CallStep, CallInv, Onward

(* An action that leaves every stack as it is.                             *)
LEMMA UnlockProgress ==
  ASSUME AdaptorInv, CallInv, AdaptorInv', NEW s, Unlock(s), Knows(s),
         \A u \in Threads : Apart(threads[u], s.threads[u]) /\ stack'[u] = stack[u],
         \/ UNCHANGED adaptor
         \/ adaptor' = "shutting_down" /\ \A u \in Threads : s.threads[u].state \in Over
  PROVE  CallStep
<1>1. ASSUME NEW u \in Threads
      PROVE  Fine(s.threads[u], stack'[u]) /\ Onward(threads[u], s.threads[u])
  BY StartOfCall, ApartFine, ApartOnward
<1> QED BY <1>1, Together

(* An action of t that changes its own stack, returning, throwing, going   *)
(* to sleep or going on to allocate.                                       *)
LEMMA TurnProgress ==
  ASSUME AdaptorInv, CallInv, AdaptorInv', NEW t \in Threads, NEW s, Turn(s, t), Unlock(s),
         NEW st \in Seq(FrameRecord), stack' = [stack EXCEPT ![t] = st], UNCHANGED adaptor,
         Fine(s.threads[t], st), Onward(threads[t], s.threads[t])
  PROVE  CallStep
<1>1. ASSUME NEW u \in Threads
      PROVE  Fine(s.threads[u], stack'[u]) /\ Onward(threads[u], s.threads[u])
  <2>1. stack'[u] = IF u = t THEN st ELSE stack[u]
    BY DEF AdaptorInv, TypeOK
  <2>2. CASE u = t
    BY <2>1, <2>2
  <2>3. CASE u # t
    <3>1. Apart(threads[u], s.threads[u]) /\ stack'[u] = stack[u]
      BY <2>1, <2>3 DEF Turn
    <3> QED BY <3>1, StartOfCall, ApartFine, ApartOnward
  <2> QED BY <2>2, <2>3
<1> QED BY <1>1, Together DEF Turn

(* It leaves the call, or throws out of it.                                *)
LEMMA LeaveProgress ==
  ASSUME AdaptorInv, CallInv, AdaptorInv', NEW t \in Threads, NEW s, Turn(s, t),
         NEW st \in Seq(FrameRecord), Leave(s, t, st),
         Fine(s.threads[t], st), Onward(threads[t], s.threads[t])
  PROVE  CallStep
BY TurnProgress DEF Leave

(* The thread whose turn it is changes its own record.                     *)
LEMMA PutListed ==
  ASSUME NEW s, NEW t \in Threads, Turn(s, t), NEW r \in ThreadRecord,
         Listed(s.task_to_threads, t, r)
  PROVE  Turn(Put(s, t, r), t) /\ Put(s, t, r).threads[t] = r
<1> DEFINE s2 == Put(s, t, r)
<1>1. /\ s2 \in LockedRecord /\ s2.order = s.order
      /\ s2.task_to_threads = s.task_to_threads
      /\ s2.threads[t] = r
      /\ \A u \in Threads \ {t} : s2.threads[u] = s.threads[u]
  BY PutType DEF Turn
<1> HIDE DEF s2
<1>2. Knows(s2)
  BY <1>1 DEF Turn, Knows
<1> QED BY <1>1, <1>2 DEF Turn, s2

(* The same when its task and its removal stay as they were.               *)
LEMMA PutTurn ==
  ASSUME NEW s, NEW t \in Threads, Turn(s, t), NEW r \in ThreadRecord,
         r.task_id = s.threads[t].task_id,
         s.threads[t].state = "REMOVE_THROW" => r.state = "REMOVE_THROW"
  PROVE  Turn(Put(s, t, r), t) /\ Put(s, t, r).threads[t] = r
<1>1. Listed(s.task_to_threads, t, r)
  BY DEF Turn, Knows, Listed
<1> QED BY <1>1, PutListed

(* It goes to sleep.                                                       *)
LEMMA WaitProgress ==
  ASSUME AdaptorInv, CallInv, AdaptorInv', NEW t \in Threads, NEW s, Turn(s, t),
         is_blocked(s.threads[t].state),
         NEW f \in FrameRecord, NEW below \in Seq(FrameRecord), Wait(s, t, f, below),
         Fine([s.threads[t] EXCEPT !.wake = "waiting"], <<f>> \o below),
         Onward(threads[t], s.threads[t])
  PROVE  CallStep
<1> DEFINE r == [s.threads[t] EXCEPT !.wake = "waiting"]
<1>1. s.threads[t] \in ThreadRecord
  BY DEF Turn, LockedRecord
<1>2. r \in ThreadRecord /\ r.state = s.threads[t].state /\ r.task_id = s.threads[t].task_id
  BY <1>1 DEF ThreadRecord
<1>3. Unlock(Put(s, t, r)) /\ UNCHANGED adaptor /\ stack' = [stack EXCEPT ![t] = <<f>> \o below]
  BY DEF Wait
<1> HIDE DEF r
<1>4. r.state # "REMOVE_THROW" /\ s.threads[t].state # "REMOVE_THROW"
  BY <1>2 DEF is_blocked
<1>5. Turn(Put(s, t, r), t) /\ Put(s, t, r).threads[t] = r
  BY <1>2, <1>4, PutTurn
<1>6. <<f>> \o below \in Seq(FrameRecord)
  BY PushedFrames
<1>7. Fine(r, <<f>> \o below) /\ Onward(threads[t], r)
  BY <1>2 DEF r, Onward
<1> QED BY <1>3, <1>5, <1>6, <1>7, TurnProgress

(* It pokes others, or itself.                                             *)
LEMMA NudgedKnows ==
  ASSUME NEW s, Knows(s), NEW s2, Nudged(s, s2)
  PROVE  Knows(s2)
BY DEF Knows, Listed, Nudged, Poked, Pokes

(* Its turn goes on when others are poked.                                 *)
LEMMA NudgedTurn ==
  ASSUME AdaptorInv, NEW s, NEW t \in Threads, Turn(s, t), NEW s2, Nudged(s, s2)
  PROVE  Turn(s2, t) /\ (s2.threads[t] = s.threads[t] \/ Poked(s.threads[t], s2.threads[t]))
<1>1. \A u \in Threads : threads[u] \in ThreadRecord
  BY DEF AdaptorInv, TypeOK
<1>2. Knows(s2)
  BY NudgedKnows DEF Turn
<1>3. \A u \in Threads \ {t} : Apart(threads[u], s2.threads[u])
  BY <1>1, ApartPoked DEF Turn, Nudged
<1> QED BY <1>2, <1>3 DEF Turn, Nudged

-----------------------------------------------------------------------------
(* The thread itself, from the start of a call to where it allocates,      *)
(* throws or waits.                                                        *)

(* check_before_oom touches nothing but its counter.                       *)
LEMMA ThrownRecord ==
  ASSUME NEW r \in ThreadRecord, NEW st \in States
  PROVE  /\ check_before_oom(transition(r, st)) \in ThreadRecord
         /\ check_before_oom(transition(r, st)).state = st
         /\ check_before_oom(transition(r, st)).task_id = r.task_id
         /\ Quiet(r) => Quiet(check_before_oom(transition(r, st)))
<1> DEFINE p == transition(r, st)
<1>1. p \in ThreadRecord /\ p.state = st /\ p.task_id = r.task_id /\ Injections(p) = Injections(r)
  BY TransitionType
<1> HIDE DEF p
<1>2. check_before_oom(p) \in ThreadRecord /\ check_before_oom(p).state = st
  BY <1>1, CheckBeforeOomType
<1>3. check_before_oom(p).task_id = p.task_id /\ Injections(check_before_oom(p)) = Injections(p)
  BY <1>1 DEF check_before_oom, ThreadRecord, Injections
<1> QED BY <1>1, <1>2, <1>3, SameQuiet DEF p

(* The end of pre_alloc_core: a thread in RUNNING goes to ALLOC with the   *)
(* allocation on its stack.                                                *)
LEMMA BeginProgress ==
  ASSUME AdaptorInv, CallInv, AdaptorInv', NEW t \in Threads, NEW s, Turn(s, t),
         s.threads[t].state = threads[t].state,
         NEW f \in FrameRecord, ~f.recursive,
         NoInjections => Quiet(s.threads[t]) /\ (OnlyBlocking => f.blocking),
         s.threads[t].state # "RUNNING" => Fine(s.threads[t], <<>>),
         BeginAllocate(s, t, f, <<>>)
  PROVE  CallStep
<1> DEFINE r == s.threads[t]
           p == transition(r, "ALLOC")
           q == [p EXCEPT !.is_cpu_alloc = f.cpu]
           g == [f EXCEPT !.call = "allocate"]
           st == <<g>> \o <<>>
<1>0. r \in ThreadRecord /\ f.cpu \in BOOLEAN
  BY DEF Turn, LockedRecord, FrameRecord
<1>1. CASE r.state = "RUNNING"
  <2>1. p \in ThreadRecord /\ p.state = "ALLOC" /\ p.task_id = r.task_id /\ Injections(p) = Injections(r)
    BY <1>0, TransitionType DEF States
  <2> HIDE DEF p
  <2>2. /\ q \in ThreadRecord /\ q.state = "ALLOC" /\ q.task_id = r.task_id
        /\ q.is_cpu_alloc = f.cpu /\ Injections(q) = Injections(r)
    BY <1>0, <2>1 DEF ThreadRecord, Injections
  <2>3. g \in FrameRecord /\ g.call = "allocate" /\ ~g.recursive /\ g.cpu = f.cpu
          /\ g.blocking = f.blocking
    BY DEF FrameRecord
  <2>4. Leave(Put(s, t, q), t, st)
    BY <1>1 DEF BeginAllocate, p
  <2> HIDE DEF q, g
  <2>5. st \in Seq(FrameRecord) /\ st # <<>> /\ Len(st) = 1 /\ st[1] = g
    BY <2>3, OneFrame
  <2> HIDE DEF st
  <2>6. \A i \in 1 .. Len(st) : i = 1 /\ st[i] = g
    BY <2>5
  <2>7. Nested(q, st)
    BY <2>2, <2>3, <2>5, <2>6 DEF Nested
  <2>8. Framed(q, st) /\ Blank(q)
    BY <2>2, <2>3, <2>6, <2>7 DEF Framed, Proper, Blank, registered
  <2>9. NoInjections => Calm(q, st)
    BY <2>2, <2>3, <2>6, SameQuiet DEF Calm
  <2>10. Turn(Put(s, t, q), t) /\ Put(s, t, q).threads[t] = q
    BY <1>1, <2>2, PutTurn
  <2>11. Onward(threads[t], q)
    BY <1>1, <2>2 DEF Onward, Reach, Over
  <2> QED BY <2>4, <2>5, <2>8, <2>9, <2>10, <2>11, LeaveProgress DEF Fine
<1>2. CASE r.state # "RUNNING"
  <2>1. Leave(s, t, <<>>) /\ <<>> \in Seq(FrameRecord)
    BY <1>2 DEF BeginAllocate
  <2>2. Onward(threads[t], r)
    BY DEF Onward
  <2> QED BY <1>2, <2>1, <2>2, LeaveProgress
<1> QED BY <1>1, <1>2

(* The thread throws an OOM out of the wait, or its removal.               *)
LEMMA ThrowProgress ==
  ASSUME AdaptorInv, CallInv, AdaptorInv', NEW t \in Threads, NEW s, Turn(s, t),
         NEW st \in {"BUFN_WAIT", "RUNNING"}, registered(threads[t]),
         threads[t].state \notin Over,
         NoInjections => st \in Reach[threads[t].state],
         s.threads[t].state # "REMOVE_THROW",
         NoInjections => Quiet(s.threads[t]),
         Leave(Put(s, t, check_before_oom(transition(s.threads[t], st))), t, <<>>)
  PROVE  CallStep
<1> DEFINE q == check_before_oom(transition(s.threads[t], st))
<1>1. /\ q \in ThreadRecord /\ q.state = st /\ q.task_id = s.threads[t].task_id
      /\ Quiet(s.threads[t]) => Quiet(q)
  <2>1. s.threads[t] \in ThreadRecord /\ st \in States
    BY DEF Turn, LockedRecord, States
  <2> QED BY <2>1, ThrownRecord
<1> HIDE DEF q
<1>2. Fine(q, <<>>)
  BY <1>1, FineOutside DEF registered
<1>3. Turn(Put(s, t, q), t) /\ Put(s, t, q).threads[t] = q
  BY <1>1, PutTurn
<1>4. Onward(threads[t], q)
  BY <1>1 DEF Onward
<1>5. <<>> \in Seq(FrameRecord)
  OBVIOUS
<1> QED BY <1>2, <1>3, <1>4, <1>5, LeaveProgress DEF q

(* One pass of the loop of block_thread_until_ready.                       *)
LEMMA BlockProgress ==
  ASSUME AdaptorInv, CallInv, AdaptorInv', NEW t \in Threads, NEW s, Turn(s, t),
         s.threads[t].state = threads[t].state,
         s.threads[t].state \notin {"ALLOC", "ALLOC_FREE"},
         NEW f \in FrameRecord, Proper(f), f.call # "allocate",
         NoInjections => /\ Quiet(s.threads[t])
                         /\ s.threads[t].state = "BLOCKED" => f.call = "pre_alloc"
                         /\ OnlyBlocking => f.blocking,
         BlockUntilReady(s, t, f, <<>>)
  PROVE  CallStep
<1> DEFINE r == s.threads[t]
           n == transition(r, "BUFN")
           b == Put(s, t, n)
           c == check_and_update_for_bufn(b, {})
<1>1. r \in ThreadRecord /\ <<>> \in Seq(FrameRecord)
  BY DEF Turn, LockedRecord
<1>2. CASE is_blocked(r.state) /\ Wait(s, t, f, <<>>)
  <2> DEFINE q == [r EXCEPT !.wake = "waiting"]
  <2>1. q \in ThreadRecord /\ q.state = r.state /\ q.wake = "waiting"
          /\ Injections(q) = Injections(r)
    BY <1>1 DEF ThreadRecord, Injections
  <2> HIDE DEF q
  <2>2. Fine(q, <<f>> \o <<>>)
    BY <1>2, <2>1, FineWaiting, SameQuiet DEF is_blocked, registered
  <2>3. Onward(threads[t], r)
    BY DEF Onward
  <2> QED BY <1>1, <1>2, <2>2, <2>3, WaitProgress DEF q
<1>3. CASE r.state = "BUFN_THROW" /\ Leave(throw_retry_oom(s, t), t, <<>>)
  <2>1. registered(threads[t]) /\ threads[t].state \notin Over /\ r.state # "REMOVE_THROW"
          /\ "BUFN_WAIT" \in Reach[threads[t].state]
    BY <1>3 DEF registered, Reach, Over
  <2>2. Leave(Put(s, t, check_before_oom(transition(r, "BUFN_WAIT"))), t, <<>>)
    BY <1>3 DEF throw_retry_oom
  <2> QED BY <2>1, <2>2, ThrowProgress
<1>4. CASE r.state = "SPLIT_THROW" /\ Leave(throw_split_and_retry_oom(s, t), t, <<>>)
  <2>1. registered(threads[t]) /\ threads[t].state \notin Over /\ r.state # "REMOVE_THROW"
          /\ "RUNNING" \in Reach[threads[t].state]
    BY <1>4 DEF registered, Reach, Over
  <2>2. Leave(Put(s, t, check_before_oom(transition(r, "RUNNING"))), t, <<>>)
    BY <1>4 DEF throw_split_and_retry_oom
  <2> QED BY <2>1, <2>2, ThrowProgress
<1>5. CASE r.state = "REMOVE_THROW" /\ Leave(Put(s, t, erase(r)), t, <<>>)
  <2> DEFINE q == erase(r)
  <2>1. q \in ThreadRecord /\ q.state = "UNKNOWN"
    BY <1>1, EraseType
  <2>2. q.task_id = -1 /\ q.pool_task_ids = {} /\ Quiet(q)
    BY DEF erase, Unregistered, Quiet, no_oom
  <2> HIDE DEF q
  <2>3. Fine(q, <<>>)
    <3>1. 1 .. Len(<<>>) = {}
      OBVIOUS
    <3> QED BY <1>1, <2>1, <2>2, <3>1, FineUnknown DEF registered
  <2>4. Onward(threads[t], q)
    BY <1>5, <2>1 DEF Onward, Reach, Over
  <2>5. Turn(Put(s, t, q), t) /\ Put(s, t, q).threads[t] = q
    <3>1. Listed(s.task_to_threads, t, q)
      BY <2>2 DEF Listed
    <3> QED BY <2>1, <3>1, PutListed
  <2> QED BY <1>1, <1>5, <2>3, <2>4, <2>5, LeaveProgress DEF q
<1>6. CASE r.state = "RUNNING" /\ Leave(s, t, <<>>)
  <2>1. Fine(r, <<>>)
    BY <1>1, <1>6, FineOutside DEF registered
  <2>2. Onward(threads[t], r)
    BY DEF Onward
  <2> QED BY <1>1, <1>6, <2>1, <2>2, LeaveProgress
<1>7. CASE r.state = "RUNNING" /\ BeginAllocate(s, t, f, <<>>)
  <2>1. ~f.recursive
    BY DEF Proper, FrameRecord
  <2> QED BY <1>7, <2>1, BeginProgress
<1>8. ASSUME r.state = "BUFN_WAIT"
      PROVE  /\ Turn(c, t)
             /\ c.threads[t].state \in {"BUFN", "SPLIT_THROW", "RUNNING"}
             /\ Injections(c.threads[t]) = Injections(r)
  <2>1. n \in ThreadRecord /\ n.state = "BUFN" /\ n.task_id = r.task_id /\ Injections(n) = Injections(r)
    BY <1>1, TransitionType DEF States
  <2> HIDE DEF n
  <2>2. Turn(b, t) /\ b.threads[t] = n
    BY <1>8, <2>1, PutTurn
  <2> HIDE DEF b
  <2>3. Nudged(b, c)
    BY <2>2, CheckNudges DEF Turn
  <2> HIDE DEF c
  <2>4. Turn(c, t) /\ (c.threads[t] = n \/ Poked(n, c.threads[t]))
    BY <2>2, <2>3, NudgedTurn
  <2> QED BY <2>1, <2>4 DEF Poked, Pokes
<1> HIDE DEF c
<1>9. CASE r.state = "BUFN_WAIT" /\ Wait(c, t, f, <<>>) /\ is_blocked(c.threads[t].state)
  <2> DEFINE q == [c.threads[t] EXCEPT !.wake = "waiting"]
  <2>1. c.threads[t] \in ThreadRecord /\ c.threads[t].state = "BUFN"
    BY <1>8, <1>9 DEF Turn, LockedRecord, is_blocked
  <2>2. q \in ThreadRecord /\ q.state = "BUFN" /\ q.wake = "waiting" /\ Injections(q) = Injections(r)
    BY <1>8, <1>9, <2>1 DEF ThreadRecord, Injections
  <2> HIDE DEF q
  <2>3. Fine(q, <<f>> \o <<>>)
    BY <2>2, FineWaiting, SameQuiet DEF registered
  <2>4. Onward(threads[t], c.threads[t])
    BY <1>9, <2>1 DEF Onward, Reach, Over
  <2> QED BY <1>1, <1>8, <1>9, <2>3, <2>4, WaitProgress DEF q
<1>10. CASE r.state = "BUFN_WAIT" /\ Leave(throw_split_and_retry_oom(c, t), t, <<>>)
            /\ c.threads[t].state = "SPLIT_THROW"
  <2>1. registered(threads[t]) /\ threads[t].state \notin Over
          /\ "RUNNING" \in Reach[threads[t].state]
    BY <1>10 DEF registered, Reach, Over
  <2>2. Leave(Put(c, t, check_before_oom(transition(c.threads[t], "RUNNING"))), t, <<>>)
    BY <1>10 DEF throw_split_and_retry_oom
  <2>3. NoInjections => Quiet(c.threads[t])
    BY <1>8, <1>10, SameQuiet
  <2> QED BY <1>8, <1>10, <2>1, <2>2, <2>3, ThrowProgress
<1> QED BY <1>2, <1>3, <1>4, <1>5, <1>6, <1>7, <1>9, <1>10 DEF BlockUntilReady, c

(* Counting down the injected exceptions changes nothing else.             *)
LEMMA InjectionRecord ==
  ASSUME NEW r \in ThreadRecord, NEW is_for_cpu \in BOOLEAN
  PROVE  /\ after_injection(r, is_for_cpu) \in ThreadRecord
         /\ after_injection(r, is_for_cpu).state = r.state
         /\ after_injection(r, is_for_cpu).task_id = r.task_id
         /\ Quiet(r) => /\ Quiet(after_injection(r, is_for_cpu))
                        /\ ~injection_throws(r, is_for_cpu)
<1> DEFINE a == counted(r.retry_oom, is_for_cpu)
           b == counted(r.split_and_retry_oom, is_for_cpu)
           retried == [r EXCEPT !.retry_oom = a]
           failed_ == [retried EXCEPT !.cudf_exception_injected = @ - 1]
           split_ == [retried EXCEPT !.split_and_retry_oom = b]
<1>1. after_injection(r, is_for_cpu) =
        IF hits(r.retry_oom, is_for_cpu) THEN retried
        ELSE IF r.cudf_exception_injected > 0 THEN failed_ ELSE split_
  BY DEF after_injection
<1>2. \A q \in {retried, failed_, split_} : q.state = r.state /\ q.task_id = r.task_id
  BY DEF ThreadRecord
<1>3. ASSUME Quiet(r) PROVE ~injection_throws(r, is_for_cpu) /\ Quiet(split_)
  <2>1. \A oom \in OomState : oom.hit = 0 => counted(oom, is_for_cpu).hit = 0
    BY DEF OomState, counted
  <2>2. a.hit = 0 /\ b.hit = 0
    BY <1>3, <2>1 DEF Quiet, ThreadRecord
  <2> HIDE DEF a, b
  <2>3. Quiet(split_)
    BY <1>3, <2>2 DEF Quiet, ThreadRecord
  <2> QED BY <1>3, <2>3 DEF injection_throws, hits, Quiet
<1>4. Quiet(r) => ~(r.cudf_exception_injected > 0) /\ ~hits(r.retry_oom, is_for_cpu)
  BY <1>3 DEF injection_throws
<1> HIDE DEF retried, failed_, split_
<1> QED BY <1>1, <1>2, <1>3, <1>4, InjectionType

(* do_allocate, cpu_prealloc and the retries of both.                      *)
LEMMA PreAllocProgress ==
  ASSUME AdaptorInv, CallInv, AdaptorInv', NEW t \in Threads,
         NEW f \in FrameRecord, f.call = "pre_alloc", ~f.recursive,
         NEW below \in Seq(FrameRecord), \A i \in 1 .. Len(below) : Proper(below[i]),
         f.blocking \/ below = stack[t],
         registered(threads[t]) =>
           IF threads[t].state \in {"ALLOC", "ALLOC_FREE"}
           THEN Nested(threads[t], below) ELSE below = <<>>,
         NoInjections /\ OnlyBlocking =>
           f.blocking /\ \A i \in 1 .. Len(below) : below[i].blocking,
         pre_alloc_core(t, f, below)
  PROVE  CallStep
<1> DEFINE r == threads[t]
           q == after_injection(r, f.cpu)
           s == Put(Locked, t, q)
           g == [f EXCEPT !.call = "allocate"]
           h == [f EXCEPT !.call = "allocate", !.recursive = TRUE]
           nested == r.state \in {"ALLOC", "ALLOC_FREE"}
<1>1. /\ r \in ThreadRecord /\ Fine(r, stack[t]) /\ Locked.threads[t] = r
      /\ Turn(Locked, t) /\ Onward(r, r) /\ (r.wake # "idle" => stack[t] # <<>>)
  BY StartOfCall DEF Onward
<1>2. /\ f.cpu \in BOOLEAN /\ f.blocking \in BOOLEAN
      /\ g \in FrameRecord /\ g.call = "allocate" /\ ~g.recursive /\ g.blocking = f.blocking
      /\ h \in FrameRecord /\ h.call = "allocate" /\ h.recursive /\ h.blocking = f.blocking
      /\ h.cpu = f.cpu
  BY DEF FrameRecord
<1>3. /\ q \in ThreadRecord /\ q.state = r.state /\ q.task_id = r.task_id
      /\ Quiet(r) => Quiet(q) /\ ~injection_throws(r, f.cpu)
  BY <1>1, <1>2, InjectionRecord
<1>4. NoInjections => Quiet(r)
  BY <1>1 DEF Fine, Calm
<1> HIDE DEF q, g, h
<1>5. CASE ~registered(r) /\ Leave(Locked, t, <<g>> \o below)
  <2> DEFINE st == <<g>> \o below
  <2>1. st \in Seq(FrameRecord) /\ (\A i \in 1 .. Len(st) :
            st[i] = g \/ \E j \in 1 .. Len(below) : st[i] = below[j])
    <3>1. Len(st) = Len(below) + 1 /\ st[1] = g /\ Len(below) \in Nat /\ st \in Seq(FrameRecord)
          /\ \A i \in 2 .. Len(below) + 1 : i - 1 \in 1 .. Len(below) /\ st[i] = below[i - 1]
      BY <1>2, PushedFrames
    <3> HIDE DEF st
    <3>2. \A i \in 1 .. Len(st) : i = 1 \/ i \in 2 .. Len(below) + 1
      BY <3>1
    <3> QED BY <3>1, <3>2
  <2> HIDE DEF st
  <2>2. r.task_id = -1 /\ r.pool_task_ids = {}
    BY <1>1, <1>5 DEF Fine, Blank
  <2>3. Fine(r, st)
    <3>1. Proper(g)
      BY <1>2 DEF Proper
    <3>2. \A i \in 1 .. Len(st) : Proper(st[i])
      BY <2>1, <3>1
    <3>3. NoInjections /\ OnlyBlocking => \A i \in 1 .. Len(st) : st[i].blocking
      BY <1>2, <2>1
    <3> QED BY <1>1, <1>4, <1>5, <2>1, <2>2, <3>2, <3>3, FineUnknown
  <2> QED BY <1>1, <1>5, <2>1, <2>3, LeaveProgress DEF st
<1>6. CASE nested /\ Leave(Locked, t, below)
  <2>1. registered(r) /\ Nested(r, below)
    BY <1>6 DEF registered
  <2>2. Framed(r, below) /\ Blank(r)
    BY <1>6, <2>1 DEF Framed, Blank
  <2>3. NoInjections => Calm(r, below)
    BY <1>4, <1>6 DEF Calm
  <2> QED BY <1>1, <1>6, <2>2, <2>3, LeaveProgress DEF Fine
<1>7. CASE nested /\ ~(f.cpu /\ f.blocking) /\ Leave(Locked, t, <<h>> \o below)
  <2> DEFINE st == <<h>> \o below
  <2>0. Len(st) = Len(below) + 1 /\ st[1] = h /\ Len(below) \in Nat /\ st \in Seq(FrameRecord)
          /\ st # <<>>
          /\ \A i \in 2 .. Len(below) + 1 : i - 1 \in 1 .. Len(below) /\ st[i] = below[i - 1]
    BY <1>2, PushedFrames
  <2> HIDE DEF st
  <2>1. registered(r) /\ Nested(r, below)
    BY <1>7 DEF registered
  <2>2. Len(below) \in Nat \ {0}
    BY <2>1, PoppedFrames DEF Nested
  <2>3. \A i \in 1 .. Len(st) : i = 1 \/ (i \in 2 .. Len(below) + 1 /\ i \in Int)
    BY <2>0
  <2>4. Nested(r, st)
    <3>1. ASSUME NEW i \in 1 .. Len(st)
          PROVE  st[i].call = "allocate" /\ (st[i].recursive <=> i < Len(st))
      <4>1. CASE i = 1
        <5>1. 1 < Len(st)
          BY <2>0, <2>2
        <5> QED BY <1>2, <2>0, <4>1, <5>1
      <4>2. CASE i \in 2 .. Len(below) + 1
        <5>1. i - 1 \in 1 .. Len(below) /\ st[i] = below[i - 1]
          BY <2>0, <4>2
        <5>2. below[i - 1].call = "allocate" /\ (below[i - 1].recursive <=> i - 1 < Len(below))
          BY <2>1, <5>1 DEF Nested
        <5>3. i - 1 < Len(below) <=> i < Len(st)
          BY <2>0, <4>2
        <5> QED BY <5>1, <5>2, <5>3
      <4> QED BY <2>3, <4>1, <4>2
    <3>2. st[Len(st)] = below[Len(below)]
      BY <2>0, <2>2
    <3> QED BY <2>0, <2>1, <3>1, <3>2 DEF Nested
  <2>5. \A i \in 1 .. Len(st) : Proper(st[i])
    BY <1>2, <1>7, <2>0, <2>3 DEF Proper
  <2>6. Framed(r, st) /\ Blank(r)
    BY <1>7, <2>1, <2>4, <2>5 DEF Framed, Blank
  <2>7. NoInjections => Calm(r, st)
    BY <1>2, <1>4, <1>7, <2>0, <2>3 DEF Calm
  <2> QED BY <1>1, <1>7, <2>0, <2>6, <2>7, LeaveProgress DEF Fine, st
<1>8. registered(r) /\ ~nested => below = <<>>
  OBVIOUS
<1>9. Turn(s, t) /\ s.threads[t] = q
  BY <1>1, <1>3, PutTurn
<1> HIDE DEF s
<1>10. CASE registered(r) /\ ~nested /\ injection_throws(r, f.cpu) /\ Leave(s, t, below)
  <2>1. ~NoInjections
    BY <1>3, <1>4, <1>10
  <2>2. Fine(q, <<>>)
    BY <1>3, <1>10, <2>1, FineOutside DEF registered
  <2>3. Onward(r, q)
    BY <1>3 DEF Onward
  <2> QED BY <1>8, <1>9, <1>10, <2>2, <2>3, LeaveProgress
<1>11. CASE registered(r) /\ ~nested /\ f.blocking /\ BlockUntilReady(s, t, f, below)
  <2>1. Proper(f)
    BY <1>11 DEF Proper
  <2> QED BY <1>3, <1>4, <1>8, <1>9, <1>11, <2>1, BlockProgress
<1>12. CASE registered(r) /\ ~nested /\ ~f.blocking /\ BeginAllocate(s, t, f, below)
  <2>1. stack[t] = <<>> /\ below = <<>>
    BY <1>8, <1>12
  <2>2. NoInjections => /\ r.state \notin {"BLOCKED", "BUFN", "SPLIT_THROW", "REMOVE_THROW"}
                        /\ OnlyBlocking => r.state # "BUFN_THROW"
    BY <1>1, <2>1 DEF Fine, Calm, InPreAlloc
  <2>3. Fine(q, <<>>)
    BY <1>3, <1>4, <1>12, <2>2, FineOutside DEF registered
  <2> QED BY <1>3, <1>4, <1>8, <1>9, <1>12, <2>3, BeginProgress
<1> QED BY <1>5, <1>6, <1>7, <1>10, <1>11, <1>12 DEF pre_alloc_core, s, q, g, h

-----------------------------------------------------------------------------
(* The actions of one thread's own calls.                                  *)

(* A registered thread whose allocation is being worked on is in ALLOC,    *)
(* and the allocation that is tracked is the only one.                     *)
LEMMA AllocatingStack ==
  ASSUME AdaptorInv, CallInv, NEW t \in Threads, allocating(t)
  PROVE  /\ stack[t] # <<>> /\ Head(stack[t]) = stack[t][1]
         /\ registered(threads[t]) =>
              /\ threads[t].state \in {"ALLOC", "ALLOC_FREE"}
              /\ Nested(threads[t], stack[t])
              /\ Head(stack[t]).recursive <=> Tail(stack[t]) # <<>>
              /\ ~Head(stack[t]).recursive => threads[t].is_cpu_alloc = Head(stack[t]).cpu
<1> DEFINE st == stack[t]
           r == threads[t]
<1>1. st \in Seq(FrameRecord) /\ st # <<>> /\ Head(st).call = "allocate" /\ Framed(r, st)
  BY StartOfCall DEF allocating, idle, Fine
<1>2. /\ Head(st) = st[1] /\ Len(st) \in Nat \ {0} /\ (Tail(st) = <<>> <=> Len(st) = 1)
  BY <1>1, PoppedFrames
<1> HIDE DEF st
<1>3. ASSUME registered(r)
      PROVE  /\ r.state \in {"ALLOC", "ALLOC_FREE"} /\ Nested(r, st)
             /\ Head(st).recursive <=> Tail(st) # <<>>
             /\ ~Head(st).recursive => r.is_cpu_alloc = Head(st).cpu
  <2>1. r.state \in {"ALLOC", "ALLOC_FREE"} /\ Nested(r, st)
    BY <1>1, <1>2, <1>3 DEF Framed
  <2>2. st[1].recursive <=> 1 < Len(st)
    BY <1>2, <2>1 DEF Nested
  <2>3. 1 < Len(st) <=> Len(st) # 1
    BY <1>2
  <2> QED BY <1>2, <2>1, <2>2, <2>3 DEF Nested
<1> QED BY <1>1, <1>2, <1>3 DEF st

(* An unfinished allocation inside another one returns: the outer one goes *)
(* on.                                                                     *)
LEMMA PoppedFine ==
  ASSUME AdaptorInv, CallInv, NEW t \in Threads, allocating(t), ~tracked(t)
  PROVE  Tail(stack[t]) \in Seq(FrameRecord) /\ Fine(threads[t], Tail(stack[t]))
<1> DEFINE st == stack[t]
           r == threads[t]
<1>1. st \in Seq(FrameRecord) /\ st # <<>> /\ Fine(r, st) /\ r \in ThreadRecord
  BY StartOfCall, AllocatingStack
<1>2. /\ Tail(st) \in Seq(FrameRecord) /\ Len(st) \in Nat \ {0} /\ Len(Tail(st)) = Len(st) - 1
      /\ \A i \in 1 .. Len(st) - 1 : i + 1 \in 1 .. Len(st) /\ Tail(st)[i] = st[i + 1]
  BY <1>1, PoppedFrames
<1>3. registered(r) =>
        r.state \in {"ALLOC", "ALLOC_FREE"} /\ Nested(r, st) /\ Tail(st) # <<>>
  BY AllocatingStack DEF tracked
<1> HIDE DEF st
<1>4. ASSUME registered(r) PROVE Nested(r, Tail(st))
  <2>1. Nested(r, st) /\ Tail(st) # <<>>
    BY <1>3, <1>4
  <2>2. ASSUME NEW i \in 1 .. Len(Tail(st))
        PROVE  Tail(st)[i].call = "allocate" /\ (Tail(st)[i].recursive <=> i < Len(Tail(st)))
    <3>1. i + 1 \in 1 .. Len(st) /\ Tail(st)[i] = st[i + 1]
      BY <1>2
    <3>2. i + 1 < Len(st) <=> i < Len(Tail(st))
      BY <1>2
    <3> QED BY <2>1, <3>1, <3>2 DEF Nested
  <2>3. Len(Tail(st)) \in 1 .. Len(st) - 1
    <3>1. Len(Tail(st)) \in Nat \ {0}
      BY <1>2, <2>1, PoppedFrames
    <3> QED BY <1>2, <3>1
  <2>4. Tail(st)[Len(Tail(st))] = st[Len(st)]
    BY <1>2, <2>3
  <2> QED BY <2>1, <2>2, <2>4 DEF Nested
<1>5. Framed(r, Tail(st))
  <2>1. \A i \in 1 .. Len(Tail(st)) : Proper(Tail(st)[i])
    BY <1>1, <1>2 DEF Fine, Framed
  <2> QED BY <1>3, <1>4, <2>1 DEF Framed
<1>6. ASSUME NoInjections PROVE Calm(r, Tail(st))
  <2>1. Calm(r, st)
    BY <1>1, <1>6 DEF Fine
  <2>2. OnlyBlocking => \A i \in 1 .. Len(Tail(st)) : Tail(st)[i].blocking
    BY <1>2, <2>1 DEF Calm
  <2>3. r.state \in {"UNKNOWN", "ALLOC", "ALLOC_FREE"}
    BY <1>3 DEF registered
  <2> QED BY <2>1, <2>2, <2>3 DEF Calm
<1> QED BY <1>1, <1>2, <1>5, <1>6 DEF Fine, st

(* The wrapped resource returned memory.                                   *)
LEMMA SuccessProgress ==
  ASSUME AdaptorInv, CallInv, AdaptorInv', NEW t \in Threads, post_alloc_success(t)
  PROVE  CallStep
<1> DEFINE r == threads[t]
           p == transition(r, "RUNNING")
           q == [p EXCEPT !.is_cpu_alloc = FALSE, !.is_retry_alloc_before_bufn = FALSE]
           cpu == Head(stack[t]).cpu
           s == Put(Locked, t, q)
           s2 == wake_next_highest_priority_blocked(s, cpu)
<1>1. allocating(t)
  BY DEF post_alloc_success
<1>2. /\ r \in ThreadRecord /\ Fine(r, stack[t]) /\ Turn(Locked, t) /\ Locked.threads = threads
      /\ stack[t] \in Seq(FrameRecord) /\ stack[t] # <<>>
  BY <1>1, StartOfCall, AllocatingStack
<1>3. cpu \in BOOLEAN
  BY <1>2, PoppedFrames DEF FrameRecord
<1>4. CASE ~tracked(t)
  <2>1. Leave(Locked, t, Tail(stack[t]))
    BY <1>4 DEF post_alloc_success
  <2>2. Onward(threads[t], Locked.threads[t])
    BY <1>2 DEF Onward
  <2> QED BY <1>1, <1>2, <1>4, <2>1, <2>2, PoppedFine, LeaveProgress
<1>5. CASE tracked(t)
  <2>1. p \in ThreadRecord /\ p.state = "RUNNING" /\ p.task_id = r.task_id /\ Injections(p) = Injections(r)
    BY <1>2, TransitionType DEF States
  <2> HIDE DEF p
  <2>2. q \in ThreadRecord /\ q.state = "RUNNING" /\ q.task_id = r.task_id /\ Injections(q) = Injections(r)
    BY <2>1 DEF ThreadRecord, Injections
  <2>3. r.state \in {"ALLOC", "ALLOC_FREE"} /\ Tail(stack[t]) = <<>>
    BY <1>1, <1>5, AllocatingStack DEF tracked
  <2>4. Leave(s2, t, <<>>)
    BY <1>5, <2>3 DEF post_alloc_success, s2, s, q, p, cpu
  <2> HIDE DEF q, cpu
  <2>5. Turn(s, t) /\ s.threads[t] = q
    BY <1>2, <2>2, <2>3, PutTurn
  <2> HIDE DEF s
  <2>6. Nudged(s, s2)
    BY <1>3, <2>5, WakeNextNudges DEF Turn
  <2> HIDE DEF s2
  <2>7. Turn(s2, t) /\ s2.threads[t] = q
    BY <2>2, <2>5, <2>6, NudgedTurn DEF Poked, Pokes
  <2>8. Fine(q, <<>>)
    <3>1. NoInjections => Quiet(q)
      BY <1>2, <2>2, SameQuiet DEF Fine, Calm
    <3> QED BY <2>2, <3>1, FineOutside DEF registered
  <2>9. Onward(threads[t], q)
    BY <2>2, <2>3 DEF Onward, Reach, Over
  <2>10. <<>> \in Seq(FrameRecord)
    OBVIOUS
  <2> QED BY <2>4, <2>7, <2>8, <2>9, <2>10, LeaveProgress
<1> QED BY <1>4, <1>5

(* The record of a thread whose outermost allocation failed.               *)
LEMMA FailedRecord ==
  ASSUME NEW r \in ThreadRecord, r.state \in {"ALLOC", "ALLOC_FREE"}, NEW is_oom \in BOOLEAN,
         NEW blocking \in BOOLEAN, r.wake = "idle"
  PROVE  LET q == failed(r, is_oom, blocking)
         IN  /\ q \in ThreadRecord /\ q.task_id = r.task_id /\ Injections(q) = Injections(r)
             /\ q.state \in {"RUNNING", "BUFN_THROW", "BLOCKED"}
             /\ q.state = "BLOCKED" => is_oom /\ blocking
             /\ q.state = "BUFN_THROW" => is_oom
             /\ q.state # "RUNNING" => r.state = "ALLOC"
<1> DEFINE p == transition(r, "BUFN_THROW")
           w == [p EXCEPT !.is_retry_alloc_before_bufn = FALSE]
<1>1. \A st \in States : /\ transition(r, st) \in ThreadRecord /\ transition(r, st).state = st
                         /\ transition(r, st).task_id = r.task_id
                         /\ Injections(transition(r, st)) = Injections(r)
  BY TransitionType
<1>2. p \in ThreadRecord /\ p.state = "BUFN_THROW" /\ p.task_id = r.task_id /\ Injections(p) = Injections(r)
  BY <1>1 DEF States
<1> HIDE DEF p
<1>3. w \in ThreadRecord /\ w.state = "BUFN_THROW" /\ w.task_id = r.task_id /\ Injections(w) = Injections(r)
  BY <1>2 DEF ThreadRecord, Injections
<1> HIDE DEF w
<1>4. /\ notify_all(w) \in ThreadRecord /\ notify_all(w).state = "BUFN_THROW"
      /\ notify_all(w).task_id = r.task_id /\ Injections(notify_all(w)) = Injections(r)
  BY <1>3, NotifyType
<1>5. failed(r, is_oom, blocking) =
        IF r.state = "ALLOC_FREE" THEN transition(r, "RUNNING")
        ELSE IF is_oom /\ r.is_retry_alloc_before_bufn THEN notify_all(w)
        ELSE IF is_oom /\ blocking THEN transition(r, "BLOCKED")
        ELSE transition(r, "RUNNING")
  BY DEF failed, w, p
<1> QED BY <1>1, <1>4, <1>5 DEF States

(* The wrapped resource failed.                                            *)
LEMMA FailedProgress ==
  ASSUME AdaptorInv, CallInv, AdaptorInv', NEW t \in Threads, NEW is_oom \in BOOLEAN,
         post_alloc_failed(t, is_oom)
  PROVE  CallStep
<1> DEFINE r == threads[t]
           f == Head(stack[t])
           g == [f EXCEPT !.call = "pre_alloc"]
           q == failed(r, is_oom, f.blocking)
           s == IF tracked(t) THEN Put(Locked, t, q) ELSE Locked
           c == check_and_update_for_bufn(s, {})
           again == is_oom /\ f.blocking /\ (f.cpu \/ tracked(t))
<1>1. allocating(t) /\ Leave(c, t, IF again THEN <<g>> \o Tail(stack[t]) ELSE Tail(stack[t]))
  BY DEF post_alloc_failed
<1>2. /\ r \in ThreadRecord /\ Fine(r, stack[t]) /\ Turn(Locked, t) /\ Locked.threads = threads
      /\ stack[t] \in Seq(FrameRecord) /\ stack[t] # <<>> /\ f = stack[t][1]
      /\ r.wake = "idle"
  <2>1. f.call = "allocate"
    BY <1>1 DEF allocating
  <2> QED BY <1>1, <2>1, StartOfCall, AllocatingStack DEF ThreadRecord
<1>3. /\ f \in FrameRecord /\ Tail(stack[t]) \in Seq(FrameRecord) /\ Len(stack[t]) \in Nat \ {0}
  BY <1>2, PoppedFrames
<1>4. /\ g \in FrameRecord /\ g.call = "pre_alloc" /\ g.blocking = f.blocking
      /\ g.recursive = f.recursive /\ f.blocking \in BOOLEAN /\ f.cpu \in BOOLEAN
  BY <1>3 DEF FrameRecord
<1>5. Proper(f) /\ (NoInjections => Quiet(r) /\ (OnlyBlocking => f.blocking))
  <2>1. 1 \in 1 .. Len(stack[t])
    BY <1>3
  <2> QED BY <1>2, <2>1 DEF Fine, Framed, Calm
<1> HIDE DEF g, f
<1>6. CASE tracked(t)
  <2>1. r.state \in {"ALLOC", "ALLOC_FREE"} /\ Tail(stack[t]) = <<>> /\ ~f.recursive
    BY <1>1, <1>6, AllocatingStack DEF tracked, f
  <2>2. /\ q \in ThreadRecord /\ q.task_id = r.task_id /\ Injections(q) = Injections(r)
        /\ q.state \in {"RUNNING", "BUFN_THROW", "BLOCKED"}
        /\ q.state = "BLOCKED" => is_oom /\ f.blocking
        /\ q.state = "BUFN_THROW" => is_oom
        /\ q.state # "RUNNING" => r.state = "ALLOC"
    BY <1>2, <1>4, <2>1, FailedRecord
  <2> HIDE DEF q
  <2>3. Turn(s, t) /\ s.threads[t] = q
    BY <1>2, <1>6, <2>1, <2>2, PutTurn
  <2> HIDE DEF s
  <2>4. Nudged(s, c)
    BY <2>3, CheckNudges DEF Turn
  <2> DEFINE z == c.threads[t]
  <2> HIDE DEF c
  <2>5. Turn(c, t) /\ (z = q \/ Poked(q, z))
    BY <2>3, <2>4, NudgedTurn
  <2>6. z \in ThreadRecord
    BY <2>5 DEF Turn, LockedRecord
  <2> HIDE DEF z
  <2>7. /\ z.state \in {"RUNNING", "BUFN_THROW", "BLOCKED"} /\ Injections(z) = Injections(r)
        /\ z.state = "BLOCKED" => is_oom /\ f.blocking
        /\ z.state = "BUFN_THROW" => is_oom
        /\ z.state # "RUNNING" => r.state = "ALLOC"
    BY <2>2, <2>5 DEF Poked, Pokes
  <2>8. Onward(threads[t], z)
    BY <2>1, <2>7 DEF Onward, Reach, Over
  <2>9. NoInjections => Quiet(z)
    BY <1>5, <2>7, SameQuiet
  <2>10. CASE again
    <3>1. Proper(g)
      BY <1>4, <2>1, <2>10 DEF Proper
    <3>2. Fine(z, <<g>> \o <<>>)
      BY <1>4, <1>5, <2>6, <2>7, <2>9, <3>1, FineWaiting DEF registered
    <3>3. <<g>> \o <<>> \in Seq(FrameRecord)
      BY <1>4, OneFrame
    <3> QED BY <1>1, <2>1, <2>5, <2>8, <2>10, <3>2, <3>3, LeaveProgress DEF z
  <2>11. CASE ~again
    <3>1. z.state # "BLOCKED" /\ (NoInjections /\ OnlyBlocking => z.state # "BUFN_THROW")
      BY <1>5, <1>6, <2>7, <2>11
    <3>2. Fine(z, <<>>)
      BY <2>6, <2>7, <2>9, <3>1, FineOutside DEF registered
    <3>3. <<>> \in Seq(FrameRecord)
      OBVIOUS
    <3> QED BY <1>1, <2>1, <2>5, <2>8, <2>11, <3>2, <3>3, LeaveProgress DEF z
  <2> QED BY <2>10, <2>11
<1>7. CASE ~tracked(t)
  <2>1. s = Locked
    BY <1>7
  <2> HIDE DEF s
  <2>2. Nudged(Locked, c)
    BY <1>2, <2>1, CheckNudges DEF Turn
  <2> DEFINE z == c.threads[t]
  <2> HIDE DEF c
  <2>3. Turn(c, t) /\ (z = r \/ Poked(r, z))
    BY <1>2, <2>2, NudgedTurn
  <2>4. r.state \in {"UNKNOWN", "ALLOC", "ALLOC_FREE"}
    BY <1>1, AllocatingStack DEF registered
  <2>5. z = r
    BY <2>3, <2>4 DEF Poked, Pokes
  <2>6. Fine(r, Tail(stack[t]))
    BY <1>1, <1>7, PoppedFine
  <2>7. Onward(threads[t], z)
    BY <2>5 DEF Onward
  <2>8. CASE ~again
    BY <1>1, <1>3, <2>3, <2>5, <2>6, <2>7, <2>8, LeaveProgress
  <2>9. CASE again
    <3>1. ~f.recursive /\ f.cpu /\ f.blocking
      BY <1>5, <1>7, <2>9 DEF Proper
    <3>2. ~registered(r)
      BY <1>7, <3>1 DEF tracked, f
    <3> DEFINE st == <<g>> \o Tail(stack[t])
    <3>3. /\ st \in Seq(FrameRecord) /\ Len(st) = Len(Tail(stack[t])) + 1 /\ st[1] = g
          /\ Len(Tail(stack[t])) \in Nat
          /\ \A i \in 2 .. Len(Tail(stack[t])) + 1 :
               i - 1 \in 1 .. Len(Tail(stack[t])) /\ st[i] = Tail(stack[t])[i - 1]
      BY <1>3, <1>4, PushedFrames
    <3> HIDE DEF st
    <3>4. \A i \in 1 .. Len(st) : i = 1 \/ i \in 2 .. Len(Tail(stack[t])) + 1
      BY <3>3
    <3>5. Proper(g)
      BY <1>4, <3>1 DEF Proper
    <3>6. \A i \in 1 .. Len(st) : Proper(st[i])
      BY <2>6, <3>3, <3>4, <3>5 DEF Fine, Framed
    <3>7. NoInjections /\ OnlyBlocking => \A i \in 1 .. Len(st) : st[i].blocking
      BY <1>4, <2>6, <3>1, <3>3, <3>4 DEF Fine, Calm
    <3>8. r.task_id = -1 /\ r.pool_task_ids = {}
      BY <1>2, <3>2 DEF Fine, Blank
    <3>9. Fine(z, st)
      BY <1>2, <1>5, <2>5, <3>2, <3>3, <3>6, <3>7, <3>8, FineUnknown
    <3> QED BY <1>1, <2>3, <2>7, <2>9, <3>3, <3>9, LeaveProgress DEF z, st
  <2> QED BY <2>8, <2>9
<1> QED BY <1>6, <1>7

(* A new allocation, and the next try of a failed one.                     *)
LEMMA AllocProgress ==
  ASSUME AdaptorInv, CallInv, AdaptorInv', NEW t \in Threads,
         (\E kind \in AllocKinds : Alloc(t, kind[1], kind[2])) \/ RetryAlloc(t)
  PROVE  CallStep
<1> DEFINE r == threads[t]
           st == stack[t]
<1>1. /\ r \in ThreadRecord /\ Fine(r, st) /\ st \in Seq(FrameRecord)
      /\ \A i \in 1 .. Len(st) : Proper(st[i])
      /\ NoInjections /\ OnlyBlocking => \A i \in 1 .. Len(st) : st[i].blocking
  BY StartOfCall DEF Fine, Framed, Calm
<1>2. ASSUME NEW kind \in AllocKinds, Alloc(t, kind[1], kind[2]) PROVE CallStep
  <2> DEFINE f == Frame("pre_alloc", kind[1], kind[2], FALSE)
  <2>1. f \in FrameRecord /\ f.call = "pre_alloc" /\ ~f.recursive /\ f.blocking = kind[2]
    BY InputsAssumption DEF Frame, FrameRecord
  <2>2. pre_alloc_core(t, f, st) /\ (idle(t) \/ allocating(t))
    BY <1>2 DEF Alloc
  <2> HIDE DEF f
  <2>3. registered(r) =>
          IF r.state \in {"ALLOC", "ALLOC_FREE"} THEN Nested(r, st) ELSE st = <<>>
    <3>1. CASE idle(t)
      BY <1>1, <3>1 DEF Fine, Framed, idle
    <3>2. CASE allocating(t)
      BY <3>2, AllocatingStack
    <3> QED BY <2>2, <3>1, <3>2
  <2>4. OnlyBlocking => kind[2]
    BY DEF OnlyBlocking
  <2> QED BY <1>1, <2>1, <2>2, <2>3, <2>4, PreAllocProgress
<1>3. ASSUME RetryAlloc(t) PROVE CallStep
  <2> DEFINE f == Head(st)
  <2>1. st # <<>> /\ f.call = "pre_alloc" /\ pre_alloc_core(t, f, Tail(st))
    BY <1>3 DEF RetryAlloc, idle
  <2>2. /\ f = st[1] /\ f \in FrameRecord /\ Tail(st) \in Seq(FrameRecord)
        /\ Len(st) \in Nat \ {0} /\ Len(Tail(st)) = Len(st) - 1
        /\ Tail(st) = <<>> <=> Len(st) = 1
        /\ \A i \in 1 .. Len(st) - 1 : i + 1 \in 1 .. Len(st) /\ Tail(st)[i] = st[i + 1]
    BY <1>1, <2>1, PoppedFrames
  <2> HIDE DEF f, st
  <2>3. 1 \in 1 .. Len(st)
    BY <2>2
  <2>4. Proper(f) /\ f.recursive \in BOOLEAN
    BY <1>1, <2>2, <2>3 DEF FrameRecord
  <2>5. f.blocking /\ ~f.recursive
    BY <2>1, <2>4 DEF Proper
  <2>6. registered(r) => r.state \notin {"ALLOC", "ALLOC_FREE"} /\ Tail(st) = <<>>
    BY <1>1, <2>1, <2>2, <2>3 DEF Fine, Framed, Nested
  <2>7. \A i \in 1 .. Len(Tail(st)) : Proper(Tail(st)[i])
    BY <1>1, <2>2
  <2>8. NoInjections /\ OnlyBlocking => \A i \in 1 .. Len(Tail(st)) : Tail(st)[i].blocking
    BY <1>1, <2>2
  <2> QED BY <2>1, <2>2, <2>5, <2>6, <2>7, <2>8, PreAllocProgress
<1> QED BY <1>2, <1>3

(* blockThreadUntilReady, and waking up in it or in an allocation.         *)
LEMMA BlockCallProgress ==
  ASSUME AdaptorInv, CallInv, AdaptorInv', NEW t \in Threads,
         block_thread_until_ready(t) \/ WakeUp(t)
  PROVE  CallStep
<1> DEFINE r == threads[t]
           st == stack[t]
<1>1. /\ r \in ThreadRecord /\ Fine(r, st) /\ st \in Seq(FrameRecord)
      /\ r.wake # "idle" => st # <<>> /\ Head(st).call # "allocate"
      /\ Locked.threads = threads /\ Turn(Locked, t)
  BY StartOfCall
<1>2. CASE block_thread_until_ready(t)
  <2> DEFINE f == Frame("ready", FALSE, TRUE, FALSE)
  <2>1. f \in FrameRecord /\ f.call = "ready" /\ Proper(f) /\ f.blocking
    BY DEF Frame, FrameRecord, Proper
  <2>2. st = <<>> /\ BlockUntilReady(Locked, t, f, <<>>)
    BY <1>2 DEF block_thread_until_ready, idle
  <2> HIDE DEF f
  <2>3. r.state \notin {"ALLOC", "ALLOC_FREE"}
    BY <1>1, <2>2 DEF Fine, Framed, Nested, registered
  <2>4. NoInjections => Quiet(r) /\ r.state # "BLOCKED"
    BY <1>1, <2>2 DEF Fine, Calm, InPreAlloc
  <2> QED BY <1>1, <2>1, <2>2, <2>3, <2>4, BlockProgress
<1>3. CASE WakeUp(t)
  <2> DEFINE f == Head(st)
             q == [r EXCEPT !.wake = "idle"]
  <2>1. r.wake # "idle" /\ registered(r) /\ BlockUntilReady(Put(Locked, t, q), t, f, Tail(st))
    BY <1>3 DEF WakeUp, Woken
  <2>2. st # <<>> /\ f.call # "allocate"
    BY <1>1, <2>1
  <2>3. /\ f = st[1] /\ f \in FrameRecord /\ Len(st) \in Nat \ {0}
        /\ Tail(st) = <<>> <=> Len(st) = 1
    BY <1>1, <2>2, PoppedFrames
  <2>4. q \in ThreadRecord /\ q.state = r.state /\ q.task_id = r.task_id /\ Injections(q) = Injections(r)
    BY <1>1 DEF ThreadRecord, Injections
  <2> HIDE DEF f, st, q
  <2>5. 1 \in 1 .. Len(st)
    BY <2>3
  <2>6. r.state \notin {"ALLOC", "ALLOC_FREE"} /\ Tail(st) = <<>> /\ Proper(f)
    BY <1>1, <2>1, <2>2, <2>3, <2>5 DEF Fine, Framed, Nested
  <2>7. NoInjections => /\ Quiet(q)
                        /\ r.state = "BLOCKED" => f.call = "pre_alloc"
                        /\ OnlyBlocking => f.blocking
    BY <1>1, <2>3, <2>4, <2>5, SameQuiet DEF Fine, Calm, InPreAlloc, f
  <2>8. Turn(Put(Locked, t, q), t) /\ Put(Locked, t, q).threads[t] = q
    BY <1>1, <2>4, PutTurn
  <2> QED BY <2>1, <2>2, <2>3, <2>4, <2>6, <2>7, <2>8, BlockProgress
<1> QED BY <1>2, <1>3

(* Waking up after the record was erased, whatever the outcome.            *)
LEMMA ErasedProgress ==
  ASSUME AdaptorInv, CallInv, AdaptorInv', NEW t \in Threads, WakeUpErased(t)
  PROVE  CallStep
<1> DEFINE r == threads[t]
           st == stack[t]
           f == Head(st)
           q == [r EXCEPT !.wake = "idle"]
           s == Put(Locked, t, q)
           g == [f EXCEPT !.call = "allocate"]
<1>1. /\ r \in ThreadRecord /\ Fine(r, st) /\ st \in Seq(FrameRecord) /\ st # <<>>
      /\ Locked.threads = threads /\ Turn(Locked, t) /\ ~registered(r)
  BY StartOfCall DEF WakeUpErased
<1>2. /\ f = st[1] /\ f \in FrameRecord /\ Len(st) \in Nat \ {0} /\ Tail(st) \in Seq(FrameRecord)
      /\ Len(Tail(st)) = Len(st) - 1
      /\ \A i \in 1 .. Len(st) - 1 : i + 1 \in 1 .. Len(st) /\ Tail(st)[i] = st[i + 1]
  BY <1>1, PoppedFrames
<1>3. CASE adaptor' = "crashed" /\ UNCHANGED <<threads, task_to_threads, order, known_threads, stack>>
  BY <1>3 DEF CallStep, CallInv, TaskKnowsItsThreads, ShutdownReachesEveryone
<1>4. /\ q \in ThreadRecord /\ ~registered(q) /\ q.task_id = -1 /\ q.pool_task_ids = {}
      /\ NoInjections => Quiet(q)
  BY <1>1 DEF ThreadRecord, registered, Fine, Blank, Calm, Quiet
<1> HIDE DEF q, st, g
<1>5. Turn(s, t) /\ s.threads[t] = q
  <2>1. Listed(Locked.task_to_threads, t, q)
    BY <1>4 DEF Listed
  <2> QED BY <1>1, <1>4, <2>1, PutListed
<1> HIDE DEF s
<1>6. Onward(threads[t], q)
  BY <1>1, <1>4 DEF Onward, registered, Over
<1>7. /\ \A i \in 1 .. Len(Tail(st)) : Proper(Tail(st)[i])
      /\ NoInjections /\ OnlyBlocking => \A i \in 1 .. Len(Tail(st)) : Tail(st)[i].blocking
  BY <1>1, <1>2 DEF Fine, Framed, Calm
<1>8. CASE Leave(s, t, Tail(st))
  <2>1. Fine(q, Tail(st))
    BY <1>2, <1>4, <1>7, FineUnknown
  <2> QED BY <1>2, <1>5, <1>6, <1>8, <2>1, LeaveProgress
<1>9. CASE f.call = "pre_alloc" /\ Leave(s, t, <<g>> \o Tail(st))
  <2>1. /\ g \in FrameRecord /\ g.call = "allocate" /\ g.recursive = f.recursive
        /\ g.blocking = f.blocking /\ f.recursive \in BOOLEAN
    BY <1>2 DEF FrameRecord, g
  <2>2. 1 \in 1 .. Len(st)
    BY <1>2
  <2>3. Proper(f) /\ (NoInjections /\ OnlyBlocking => f.blocking)
    BY <1>1, <1>2, <2>2 DEF Fine, Framed, Calm
  <2>4. Proper(g) /\ (NoInjections /\ OnlyBlocking => g.blocking)
    BY <1>9, <2>1, <2>3 DEF Proper
  <2> DEFINE z == <<g>> \o Tail(st)
  <2>5. /\ z \in Seq(FrameRecord) /\ Len(z) = Len(Tail(st)) + 1 /\ z[1] = g
        /\ Len(Tail(st)) \in Nat
        /\ \A i \in 2 .. Len(Tail(st)) + 1 : i - 1 \in 1 .. Len(Tail(st)) /\ z[i] = Tail(st)[i - 1]
    BY <1>2, <2>1, PushedFrames
  <2> HIDE DEF z
  <2>6. \A i \in 1 .. Len(z) : i = 1 \/ i \in 2 .. Len(Tail(st)) + 1
    BY <2>5
  <2>7. \A i \in 1 .. Len(z) : Proper(z[i])
    BY <1>7, <2>4, <2>5, <2>6
  <2>8. NoInjections /\ OnlyBlocking => \A i \in 1 .. Len(z) : z[i].blocking
    BY <1>7, <2>4, <2>5, <2>6
  <2>9. Fine(q, z)
    BY <1>4, <2>5, <2>7, <2>8, FineUnknown
  <2> QED BY <1>5, <1>6, <1>9, <2>5, <2>9, LeaveProgress DEF z
<1> QED BY <1>3, <1>8, <1>9 DEF WakeUpErased, Woken, s, q, st, f, g

-----------------------------------------------------------------------------
(* Actions that leave every stack as it is.                                *)

(* A free of memory of either kind.                                        *)
LEMMA DeallocProgress ==
  ASSUME AdaptorInv, CallInv, AdaptorInv', NEW t \in Threads, NEW is_for_cpu \in BOOLEAN,
         dealloc_core(t, is_for_cpu)
  PROVE  CallStep
<1> DEFINE told(u) == IF u # t /\ threads[u].state = "ALLOC"
                           /\ threads[u].is_cpu_alloc = is_for_cpu
                      THEN transition(threads[u], "ALLOC_FREE") ELSE threads[u]
           s == [Locked EXCEPT !.threads = [u \in Threads |-> told(u)]]
           s2 == wake_next_highest_priority_blocked(s, is_for_cpu)
<1>1. Turn(Locked, t) /\ Locked.threads = threads /\ \A u \in Threads : threads[u] \in ThreadRecord
  BY StartOfCall
<1>2. ASSUME NEW u \in Threads
      PROVE  /\ Apart(threads[u], told(u))
             /\ told(u).task_id = threads[u].task_id
             /\ told(u).state = threads[u].state \/ threads[u].state = "ALLOC"
  <2>1. CASE told(u) = threads[u]
    BY <1>1, <2>1, ApartSame
  <2>2. CASE threads[u].state = "ALLOC" /\ told(u) = transition(threads[u], "ALLOC_FREE")
    <3> DEFINE q == transition(threads[u], "ALLOC_FREE")
    <3>1. /\ q \in ThreadRecord /\ q.state = "ALLOC_FREE" /\ q.wake = threads[u].wake
          /\ q.task_id = threads[u].task_id /\ q.is_cpu_alloc = threads[u].is_cpu_alloc
          /\ Injections(q) = Injections(threads[u])
      BY <1>1, TransitionType DEF States
    <3> HIDE DEF q
    <3>2. Apart(threads[u], q)
      BY <2>2, <3>1, SameQuiet DEF Apart, Blank, registered
    <3> QED BY <2>2, <3>1, <3>2 DEF q
  <2> QED BY <2>1, <2>2
<1> HIDE DEF told
<1>3. /\ s \in LockedRecord /\ TotallyOrders(s.order)
      /\ s.task_to_threads = Locked.task_to_threads
      /\ \A u \in Threads : s.threads[u] = told(u)
  BY <1>1, <1>2 DEF Turn, LockedRecord, Apart
<1> HIDE DEF s
<1>4. Knows(s)
  BY <1>1, <1>2, <1>3 DEF Turn, Knows, Listed
<1>5. Nudged(s, s2)
  BY <1>3, WakeNextNudges
<1>6. Unlock(s2) /\ UNCHANGED stack /\ UNCHANGED adaptor
  BY DEF dealloc_core, s2, s, told
<1> HIDE DEF s2
<1>7. \A u \in Threads : Apart(threads[u], s2.threads[u])
  BY <1>1, <1>2, <1>3, <1>5, ApartPoked DEF Nudged
<1>8. Knows(s2)
  BY <1>4, <1>5, NudgedKnows
<1> QED BY <1>6, <1>7, <1>8, UnlockProgress

(* A change that is no change of state can come before another one.        *)
LEMMA ApartOfSame ==
  ASSUME NEW r \in ThreadRecord, NEW q, Apart(r, q), SameState(r, q), NEW p, Apart(q, p)
  PROVE  Apart(r, p)
<1>1. registered(p) => registered(q)
  BY ApartOnward DEF Apart
<1> QED BY <1>1 DEF Apart, SameState

(* Removing the association of the threads of S with task k, from a state  *)
(* in which no thread has changed its state, and waking up the others.     *)
LEMMA RemovalDone ==
  ASSUME AdaptorInv, NEW s \in LockedRecord, TotallyOrders(s.order), Knows(s),
         \A u \in Threads : Apart(threads[u], s.threads[u]) /\ SameState(threads[u], s.threads[u]),
         NEW S \in SUBSET Threads, NEW k \in Tasks \cup {-1}, NEW ended
  PROVE  LET s2 == wake_up_if(remove_thread_association(s, S, k), ended)
         IN  /\ s2 \in LockedRecord /\ TotallyOrders(s2.order) /\ Knows(s2)
             /\ \A u \in Threads :
                  /\ Apart(threads[u], s2.threads[u])
                  /\ IF u \in S /\ thread_should_be_removed(s.threads[u], k)
                     THEN /\ s2.threads[u].state \in Over
                          /\ s2.threads[u].state = "UNKNOWN" => s2.threads[u].task_id = -1
                     ELSE s2.threads[u].task_id = s.threads[u].task_id
<1> DEFINE gone == {u \in S : thread_should_be_removed(s.threads[u], k)}
           q(u) == IF u \in S THEN removed(s.threads[u], k) ELSE s.threads[u]
           s1 == remove_thread_association(s, S, k)
           s2 == wake_up_if(s1, ended)
<1>1. \A u \in Threads : threads[u] \in ThreadRecord /\ s.threads[u] \in ThreadRecord
  BY DEF AdaptorInv, TypeOK, LockedRecord
<1>2. ASSUME NEW u \in Threads
      PROVE  /\ Apart(s.threads[u], q(u))
             /\ IF u \in gone THEN q(u).state \in Over /\ (q(u).state = "UNKNOWN" => q(u).task_id = -1)
                ELSE q(u).task_id = s.threads[u].task_id /\ SameState(s.threads[u], q(u))
  BY <1>1, RemovedApart, ApartSame DEF SameState
<1>3. /\ s1 \in LockedRecord /\ s1.order = s.order
      /\ \A u \in Threads : s1.threads[u] = q(u)
      /\ \A j \in Tasks : s.task_to_threads[j] \ gone \subseteq s1.task_to_threads[j]
  <2>1. \A u \in Threads : q(u) \in ThreadRecord
    BY <1>2 DEF Apart
  <2> HIDE DEF q, gone
  <2> QED BY <2>1 DEF remove_thread_association, LockedRecord, q, gone
<1> HIDE DEF q, gone
<1>4. Knows(s1)
  <2> SUFFICES ASSUME NEW u \in Threads, q(u).task_id >= 0, q(u).state # "REMOVE_THROW"
               PROVE  u \in s1.task_to_threads[q(u).task_id]
    BY <1>3 DEF Knows, Listed
  <2>1. q(u).task_id \in Tasks
    <3>1. q(u) \in ThreadRecord
      BY <1>2 DEF Apart
    <3> QED BY <3>1 DEF ThreadRecord
  <2>2. u \notin gone
    BY <1>2, <2>1, TasksAssumption DEF Over
  <2>3. u \in s.task_to_threads[q(u).task_id]
    BY <1>2, <2>2 DEF Knows, Listed, SameState
  <2> QED BY <1>3, <2>1, <2>2, <2>3
<1> HIDE DEF s1
<1>5. Nudged(s1, s2)
  BY <1>3, WakeUpNudges, NudgeNobody DEF wake_up_if
<1> HIDE DEF s2
<1>6. Knows(s2)
  BY <1>4, <1>5, NudgedKnows
<1>7. ASSUME NEW u \in Threads
      PROVE  /\ Apart(threads[u], s2.threads[u])
             /\ IF u \in gone
                THEN /\ s2.threads[u].state \in Over
                     /\ s2.threads[u].state = "UNKNOWN" => s2.threads[u].task_id = -1
                ELSE s2.threads[u].task_id = s.threads[u].task_id
  <2>1. Apart(threads[u], q(u))
    BY <1>1, <1>2, ApartOfSame
  <2>2. s2.threads[u] = q(u) \/ Poked(q(u), s2.threads[u])
    BY <1>3, <1>5 DEF Nudged
  <2>3. u \in gone => s2.threads[u] = q(u)
    BY <1>2, <2>2 DEF Poked, Pokes, Over
  <2> QED BY <1>1, <1>2, <2>1, <2>2, <2>3, ApartPoked DEF Poked
<1> QED BY <1>5, <1>6, <1>7 DEF Nudged, s1, s2, gone

(* What the removals start from.                                          *)
LEMMA LockedStart ==
  ASSUME AdaptorInv, CallInv
  PROVE  /\ Locked \in LockedRecord /\ TotallyOrders(Locked.order) /\ Knows(Locked)
         /\ Locked.threads = threads /\ Locked.task_to_threads = task_to_threads
         /\ \A u \in Threads : /\ threads[u] \in ThreadRecord /\ Fine(threads[u], stack[u])
                               /\ Apart(threads[u], Locked.threads[u])
                               /\ SameState(threads[u], Locked.threads[u])
<1>1. \A u \in Threads : threads[u] \in ThreadRecord
  BY DEF AdaptorInv, TypeOK
<1>2. Locked \in LockedRecord /\ TotallyOrders(Locked.order)
  BY LockedSound DEF Sound
<1>3. Locked.threads = threads /\ Locked.task_to_threads = task_to_threads
  BY DEF Locked
<1>4. Knows(Locked)
  BY <1>3 DEF CallInv, TaskKnowsItsThreads, Knows, Listed
<1> QED BY <1>1, <1>2, <1>3, <1>4, ApartSame DEF SameState, CallInv

(* startDedicatedTaskThread, with or without the fix-up.                   *)
LEMMA StartDedicatedProgress ==
  ASSUME AdaptorInv, CallInv, AdaptorInv', NEW t \in Threads, NEW task \in Tasks,
         start_dedicated_task_thread(t, task)
  PROVE  CallStep
<1> DEFINE s == [Locked EXCEPT !.known = @ \cup {t}]
           old == threads[t].task_id
           fixed == IF old >= 0 /\ old # task
                    THEN remove_thread_association(s, {t}, old) ELSE s
           added == [fixed EXCEPT !.task_to_threads = insert_thread(@, task, t)]
           q == full_thread_state(task, FALSE)
<1>1. /\ adaptor = "open" /\ stack[t] = <<>>
      /\ \/ ~registered(fixed.threads[t]) /\ Leave(Put(added, t, q), t, <<>>)
         \/ Leave(added, t, <<>>)
         \/ Leave(fixed, t, <<>>)
  BY DEF start_dedicated_task_thread, idle
<1>2. /\ s \in LockedRecord /\ TotallyOrders(s.order) /\ Knows(s)
      /\ \A u \in Threads : /\ Apart(threads[u], s.threads[u])
                            /\ SameState(threads[u], s.threads[u])
  BY LockedStart DEF LockedRecord, Knows
<1>3. threads[t] \in ThreadRecord /\ old \in Tasks \cup {-1} /\ Fine(threads[t], <<>>)
        /\ threads[t].wake = "idle"
  BY <1>1, StartOfCall DEF ThreadRecord
<1> HIDE DEF s, old
<1>4. /\ fixed \in LockedRecord /\ TotallyOrders(fixed.order) /\ Knows(fixed)
      /\ \A u \in Threads : Apart(threads[u], fixed.threads[u])
  <2> DEFINE rem == remove_thread_association(s, {t}, old)
  <2>1. wake_up_if(rem, FALSE) = rem
    BY DEF wake_up_if
  <2>2. /\ wake_up_if(rem, FALSE) \in LockedRecord
        /\ TotallyOrders(wake_up_if(rem, FALSE).order)
        /\ Knows(wake_up_if(rem, FALSE))
        /\ \A u \in Threads : Apart(threads[u], wake_up_if(rem, FALSE).threads[u])
    BY <1>2, <1>3, RemovalDone
  <2> HIDE DEF rem
  <2> QED BY <1>2, <2>1, <2>2 DEF rem
<1> HIDE DEF fixed
<1>5. /\ added \in LockedRecord /\ added.order = fixed.order /\ added.threads = fixed.threads
      /\ t \in added.task_to_threads[task]
      /\ \A j \in Tasks : fixed.task_to_threads[j] \subseteq added.task_to_threads[j]
  BY <1>4 DEF LockedRecord, insert_thread
<1> HIDE DEF added
<1>6. Knows(added)
  <2>1. \A u \in Threads : fixed.threads[u].task_id \in Tasks \cup {-1}
    BY <1>4 DEF LockedRecord, ThreadRecord
  <2> QED BY <1>4, <1>5, <2>1 DEF Knows, Listed
<1>7. \A x : Leave(x, t, <<>>) =>
             Unlock(x) /\ UNCHANGED adaptor /\ \A u \in Threads : stack'[u] = stack[u]
  BY <1>1 DEF Leave, AdaptorInv, TypeOK
<1>8. CASE Leave(added, t, <<>>)
  BY <1>4, <1>5, <1>6, <1>7, <1>8, UnlockProgress
<1>9. CASE Leave(fixed, t, <<>>)
  BY <1>4, <1>7, <1>9, UnlockProgress
<1>10. CASE ~registered(fixed.threads[t]) /\ Leave(Put(added, t, q), t, <<>>)
  <2>1. q \in ThreadRecord
    BY <1>3, EraseType DEF full_thread_state, ThreadRecord, States
  <2>2. q.state = "RUNNING" /\ q.task_id = task /\ Quiet(q)
    BY DEF full_thread_state, Unregistered, Quiet, no_oom
  <2> HIDE DEF q
  <2>3. Fine(q, <<>>)
    BY <2>1, <2>2, FineOutside DEF registered
  <2>4. Turn(added, t) /\ Listed(added.task_to_threads, t, q)
    BY <1>4, <1>5, <1>6, <2>2 DEF Turn, Listed
  <2>5. Turn(Put(added, t, q), t) /\ Put(added, t, q).threads[t] = q
    BY <2>1, <2>4, PutListed
  <2>6. Onward(threads[t], q)
    <3>1. ASSUME NoInjections PROVE "RUNNING" \in Reach[threads[t].state] \cup {threads[t].state}
      <4>1. threads[t].state \in States
        BY <1>3 DEF ThreadRecord
      <4>2. ~is_blocked(threads[t].state) \/ threads[t].state = "UNKNOWN"
        BY <1>3, <3>1 DEF Fine, Calm, InPreAlloc, is_blocked
      <4>3. threads[t].state \notin {"ALLOC", "ALLOC_FREE", "REMOVE_THROW"}
        BY <1>3, <3>1 DEF Fine, Framed, Nested, registered, Calm
      <4> QED BY <4>1, <4>2, <4>3 DEF States, Reach, is_blocked
    <3> QED BY <1>1, <2>2, <3>1 DEF Onward
  <2>7. <<>> \in Seq(FrameRecord)
    OBVIOUS
  <2> QED BY <1>10, <2>3, <2>5, <2>6, <2>7, LeaveProgress
<1> QED BY <1>1, <1>8, <1>9, <1>10

(* poolThreadWorkingOnTasks and shuffleThreadWorkingTasks.                 *)
LEMMA PoolWorkingProgress ==
  ASSUME AdaptorInv, CallInv, AdaptorInv', NEW t \in Threads, NEW ids \in PoolTaskIds,
         NEW shuffle \in BOOLEAN, pool_thread_working_on_tasks(shuffle, t, ids)
  PROVE  CallStep
<1> DEFINE s == [Locked EXCEPT !.known = @ \cup {t}]
           r == IF ~registered(threads[t]) THEN full_thread_state(-1, shuffle) ELSE threads[t]
           q == [r EXCEPT !.pool_task_ids = @ \cup ids]
<1>1. /\ adaptor = "open" /\ stack[t] = <<>>
      /\ \/ Leave(s, t, <<>>)
         \/ Leave(Put(s, t, q), t, <<>>)
  BY DEF pool_thread_working_on_tasks, idle
<1>2. threads[t] \in ThreadRecord /\ ids \subseteq Tasks /\ Fine(threads[t], <<>>)
  BY <1>1, StartOfCall, InputsAssumption
<1>3. Turn(s, t) /\ s.threads = threads /\ \A u \in Threads : Apart(threads[u], s.threads[u])
  <2>1. s \in LockedRecord /\ s.order = Locked.order /\ s.threads = threads
          /\ s.task_to_threads = Locked.task_to_threads
    BY LockedStart DEF LockedRecord
  <2> HIDE DEF s
  <2>2. \A u \in Threads : Apart(threads[u], s.threads[u])
    BY <2>1, LockedStart
  <2>3. TotallyOrders(s.order) /\ Knows(s)
    BY <2>1, LockedStart DEF Knows
  <2> QED BY <2>1, <2>2, <2>3 DEF Turn
<1> HIDE DEF s
<1>4. CASE Leave(s, t, <<>>)
  <2>1. Unlock(s) /\ UNCHANGED adaptor /\ (\A u \in Threads : stack'[u] = stack[u])
    BY <1>1, <1>4 DEF Leave, AdaptorInv, TypeOK
  <2> QED BY <1>3, <2>1, UnlockProgress DEF Turn
<1>5. CASE Leave(Put(s, t, q), t, <<>>)
  <2>1. /\ r \in ThreadRecord /\ registered(r) /\ (NoInjections => Quiet(r))
        /\ r.state = "RUNNING" \/ r.state = threads[t].state
        /\ r.state = threads[t].state \/ threads[t].state = "UNKNOWN"
        /\ r.task_id = -1 \/ (r.task_id = threads[t].task_id /\ r.state = threads[t].state)
    <3>1. CASE ~registered(threads[t])
      <4> DEFINE z == full_thread_state(-1, shuffle)
      <4>1. z \in ThreadRecord
        BY <1>2, EraseType DEF full_thread_state, ThreadRecord, States
      <4>2. z.state = "RUNNING" /\ z.task_id = -1 /\ Quiet(z)
        BY DEF full_thread_state, Unregistered, Quiet, no_oom
      <4> HIDE DEF z
      <4> QED BY <3>1, <4>1, <4>2 DEF registered, z
    <3>2. CASE registered(threads[t])
      BY <1>2, <3>2 DEF Fine, Calm
    <3> QED BY <3>1, <3>2
  <2> HIDE DEF r
  <2>2. q \in ThreadRecord /\ q.state = r.state /\ q.task_id = r.task_id /\ Injections(q) = Injections(r)
    BY <1>2, <2>1 DEF ThreadRecord, Injections
  <2> HIDE DEF q
  <2>3. /\ r.state \notin {"ALLOC", "ALLOC_FREE"}
        /\ NoInjections => /\ Quiet(q)
                           /\ r.state \notin {"BLOCKED", "BUFN", "SPLIT_THROW", "REMOVE_THROW"}
                           /\ OnlyBlocking => r.state # "BUFN_THROW"
    <3>1. threads[t].wake = "idle"
      BY <1>1, StartOfCall
    <3>2. CASE r.state = "RUNNING"
      BY <2>1, <2>2, <3>2, SameQuiet
    <3>3. CASE r.state = threads[t].state
      <4>1. r.state \notin {"ALLOC", "ALLOC_FREE"}
        BY <1>2, <2>1, <3>3 DEF Fine, Framed, Nested, registered
      <4>2. NoInjections => /\ r.state \notin {"BLOCKED", "BUFN", "SPLIT_THROW", "REMOVE_THROW"}
                            /\ OnlyBlocking => r.state # "BUFN_THROW"
        BY <1>2, <3>1, <3>3 DEF Fine, Calm, InPreAlloc
      <4> QED BY <2>1, <2>2, <4>1, <4>2, SameQuiet
    <3> QED BY <2>1, <3>2, <3>3
  <2>4. Fine(q, <<>>)
    BY <2>1, <2>2, <2>3, FineOutside DEF registered
  <2>5. Listed(s.task_to_threads, t, q)
    BY <1>3, <2>1, <2>2 DEF Turn, Knows, Listed
  <2>6. Turn(Put(s, t, q), t) /\ Put(s, t, q).threads[t] = q
    BY <1>3, <2>2, <2>5, PutListed
  <2>7. Onward(threads[t], q)
    BY <1>1, <2>1, <2>2 DEF Onward, Reach
  <2>8. <<>> \in Seq(FrameRecord)
    OBVIOUS
  <2> QED BY <1>5, <2>4, <2>6, <2>7, <2>8, LeaveProgress
<1> QED BY <1>1, <1>4, <1>5

(* One record changes and its thread stays where it is.                    *)
LEMMA PutProgress ==
  ASSUME AdaptorInv, CallInv, NEW t \in Threads, NEW r, Apart(threads[t], r),
         SameState(threads[t], r), r.task_id = threads[t].task_id
  PROVE  /\ Put(Locked, t, r) \in LockedRecord /\ TotallyOrders(Put(Locked, t, r).order)
         /\ Knows(Put(Locked, t, r)) /\ Put(Locked, t, r).threads[t] = r
         /\ \A u \in Threads : /\ Apart(threads[u], Put(Locked, t, r).threads[u])
                               /\ SameState(threads[u], Put(Locked, t, r).threads[u])
<1> DEFINE s == Put(Locked, t, r)
<1>1. r \in ThreadRecord
  BY DEF Apart
<1>2. /\ s \in LockedRecord /\ s.order = Locked.order
      /\ s.task_to_threads = Locked.task_to_threads
      /\ s.threads[t] = r
      /\ \A u \in Threads \ {t} : s.threads[u] = Locked.threads[u]
  BY <1>1, LockedStart, PutType
<1> HIDE DEF s
<1>3. Knows(s)
  BY <1>2, LockedStart DEF Knows, Listed, SameState
<1> QED BY <1>2, <1>3, LockedStart DEF s

(* poolThreadFinishedForTasks, which forgets a thread without tasks.       *)
LEMMA PoolFinishedProgress ==
  ASSUME AdaptorInv, CallInv, AdaptorInv', NEW t \in Threads, NEW ids \in PoolTaskIds,
         pool_thread_finished_for_tasks(t, ids)
  PROVE  CallStep
<1> DEFINE r == [threads[t] EXCEPT !.pool_task_ids = @ \ ids]
           s == Put(Locked, t, r)
           s2 == wake_up_if(remove_thread_association(s, {t}, -1), ended_running(r, -1))
<1>1. threads[t] \in ThreadRecord
  BY LockedStart
<1>2. /\ r \in ThreadRecord /\ r.state = threads[t].state /\ r.task_id = threads[t].task_id
      /\ r.wake = threads[t].wake /\ r.is_cpu_alloc = threads[t].is_cpu_alloc
      /\ r.pool_task_ids \subseteq threads[t].pool_task_ids
      /\ Injections(r) = Injections(threads[t])
  BY <1>1 DEF ThreadRecord, Injections
<1>3. UNCHANGED stack /\ UNCHANGED adaptor /\ (Unlock(s) \/ Unlock(s2))
  BY DEF pool_thread_finished_for_tasks
<1> HIDE DEF r
<1>4. Apart(threads[t], r) /\ SameState(threads[t], r)
  BY <1>2, SameQuiet DEF Apart, SameState, Blank, registered
<1>5. /\ s \in LockedRecord /\ TotallyOrders(s.order) /\ Knows(s)
      /\ \A u \in Threads : Apart(threads[u], s.threads[u]) /\ SameState(threads[u], s.threads[u])
  BY <1>2, <1>4, PutProgress
<1> HIDE DEF s
<1>6. Knows(s2) /\ \A u \in Threads : Apart(threads[u], s2.threads[u])
  BY <1>5, RemovalDone
<1> HIDE DEF s2
<1> QED BY <1>3, <1>5, <1>6, UnlockProgress

(* removeThreadAssociation.                                                *)
LEMMA RemoveProgress ==
  ASSUME AdaptorInv, CallInv, AdaptorInv', NEW t \in Threads, NEW k \in Tasks \cup {-1},
         RemoveThreadAssociation(t, k)
  PROVE  CallStep
<1> DEFINE s == wake_up_if(remove_thread_association(Locked, {t}, k),
                           ended_running(threads[t], k))
<1>1. Knows(s) /\ \A u \in Threads : Apart(threads[u], s.threads[u])
  BY LockedStart, RemovalDone
<1>2. Unlock(s) /\ UNCHANGED stack /\ UNCHANGED adaptor
  BY DEF RemoveThreadAssociation
<1> HIDE DEF s
<1> QED BY <1>1, <1>2, UnlockProgress

(* taskDone drops the list of the task: every thread on it was removed.    *)
LEMMA TaskDoneProgress ==
  ASSUME AdaptorInv, CallInv, AdaptorInv', NEW task \in Tasks, task_done(task)
  PROVE  CallStep
<1> DEFINE S == task_to_threads[task]
                  \cup {u \in Threads : task \in threads[u].pool_task_ids}
           ended == \E u \in S : ended_running(threads[u], task)
           s == wake_up_if(remove_thread_association(Locked, S, task), ended)
           s2 == [s EXCEPT !.task_to_threads[task] = {}]
<1>1. S \in SUBSET Threads
  BY DEF AdaptorInv, TypeOK
<1>2. Unlock(s2) /\ UNCHANGED stack /\ UNCHANGED adaptor
  BY DEF task_done
<1>3. ASSUME NEW u \in Threads, threads[u].task_id = task, threads[u].state # "REMOVE_THROW"
      PROVE  u \in S /\ thread_should_be_removed(threads[u], task)
  <2>1. task >= 0 /\ task # -1
    BY TasksAssumption
  <2>2. registered(threads[u])
    BY <1>3, <2>1, LockedStart DEF Fine, Blank
  <2>3. u \in task_to_threads[task]
    BY <1>3, <2>1 DEF CallInv, TaskKnowsItsThreads
  <2> QED BY <1>3, <2>1, <2>2, <2>3 DEF thread_should_be_removed
<1> HIDE DEF S, ended
<1>4. /\ s \in LockedRecord /\ Knows(s)
      /\ \A u \in Threads :
           /\ Apart(threads[u], s.threads[u])
           /\ IF u \in S /\ thread_should_be_removed(threads[u], task)
              THEN /\ s.threads[u].state \in Over
                   /\ s.threads[u].state = "UNKNOWN" => s.threads[u].task_id = -1
              ELSE s.threads[u].task_id = threads[u].task_id
  BY <1>1, LockedStart, RemovalDone
<1> HIDE DEF s
<1>5. /\ s2.threads = s.threads
      /\ \A j \in Tasks \ {task} : s2.task_to_threads[j] = s.task_to_threads[j]
  BY <1>4 DEF LockedRecord
<1> HIDE DEF s2
<1>6. Knows(s2)
  <2> SUFFICES ASSUME NEW u \in Threads, s.threads[u].task_id >= 0,
                      s.threads[u].state # "REMOVE_THROW"
               PROVE  u \in s2.task_to_threads[s.threads[u].task_id]
    BY <1>5 DEF Knows, Listed
  <2>1. s.threads[u] \in ThreadRecord /\ s.threads[u].task_id \in Tasks
    BY <1>4 DEF LockedRecord, ThreadRecord
  <2>2. s.threads[u].task_id # -1
    BY <2>1, TasksAssumption
  <2>3. s.threads[u].task_id # task
    <3> SUFFICES ASSUME s.threads[u].task_id = task PROVE FALSE
      OBVIOUS
    <3>1. ~(u \in S /\ thread_should_be_removed(threads[u], task))
      BY <1>4, <2>2 DEF Over
    <3>2. threads[u].task_id = task /\ threads[u].state = "REMOVE_THROW"
      BY <1>3, <1>4, <3>1
    <3>3. s.threads[u].state = "UNKNOWN"
      BY <1>4, <3>2 DEF Apart, SameState, Pokes, is_blocked
    <3>4. Blank(s.threads[u])
      BY <1>4, LockedStart DEF Apart, Fine
    <3> QED BY <2>2, <3>3, <3>4 DEF Blank, registered
  <2> QED BY <1>4, <1>5, <2>1, <2>3 DEF Knows, Listed
<1> QED BY <1>2, <1>4, <1>5, <1>6, UnlockProgress

(* waitingOnPoolStatusChanged and the three force_ calls.                  *)
LEMMA SettersProgress ==
  ASSUME AdaptorInv, CallInv, AdaptorInv', NEW t \in Threads,
         \/ \E b \in BOOLEAN : waiting_on_pool_status_changed(t, b)
         \/ \E oom \in Injected[t] : force_retry_oom(t, oom)
         \/ \E oom \in Injected[t] : force_split_and_retry_oom(t, oom)
         \/ \E n \in CudfInjected[t] : force_cudf_exception(t, n)
  PROVE  CallStep
<1>1. threads[t] \in ThreadRecord
  BY LockedStart
<1>2. ASSUME NEW r \in ThreadRecord, r.state = threads[t].state, r.wake = threads[t].wake,
             r.task_id = threads[t].task_id, r.pool_task_ids = threads[t].pool_task_ids,
             r.is_cpu_alloc = threads[t].is_cpu_alloc,
             NoInjections => Injections(r) = Injections(threads[t]),
             Unlock(Put(Locked, t, r)), UNCHANGED adaptor,
             \A u \in Threads : stack'[u] = stack[u]
      PROVE  CallStep
  <2>1. Apart(threads[t], r) /\ SameState(threads[t], r)
    BY <1>2, SameQuiet DEF Apart, SameState, Blank, registered
  <2>2. /\ Knows(Put(Locked, t, r))
        /\ \A u \in Threads : Apart(threads[u], Put(Locked, t, r).threads[u])
    BY <1>2, <2>1, PutProgress
  <2> QED BY <1>2, <2>2, UnlockProgress
<1>3. ASSUME NEW b \in BOOLEAN, waiting_on_pool_status_changed(t, b) PROVE CallStep
  <2> DEFINE r == [threads[t] EXCEPT !.pool_blocked = b]
  <2>1. /\ r \in ThreadRecord /\ r.state = threads[t].state /\ r.wake = threads[t].wake
        /\ r.task_id = threads[t].task_id /\ r.pool_task_ids = threads[t].pool_task_ids
        /\ r.is_cpu_alloc = threads[t].is_cpu_alloc /\ Injections(r) = Injections(threads[t])
    BY <1>1 DEF ThreadRecord, Injections
  <2>2. Leave(Put(Locked, t, r), t, <<>>) /\ stack[t] = <<>>
    BY <1>3 DEF waiting_on_pool_status_changed, idle
  <2> HIDE DEF r
  <2>3. Unlock(Put(Locked, t, r)) /\ UNCHANGED adaptor /\ (\A u \in Threads : stack'[u] = stack[u])
    BY <2>2 DEF Leave, AdaptorInv, TypeOK
  <2> QED BY <1>2, <2>1, <2>3
<1>4. ASSUME NEW oom \in Injected[t], force_retry_oom(t, oom) PROVE CallStep
  <2> DEFINE r == [threads[t] EXCEPT !.retry_oom = oom]
  <2>1. /\ r \in ThreadRecord /\ r.state = threads[t].state /\ r.wake = threads[t].wake
        /\ r.task_id = threads[t].task_id /\ r.pool_task_ids = threads[t].pool_task_ids
        /\ r.is_cpu_alloc = threads[t].is_cpu_alloc
    BY <1>1, InjectedAssumption DEF ThreadRecord, OomState
  <2>2. Unlock(Put(Locked, t, r)) /\ UNCHANGED <<stack, adaptor>> /\ ~NoInjections
    BY <1>4 DEF force_retry_oom, NoInjections
  <2> HIDE DEF r
  <2> QED BY <1>2, <2>1, <2>2
<1>5. ASSUME NEW oom \in Injected[t], force_split_and_retry_oom(t, oom) PROVE CallStep
  <2> DEFINE r == [threads[t] EXCEPT !.split_and_retry_oom = oom]
  <2>1. /\ r \in ThreadRecord /\ r.state = threads[t].state /\ r.wake = threads[t].wake
        /\ r.task_id = threads[t].task_id /\ r.pool_task_ids = threads[t].pool_task_ids
        /\ r.is_cpu_alloc = threads[t].is_cpu_alloc
    BY <1>1, InjectedAssumption DEF ThreadRecord, OomState
  <2>2. Unlock(Put(Locked, t, r)) /\ UNCHANGED <<stack, adaptor>> /\ ~NoInjections
    BY <1>5 DEF force_split_and_retry_oom, NoInjections
  <2> HIDE DEF r
  <2> QED BY <1>2, <2>1, <2>2
<1>6. ASSUME NEW n \in CudfInjected[t], force_cudf_exception(t, n) PROVE CallStep
  <2> DEFINE r == [threads[t] EXCEPT !.cudf_exception_injected = n]
  <2>1. /\ r \in ThreadRecord /\ r.state = threads[t].state /\ r.wake = threads[t].wake
        /\ r.task_id = threads[t].task_id /\ r.pool_task_ids = threads[t].pool_task_ids
        /\ r.is_cpu_alloc = threads[t].is_cpu_alloc
    BY <1>1, InputsAssumption DEF ThreadRecord
  <2>2. Unlock(Put(Locked, t, r)) /\ UNCHANGED <<stack, adaptor>> /\ ~NoInjections
    BY <1>6 DEF force_cudf_exception, NoInjections
  <2> HIDE DEF r
  <2> QED BY <1>2, <2>1, <2>2
<1> QED BY <1>3, <1>4, <1>5, <1>6

(* The watchdog, and both halves of all_done().                            *)
LEMMA WatchdogProgress ==
  ASSUME AdaptorInv, CallInv, AdaptorInv',
         check_and_break_deadlocks \/ all_done \/ all_done_returns
  PROVE  CallStep
<1>1. CASE check_and_break_deadlocks
  <2>1. PICK blocked : Unlock(check_and_update_for_bufn(Locked, blocked))
    BY <1>1 DEF check_and_break_deadlocks
  <2> DEFINE s == check_and_update_for_bufn(Locked, blocked)
  <2>2. Nudged(Locked, s)
    BY LockedStart, CheckNudges
  <2>3. UNCHANGED stack /\ UNCHANGED adaptor
    BY <1>1 DEF check_and_break_deadlocks
  <2> HIDE DEF s
  <2>4. Knows(s)
    BY <2>2, LockedStart, NudgedKnows
  <2>5. \A u \in Threads : Apart(threads[u], s.threads[u])
    BY <2>2, LockedStart, ApartPoked DEF Nudged
  <2> QED BY <2>1, <2>3, <2>4, <2>5, UnlockProgress DEF s
<1>2. CASE all_done
  <2> DEFINE s == remove_thread_association(Locked, Threads, -1)
  <2>1. Unlock(s) /\ UNCHANGED stack /\ adaptor' = "shutting_down"
    BY <1>2 DEF all_done
  <2>2. wake_up_if(s, FALSE) = s
    BY DEF wake_up_if
  <2>3. Threads \in SUBSET Threads
    OBVIOUS
  <2>4. /\ Knows(wake_up_if(s, FALSE))
        /\ \A u \in Threads :
             /\ Apart(threads[u], wake_up_if(s, FALSE).threads[u])
             /\ thread_should_be_removed(threads[u], -1) =>
                  wake_up_if(s, FALSE).threads[u].state \in Over
    BY <2>3, LockedStart, RemovalDone
  <2>5. ASSUME NEW u \in Threads PROVE s.threads[u].state \in Over
    <3> HIDE DEF s
    <3>1. CASE registered(threads[u])
      <4>1. thread_should_be_removed(threads[u], -1)
        BY <3>1 DEF thread_should_be_removed
      <4> QED BY <2>2, <2>4, <4>1
    <3>2. CASE ~registered(threads[u])
      <4>1. ~registered(s.threads[u])
        BY <2>2, <2>4, <3>2, LockedStart, ApartOnward
      <4> QED BY <4>1 DEF registered, Over
    <3> QED BY <3>1, <3>2
  <2> HIDE DEF s
  <2> QED BY <2>1, <2>2, <2>4, <2>5, UnlockProgress
<1>3. CASE all_done_returns
  <2>1. adaptor = "shutting_down" /\ adaptor' \in {"returned", "timed_out"}
          /\ UNCHANGED <<threads, task_to_threads, stack>>
    BY <1>3 DEF all_done_returns
  <2> QED BY <2>1 DEF CallStep, CallInv, TaskKnowsItsThreads, ShutdownReachesEveryone
<1> QED BY <1>1, <1>2, <1>3

(* Every step of the adaptor keeps the invariant and follows the diagram.  *)
LEMMA StepProgress ==
  ASSUME AdaptorInv, CallInv, AdaptorInv', [Next]_vars
  PROVE  CallStep
<1>1. ASSUME NEW t \in Threads, ThreadStep(t) PROVE CallStep
  BY <1>1, StartDedicatedProgress, PoolWorkingProgress, PoolFinishedProgress,
     RemoveProgress, SettersProgress, AllocProgress, BlockCallProgress, ErasedProgress,
     SuccessProgress, FailedProgress, DeallocProgress DEF ThreadStep
<1>2. ASSUME UNCHANGED <<threads, task_to_threads, stack, adaptor>> PROVE CallStep
  BY <1>2 DEF CallStep, CallInv, TaskKnowsItsThreads, ShutdownReachesEveryone
<1>3. ASSUME NEW task \in Tasks, priority_task_done(task) PROVE CallStep
  BY <1>2, <1>3 DEF priority_task_done
<1>4. CASE UNCHANGED vars
  BY <1>2, <1>4 DEF vars
<1> QED BY <1>1, <1>3, <1>4, TaskDoneProgress, WatchdogProgress DEF Next

-----------------------------------------------------------------------------

(* A fresh adaptor knows nobody.                                           *)
LEMMA InitCalls ==
  ASSUME Init
  PROVE  CallInv
<1>1. Unregistered \in ThreadRecord /\ Unregistered.state = "UNKNOWN"
        /\ Unregistered.wake = "idle"
  <2>1. no_oom \in OomState
    BY DEF no_oom, OomState
  <2>2. 0 \in 0 .. RetryLimit /\ 0 \in Nat
    BY BoundsAssumption
  <2> QED BY <2>1, <2>2 DEF Unregistered, ThreadRecord, States
<1>2. Unregistered.task_id = -1 /\ Unregistered.pool_task_ids = {} /\ Quiet(Unregistered)
  BY DEF Unregistered, Quiet, no_oom
<1>3. \A t \in Threads : threads[t] = Unregistered /\ stack[t] = <<>>
  BY DEF Init
<1> HIDE DEF Unregistered
<1>4. Fine(Unregistered, <<>>)
  <2>1. 1 .. Len(<<>>) = {} /\ <<>> \in Seq(FrameRecord)
    OBVIOUS
  <2> QED BY <1>1, <1>2, <2>1, FineUnknown DEF registered
<1>5. adaptor = "open"
  BY DEF Init
<1> QED BY <1>2, <1>3, <1>4, <1>5 DEF CallInv, TaskKnowsItsThreads, ShutdownReachesEveryone

(* The invariant of the calls is inductive relative to AdaptorInv.         *)
THEOREM CallInvariant == Spec => [](AdaptorInv /\ CallInv)
<1>1. Init => CallInv
  BY InitCalls
<1>2. AdaptorInv /\ AdaptorInv' /\ CallInv /\ [Next]_vars => CallInv'
  BY StepProgress DEF CallStep
<1> QED BY <1>1, <1>2, AdaptorInvariant, PTL DEF Spec

(* post_alloc_success_core and post_alloc_failed_core never throw an       *)
(* internal error, whatever allocations are nested in a spill, and         *)
(* whoever frees, removes or injects in the meantime.                      *)
THEOREM AllocationsFindTheirState == Spec => []NoInternalError
<1>1. ASSUME AdaptorInv, CallInv PROVE NoInternalError
  <2> SUFFICES ASSUME NEW t \in Threads, allocating(t), internal_error(t) PROVE FALSE
    BY DEF NoInternalError
  <2>1. registered(threads[t]) /\ ~Head(stack[t]).recursive
    BY DEF internal_error, tracked
  <2> QED BY <1>1, <2>1, AllocatingStack DEF internal_error
<1> QED BY <1>1, CallInvariant, PTL

(* task_done finds every dedicated thread of its task.                     *)
THEOREM TasksKnowTheirThreads == Spec => []TaskKnowsItsThreads
<1>1. CallInv => TaskKnowsItsThreads
  BY DEF CallInv
<1> QED BY <1>1, CallInvariant, PTL

(* all_done() leaves nobody asleep without a notification to throw.        *)
THEOREM ShutdownIsNoticed == Spec => []ShutdownReachesEveryone
<1>1. CallInv => ShutdownReachesEveryone
  BY DEF CallInv
<1> QED BY <1>1, CallInvariant, PTL

(* Unless exceptions are injected, one stretch of locked code moves a      *)
(* thread along the diagram of docs/memory_management.md and in no other   *)
(* way.  With injections it is not so: a thread that is BLOCKED can leave  *)
(* its allocation with an injected exception, be told to throw for its     *)
(* removal while it is back in its own code, and register afresh.          *)
THEOREM DiagramIsFollowed ==
  ASSUME NoInjections
  PROVE  Spec => FollowsDiagram
<1>1. AdaptorInv /\ AdaptorInv' /\ CallInv /\ [Next]_vars =>
        [\A t \in Threads :
           threads'[t].state \in Reach[threads[t].state] \cup {threads[t].state}]_vars
  BY StepProgress DEF CallStep
<1> QED BY <1>1, CallInvariant, PTL DEF Spec, FollowsDiagram

(* Unless exceptions are injected or a CPU allocation is tried without     *)
(* blocking, every thread the deadlock check takes for paused is in the    *)
(* allocation that failed or sleeps.  A CPU allocation that does not block *)
(* can leave its thread in BUFN_THROW and return, if the retry it was      *)
(* granted before was one of another, blocking allocation.                 *)
THEOREM PausedMeansPaused ==
  ASSUME NoInjections, OnlyBlocking
  PROVE  Spec => []PausedThreadsArePaused
<1>1. CallInv => PausedThreadsArePaused
  BY DEF CallInv, Fine, Calm, InPreAlloc, PausedThreadsArePaused, idle, asleep
<1> QED BY <1>1, CallInvariant, PTL

-----------------------------------------------------------------------------
(* Breaking a deadlock.                                                    *)

(* A roll-back gets one of the BLOCKED threads going, if there is one.     *)
LEMMA RollBackFreesOne ==
  ASSUME NEW s \in LockedRecord, TotallyOrders(s.order), InState(s.threads, "BLOCKED") # {}
  PROVE  \E u \in InState(s.threads, "BLOCKED") :
           roll_back_lowest_blocked(s).threads[u].state \in {"RUNNING", "BUFN_THROW"}
<1> DEFINE C == InState(s.threads, "BLOCKED")
           o == Scan(s.order, s.threads, C)
           b == Lowest(o, s.threads, C)
           p == transition(s.threads[b], "RUNNING")
           r == IF Cardinality(C) = 1 THEN [p EXCEPT !.is_retry_alloc_before_bufn = TRUE]
                ELSE transition(s.threads[b], "BUFN_THROW")
           s1 == [s EXCEPT !.order = o]
<1>1. C \in SUBSET Threads /\ s.threads \in [Threads -> ThreadRecord] /\ s.order \in OrderRecord
  BY DEF InState, LockedRecord
<1>2. b \in C
  BY <1>1, ScanKeepsOrder, ScanFindsOne
<1>3. s.threads[b] \in ThreadRecord
  BY <1>1, <1>2
<1>4. r \in ThreadRecord /\ r.state \in {"RUNNING", "BUFN_THROW"}
  <2>1. p \in ThreadRecord /\ p.state = "RUNNING"
    BY <1>3, TransitionType DEF States
  <2> HIDE DEF p
  <2>2. /\ [p EXCEPT !.is_retry_alloc_before_bufn = TRUE] \in ThreadRecord
        /\ [p EXCEPT !.is_retry_alloc_before_bufn = TRUE].state = "RUNNING"
    BY <2>1 DEF ThreadRecord
  <2>3. /\ transition(s.threads[b], "BUFN_THROW") \in ThreadRecord
        /\ transition(s.threads[b], "BUFN_THROW").state = "BUFN_THROW"
    BY <1>3, TransitionType DEF States
  <2> QED BY <2>2, <2>3
<1>5. roll_back_lowest_blocked(s) = Put(s1, b, notify_all(r))
  BY DEF roll_back_lowest_blocked
<1>6. Put(s1, b, notify_all(r)).threads[b] = notify_all(r)
  <2> HIDE DEF r
  <2> QED BY <1>1, <1>2 DEF Put, LockedRecord
<1> HIDE DEF r
<1>7. notify_all(r).state = r.state
  BY <1>4, NotifyType
<1> HIDE DEF b, s1
<1> QED BY <1>2, <1>4, <1>5, <1>6, <1>7

(* A split gets one of the BUFN threads going, if there is one.            *)
LEMMA SplitFreesOne ==
  ASSUME NEW s \in LockedRecord, TotallyOrders(s.order), InState(s.threads, "BUFN") # {}
  PROVE  \E u \in InState(s.threads, "BUFN") :
           split_highest_bufn(s).threads[u].state = "SPLIT_THROW"
<1> DEFINE C == InState(s.threads, "BUFN")
           o == Scan(s.order, s.threads, C)
           w == Highest(o, s.threads, C)
           r == transition(s.threads[w], "SPLIT_THROW")
           s1 == [s EXCEPT !.order = o]
<1>1. C \in SUBSET Threads /\ s.threads \in [Threads -> ThreadRecord] /\ s.order \in OrderRecord
  BY DEF InState, LockedRecord
<1>2. w \in C
  BY <1>1, ScanKeepsOrder, ScanFindsOne
<1>3. r \in ThreadRecord /\ r.state = "SPLIT_THROW"
  BY <1>1, <1>2, TransitionType DEF States
<1>4. split_highest_bufn(s) = Put(s1, w, notify_all(r))
  BY DEF split_highest_bufn
<1>5. Put(s1, w, notify_all(r)).threads[w] = notify_all(r)
  <2> HIDE DEF r
  <2> QED BY <1>1, <1>2 DEF Put, LockedRecord
<1> HIDE DEF r
<1>6. notify_all(r).state = "SPLIT_THROW"
  BY <1>3, NotifyType
<1> HIDE DEF w, s1
<1> QED BY <1>2, <1>4, <1>5, <1>6

(* The code marks a thread without a task by a negative id.                *)
LEMMA TasksAreNats ==
  \A k \in Tasks : k >= 0
BY TasksAssumption

(* If everybody waits, is_in_deadlock says so: the tasks it counts as      *)
(* blocked are all the tasks that have a dedicated thread.                 *)
LEMMA StuckIsDeadlock ==
  ASSUME AdaptorInv, CallInv, AllStuck, NEW java_blocked
  PROVE  is_in_deadlock(threads, java_blocked)
<1> DEFINE Stuck(u) == \/ is_thread_bufn_or_above(u, threads[u], java_blocked)
                       \/ threads[u].state = "BLOCKED"
           all == {threads[u].task_id : u \in {v \in Threads : threads[v].task_id >= 0}}
           blocked == {threads[u].task_id : u \in {v \in Threads : threads[v].task_id >= 0 /\ Stuck(v)}}
                        \ UNION {threads[u].pool_task_ids :
                                   u \in {v \in Threads : threads[v].task_id < 0 /\ ~Stuck(v)}}
<1>1. \A u \in Threads : registered(threads[u]) => Stuck(u)
  BY DEF AllStuck, is_blocked, is_thread_bufn_or_above
<1>2. \A u \in Threads : threads[u].task_id \in Tasks \cup {-1}
  BY LockedStart DEF ThreadRecord
<1>3. \A u \in Threads : ~registered(threads[u]) =>
                           threads[u].task_id = -1 /\ threads[u].pool_task_ids = {}
  BY LockedStart DEF Fine, Blank
<1> HIDE DEF Stuck
<1>4. \A u \in Threads : threads[u].task_id >= 0 => Stuck(u)
  <2>1. ~(-1 >= 0)
    OBVIOUS
  <2> QED BY <1>1, <1>3, <2>1
<1>5. blocked = all
  <2>1. \A u \in Threads : ~Stuck(u) => threads[u].pool_task_ids = {}
    BY <1>1, <1>3
  <2> QED BY <1>4, <2>1
<1>6. all # {}
  <2>1. PICK u \in Threads : threads[u].task_id # -1
    BY DEF AllStuck
  <2> HIDE DEF all, blocked
  <2>2. threads[u].task_id \in Tasks
    BY <1>2, <2>1
  <2>3. threads[u].task_id >= 0
    BY <2>2, TasksAreNats
  <2> QED BY <2>3 DEF all
<1> HIDE DEF all, blocked
<1>7. all # {} /\ Cardinality(blocked) = Cardinality(all)
  BY <1>5, <1>6
<1> QED BY <1>7 DEF is_in_deadlock, all, blocked, Stuck

(* If moreover nobody is merely BLOCKED, all_bufn says so.                 *)
LEMMA StuckIsBufn ==
  ASSUME AdaptorInv, CallInv, AllStuck, InState(threads, "BLOCKED") = {}, NEW java_blocked
  PROVE  all_bufn(threads, java_blocked) /\ InState(threads, "BUFN") # {}
<1> DEFINE Bufn(u) == is_thread_bufn_or_above(u, threads[u], java_blocked)
           all == {threads[u].task_id : u \in {v \in Threads : threads[v].task_id >= 0}}
           dedicated == {threads[u].task_id : u \in {v \in Threads : threads[v].task_id >= 0 /\ Bufn(v)}}
           Pool(k) == {u \in Threads : threads[u].task_id < 0 /\ k \in threads[u].pool_task_ids}
           pool == {k \in Tasks : Pool(k) # {} /\ \A u \in Pool(k) : Bufn(u)}
<1>1. \A u \in Threads : registered(threads[u]) => threads[u].state = "BUFN"
  BY DEF AllStuck, is_blocked, InState
<1>2. \A u \in Threads : registered(threads[u]) => Bufn(u)
  BY <1>1 DEF is_thread_bufn_or_above
<1>3. \A u \in Threads : /\ threads[u].task_id \in Tasks \cup {-1}
                         /\ ~registered(threads[u]) =>
                              threads[u].task_id = -1 /\ threads[u].pool_task_ids = {}
  BY LockedStart DEF Fine, Blank, ThreadRecord
<1> HIDE DEF Bufn
<1>4. dedicated = all
  <2>1. ~(-1 >= 0)
    OBVIOUS
  <2> QED BY <1>2, <1>3, <2>1
<1>5. pool \subseteq all
  <2> SUFFICES ASSUME NEW k \in Tasks, NEW u \in Threads, k \in threads[u].pool_task_ids
               PROVE  \E v \in Threads : threads[v].task_id >= 0 /\ k = threads[v].task_id
    OBVIOUS
  <2>1. registered(threads[u])
    BY <1>3
  <2>2. PICK v \in Threads : threads[v].task_id = k
    BY <2>1 DEF AllStuck
  <2> QED BY <2>2, TasksAssumption
<1>6. PICK u \in Threads : registered(threads[u])
  BY DEF AllStuck
<1> HIDE DEF all, dedicated, pool
<1>7. Cardinality(all) = Cardinality(dedicated \cup pool)
  <2>1. dedicated \cup pool = all
    BY <1>4, <1>5
  <2> QED BY <2>1
<1> QED BY <1>1, <1>6, <1>7 DEF all_bufn, all, dedicated, pool, Bufn, InState

(* When everybody waits for everybody, one round of the watchdog gets some *)
(* thread going, for any number of threads and tasks.                      *)
THEOREM DeadlocksAreBroken == Spec => []DeadlockIsBroken
<1>1. ASSUME AdaptorInv, CallInv PROVE DeadlockIsBroken
  <2> SUFFICES ASSUME AllStuck, NEW java_blocked \in SUBSET Threads
               PROVE  \E t \in Threads :
                        /\ is_blocked(threads[t].state)
                        /\ ~is_blocked(check_and_update_for_bufn(Locked, java_blocked).threads[t].state)
    BY DEF DeadlockIsBroken
  <2> DEFINE rb == roll_back_lowest_blocked(Locked)
             sp == split_highest_bufn(rb)
  <2>1. /\ Locked \in LockedRecord /\ TotallyOrders(Locked.order) /\ Locked.threads = threads
    BY <1>1, LockedStart
  <2>2. check_and_update_for_bufn(Locked, java_blocked) =
          IF all_bufn(threads, java_blocked) THEN sp ELSE rb
    BY <1>1, <2>1, StuckIsDeadlock DEF check_and_update_for_bufn
  <2>3. rb \in LockedRecord /\ TotallyOrders(rb.order)
    BY <2>1, RollBackNudges DEF Nudged
  <2>4. CASE InState(threads, "BLOCKED") # {}
    <3>1. PICK u \in InState(threads, "BLOCKED") : rb.threads[u].state \in {"RUNNING", "BUFN_THROW"}
      BY <2>1, <2>4, RollBackFreesOne
    <3>2. u \in Threads /\ is_blocked(threads[u].state)
      BY <3>1 DEF InState, is_blocked
    <3> HIDE DEF rb
    <3>3. sp.threads[u] = rb.threads[u]
      BY <2>3, <3>1, <3>2, SplitNudges
    <3> QED BY <2>2, <3>1, <3>2, <3>3 DEF is_blocked
  <2>5. CASE InState(threads, "BLOCKED") = {}
    <3>1. all_bufn(threads, java_blocked) /\ InState(threads, "BUFN") # {}
      BY <1>1, <2>5, StuckIsBufn
    <3>2. rb = Locked
      BY <2>1, <2>5 DEF roll_back_lowest_blocked
    <3>3. PICK u \in InState(threads, "BUFN") : split_highest_bufn(Locked).threads[u].state = "SPLIT_THROW"
      BY <2>1, <3>1, SplitFreesOne
    <3>4. u \in Threads /\ is_blocked(threads[u].state)
      BY <3>3 DEF InState, is_blocked
    <3> QED BY <2>2, <3>1, <3>2, <3>3, <3>4 DEF is_blocked
  <2> QED BY <2>4, <2>5
<1> QED BY <1>1, CallInvariant, PTL
=============================================================================
