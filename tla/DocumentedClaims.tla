-------------------------- MODULE DocumentedClaims --------------------------
(***************************************************************************)
(* What comments and docs/memory_management.md say of the resource         *)
(* adaptor and the code does not do.  WaitingThreadsAreNotRemoved has a    *)
(* run (MCClaimRemoval.cfg).  The constants of MCLifecycle.cfg violate     *)
(* AllDoneWaitsForThreads and WatchdogKnowsThreads, those of MCPools.cfg   *)
(* AllBufnMeansSplit.                                                      *)
(***************************************************************************)
EXTENDS SparkResourceAdaptor

(* docs/memory_management.md: "If all threads are in the THREAD_BUFN state *)
(* [one] is selected to split".  The check counts tasks that have a        *)
(* dedicated thread against tasks that are BUFN, so a BUFN pool thread     *)
(* whose task has no dedicated thread keeps every thread asleep.           *)
AllBufnMeansSplit ==
  LET R == {t \in Threads : registered(threads[t])}
      s == check_and_update_for_bufn(Locked, {})
  IN  R # {} /\ (\A t \in R : threads[t].state = "BUFN") =>
        \E t \in R : s.threads[t].state = "SPLIT_THROW"

(* remove_thread_association: a thread that is "currently blocked/waiting  *)
(* [...] will not be immediately removed, but is instead marked that it    *)
(* needs to wake up and throw".  A thread that was just notified still     *)
(* waits for the mutex, but its state says RUNNING and it is removed.      *)
WaitingThreadsAreNotRemoved ==
  \A t \in Threads : asleep(t) => registered(threads[t])

(* all_done: "grab the semaphore again and see if wait until threads is    *)
(* empty [...] we have a timeout just in case".  The predicate is negated, *)
(* so the wait ends at once exactly when there are threads left.           *)
AllDoneWaitsForThreads ==
  adaptor = "returned" => \A t \in Threads : ~registered(threads[t])

(* ThreadStateRegistry: "used to allow us to map a native thread id to a   *)
(* java thread so we can look at the state".  The fix-up of a thread that  *)
(* moves to another task removes the entry made just before.               *)
WatchdogKnowsThreads ==
  \A t \in Threads :
    threads[t].state \notin {"UNKNOWN", "REMOVE_THROW"} => t \in known_threads
=============================================================================
