------------------------------ MODULE Profiler ------------------------------
(***************************************************************************)
(* The CUDA profiler: Profiler.java, ProfilerJni.cpp and the file that     *)
(* profiler_serializer writes.  CUPTI fills buffers with activity records  *)
(* and hands full ones to buffer_completed_callback; a writer thread takes *)
(* them from a queue, serializes them and gives the buffers back.  Java    *)
(* calls init, start, stop and shutdown; the process may crash.            *)
(*                                                                         *)
(* Every init makes a new subscriber_state, a session; the old ones are    *)
(* never deleted.                                                          *)
(***************************************************************************)
EXTENDS ProfileFormat

CONSTANTS
    Scripts,          \* sequences of activities CUPTI may record
    BufferCapacity,   \* activities a CUPTI buffer holds
    FlushThreshold,   \* records that make a flatbuffer full
    NUM_CACHED_BUFFERS,
    MaxSessions,      \* bound on init
    NoSession

Elements(seq) == {seq[k] : k \in DOMAIN seq}

\* The activities of the scripts.
ScriptActivities == UNION {Elements(s) : s \in Scripts}

ASSUME ScriptsAssumption == Scripts \subseteq Seq(ScriptActivities)
ASSUME CapacityAssumption == NUM_CACHED_BUFFERS \in Nat
ASSUME SessionsAssumption == MaxSessions \in Nat /\ NoSession \notin 1 .. MaxSessions

VARIABLES
    script,     \* what CUPTI is still going to record
    writer,     \* Profiler.writer: the session, or NoSession
    State,      \* the native State pointer: the newest session, or NoSession
    session,    \* the subscriber_state of every session
    thread,     \* its writer thread
    cupti,      \* [enabled, subscribed, filling, full, dropped, made]: the activity kinds, the
                \* callbacks, the buffer in use, full ones, records without a buffer, buffers made
    closing,    \* where nativeShutdown is: "no", "flushed", "joining"
    alive       \* the process has not crashed

profilerVars == <<script, writer, State, session, thread, cupti, closing, alive>>

Sessions == 1 .. MaxSessions
NoBuffer == [no |-> 0, records |-> << >>]

\* accepted is a history: the buffers the queue took.
NewSession == [queue |-> << >>, shut |-> FALSE, is_shutdown |-> FALSE, free |-> << >>, accepted |-> << >>]

\* A writer thread; at is the session whose queue it is waiting in.
NewThread == [pc |-> "none", at |-> NoSession, asleep |-> FALSE, work |-> NoBuffer, fbb |-> << >>,
              failed |-> FALSE, file |-> [parts |-> << >>, whole |-> TRUE]]

ProfilerInit ==
    /\ script \in Scripts
    /\ writer = NoSession /\ State = NoSession
    /\ session = [s \in Sessions |-> NewSession]
    /\ thread = [s \in Sessions |-> NewThread]
    /\ cupti = [enabled |-> FALSE, subscribed |-> FALSE, filling |-> NoBuffer, full |-> << >>,
                dropped |-> 0, made |-> 0]
    /\ closing = "no" /\ alive = TRUE

-----------------------------------------------------------------------------
(* Queue and stack of buffers.  Operators map a session to a session. *)

\* completed_buffer_queue::put, of a sequence of buffers; a closed queue
\* frees them.
put_completed(se, done) ==
    IF se.shut THEN se ELSE [se EXCEPT !.queue = @ \o done, !.accepted = @ \o done]

\* Mutant: keeps every buffer.
put_free_unbounded(se, b) == [se EXCEPT !.free = Append(@, b.no)]

\* free_buffer_tracker::put, a bounded stack.
put_free(se, b) ==
    IF Len(se.free) < NUM_CACHED_BUFFERS THEN [se EXCEPT !.free = Append(@, b.no)] ELSE se

\* buffer_completed_callback, for a sequence of buffers.
buffer_completed_callback(se, done) == IF se.is_shutdown THEN se ELSE put_completed(se, done)

\* notify_one, n times: n of the threads asleep in the queue of x wake.
notify_one(x, n) ==
    LET asleep == {t \in Sessions : thread[t].asleep /\ thread[t].at = x}
        count == IF n < Cardinality(asleep) THEN n ELSE Cardinality(asleep)
    IN  \E woken \in SUBSET asleep :
          /\ Cardinality(woken) = count
          /\ thread' = [t \in Sessions |-> IF t \in woken THEN [thread[t] EXCEPT !.asleep = FALSE]
                                           ELSE thread[t]]

\* Full buffers arrive at the queue of the State of now.
Deliver(done) ==
    LET after == buffer_completed_callback(session[State], done)
    IN  /\ session' = [session EXCEPT ![State] = after]
        /\ notify_one(State, Len(after.accepted) - Len(session[State].accepted))

\* cuptiActivityFlushAll: every buffer with records is completed.
Flushed == cupti.full \o (IF cupti.filling.records = << >> THEN << >> ELSE <<cupti.filling>>)
Emptied == [cupti EXCEPT !.full = << >>, !.filling = IF @.records = << >> THEN @ ELSE NoBuffer]

-----------------------------------------------------------------------------
(* Java calls, of one thread. *)

\* Profiler.init and nativeInit.  A CUPTI call that fails throws after State
\* and the writer thread were made: Java does not remember the session.
init ==
    /\ alive /\ closing = "no" /\ writer = NoSession
    /\ \E s \in Sessions :
        /\ thread[s].pc = "none" /\ \A t \in 1 .. s - 1 : thread[t].pc # "none"
        /\ State' = s
        /\ thread' = [thread EXCEPT ![s].pc = "start"]
        /\ \/ writer' = s /\ cupti' = [cupti EXCEPT !.subscribed = TRUE]
           \/ writer' = NoSession /\ UNCHANGED cupti
    /\ UNCHANGED <<script, session, closing, alive>>

\* Profiler.start: every kind of activity is enabled.
start ==
    /\ alive /\ closing = "no" /\ writer # NoSession /\ ~session[State].is_shutdown
    /\ ~cupti.enabled
    /\ cupti' = [cupti EXCEPT !.enabled = TRUE]
    /\ UNCHANGED <<script, writer, State, session, thread, closing, alive>>

\* Profiler.stop: disabled, then flushed.
stop ==
    /\ alive /\ closing = "no" /\ writer # NoSession /\ ~session[State].is_shutdown
    /\ cupti.enabled
    /\ Deliver(Flushed)
    /\ cupti' = [Emptied EXCEPT !.enabled = FALSE]
    /\ UNCHANGED <<script, writer, State, closing, alive>>

\* Profiler.shutdown and nativeShutdown, first part: unsubscribe and flush.
\* The activity kinds stay enabled.
shutdown ==
    /\ alive /\ closing = "no" /\ writer # NoSession /\ ~session[State].is_shutdown
    /\ Deliver(Flushed)
    /\ cupti' = [Emptied EXCEPT !.subscribed = FALSE]
    /\ closing' = "flushed"
    /\ UNCHANGED <<script, writer, State, alive>>

\* Mutant: does not wake the writer thread.
shutdown_queue_silent ==
    /\ alive /\ closing = "flushed"
    /\ session' = [session EXCEPT ![State].shut = TRUE]
    /\ closing' = "joining"
    /\ UNCHANGED <<script, writer, State, thread, cupti, alive>>

\* completed_buffer_queue::shutdown.
shutdown_queue ==
    /\ alive /\ closing = "flushed"
    /\ session' = [session EXCEPT ![State].shut = TRUE]
    /\ notify_one(State, 1)
    /\ closing' = "joining"
    /\ UNCHANGED <<script, writer, State, cupti, alive>>

\* The writer thread is joined.  An error of the CUPTI calls above is thrown
\* only now: then Java neither closes nor forgets its writer.
join_writer ==
    /\ alive /\ closing = "joining" /\ thread[State].pc = "exited"
    /\ session' = [session EXCEPT ![State].is_shutdown = TRUE]
    /\ closing' = "no"
    /\ writer' \in {NoSession, writer}
    /\ UNCHANGED <<script, State, thread, cupti, alive>>

\* Profiler.shutdown again, after such an error.
shutdown_again ==
    /\ alive /\ closing = "no" /\ writer # NoSession /\ session[State].is_shutdown
    /\ writer' = NoSession
    /\ UNCHANGED <<script, State, session, thread, cupti, closing, alive>>

-----------------------------------------------------------------------------
(* CUPTI. *)

\* buffer_requested_callback, when CUPTI has no buffer: the top of the stack
\* of free buffers or a new one, and none after the shutdown.
buffer_requested_callback ==
    /\ alive /\ cupti.enabled /\ script # << >> /\ cupti.filling.no = 0
    /\ IF session[State].is_shutdown
       THEN /\ cupti' = [cupti EXCEPT !.dropped = @ + 1]
            /\ script' = Tail(script)
            /\ UNCHANGED session
       ELSE /\ IF session[State].free # << >>
               THEN /\ cupti' = [cupti EXCEPT !.filling = [no |-> Last(session[State].free), records |-> << >>]]
                    /\ session' = [session EXCEPT ![State].free = Front(@)]
               ELSE /\ cupti' = [cupti EXCEPT !.filling = [no |-> cupti.made + 1, records |-> << >>],
                                              !.made = @ + 1]
                    /\ UNCHANGED session
            /\ UNCHANGED script
    /\ UNCHANGED <<writer, State, thread, closing, alive>>

\* An activity is recorded; a full buffer waits to be handed over.
record_activity ==
    /\ alive /\ cupti.enabled /\ script # << >> /\ cupti.filling.no # 0
    /\ LET filled == [cupti.filling EXCEPT !.records = Append(@, Head(script))]
       IN  cupti' = IF Len(filled.records) = BufferCapacity
                    THEN [cupti EXCEPT !.filling = NoBuffer, !.full = Append(@, filled)]
                    ELSE [cupti EXCEPT !.filling = filled]
    /\ script' = Tail(script)
    /\ UNCHANGED <<writer, State, session, thread, closing, alive>>

\* CUPTI's own thread hands over a full buffer, also during a shutdown.
complete_buffer ==
    /\ alive /\ cupti.full # << >>
    /\ Deliver(<<Head(cupti.full)>>)
    /\ cupti' = [cupti EXCEPT !.full = Tail(@)]
    /\ UNCHANGED <<script, writer, State, closing, alive>>

\* callback_handler: a kernel launch that finds the flush period over, or a
\* device reset, flushes.
callback_handler ==
    /\ alive /\ cupti.subscribed /\ Flushed # << >>
    /\ Deliver(Flushed)
    /\ cupti' = Emptied
    /\ UNCHANGED <<script, writer, State, closing, alive>>

-----------------------------------------------------------------------------
(* Writer threads. *)

flush(th) == IF th.fbb = << >> THEN th
             ELSE [th EXCEPT !.file.parts = Append(@, th.fbb), !.fbb = << >>]

\* One record of process_cupti_buffer.
process_next(th) ==
    LET kept == [th EXCEPT !.fbb = @ \o process_record(Head(th.work.records)),
                           !.work.records = Tail(@)]
    IN  IF Len(kept.fbb) >= FlushThreshold THEN flush(kept) ELSE kept

writerVars == <<script, writer, State, cupti, closing, alive>>

\* profiler_serializer::profiler_serializer; when attaching or the lookup of
\* the write method fails the thread goes on without writing.
writer_start(t) ==
    /\ alive /\ thread[t].pc = "start"
    /\ \E failed \in BOOLEAN : thread' = [thread EXCEPT ![t].pc = "get", ![t].failed = failed]
    /\ UNCHANGED <<session, writerVars>>

\* Mutant: minds the shutdown before it empties the queue.
writer_get_hasty(t) ==
    LET th == thread[t]
        x == IF th.at = NoSession THEN State ELSE th.at
    IN  /\ alive /\ th.pc = "get" /\ ~th.asleep
        /\ IF session[x].queue # << >> /\ ~session[x].shut
           THEN /\ thread' = [thread EXCEPT ![t].pc = "work", ![t].at = NoSession,
                                            ![t].work = Head(session[x].queue)]
                /\ session' = [session EXCEPT ![x].queue = Tail(@)]
           ELSE /\ thread' = [thread EXCEPT ![t] =
                     IF ~session[x].shut THEN [th EXCEPT !.asleep = TRUE, !.at = x]
                     ELSE [(IF th.failed THEN th ELSE flush(th)) EXCEPT !.pc = "exited"]]
                /\ UNCHANGED session
        /\ UNCHANGED writerVars

\* completed_buffer_queue::get on the State of now, or on the one the thread
\* fell asleep in.  It empties the queue before it minds the shutdown; the
\* last flush ends the thread.
writer_get(t) ==
    LET th == thread[t]
        x == IF th.at = NoSession THEN State ELSE th.at
    IN  /\ alive /\ th.pc = "get" /\ ~th.asleep
        /\ IF session[x].queue # << >>
           THEN /\ thread' = [thread EXCEPT ![t].pc = "work", ![t].at = NoSession,
                                            ![t].work = Head(session[x].queue)]
                /\ session' = [session EXCEPT ![x].queue = Tail(@)]
           ELSE /\ thread' = [thread EXCEPT ![t] =
                     IF ~session[x].shut THEN [th EXCEPT !.asleep = TRUE, !.at = x]
                     ELSE [(IF th.failed THEN th ELSE flush(th)) EXCEPT !.pc = "exited"]]
                /\ UNCHANGED session
        /\ UNCHANGED writerVars

writer_process(t) ==
    /\ alive /\ thread[t].pc = "work" /\ ~thread[t].failed /\ thread[t].work.records # << >>
    /\ thread' = [thread EXCEPT ![t] = process_next(@)]
    /\ UNCHANGED <<session, writerVars>>

\* The buffer goes to the stack of the State of now.
writer_return(t) ==
    /\ alive /\ thread[t].pc = "work"
    /\ thread[t].failed \/ thread[t].work.records = << >>
    /\ thread' = [thread EXCEPT ![t].pc = "get", ![t].work = NoBuffer]
    /\ session' = [session EXCEPT ![State] = put_free(@, thread[t].work)]
    /\ UNCHANGED writerVars

writer_thread_process(t) == writer_start(t) \/ writer_get(t) \/ writer_process(t) \/ writer_return(t)

\* The process dies while a thread writes, which cuts its flatbuffer off.
crash ==
    /\ alive
    /\ alive' = FALSE
    /\ \E t \in Sessions :
        /\ thread[t].fbb # << >>
        /\ thread' = [thread EXCEPT ![t].file = [parts |-> Append(@.parts, thread[t].fbb), whole |-> FALSE],
                                    ![t].fbb = << >>]
    /\ UNCHANGED <<script, writer, State, session, cupti, closing>>

ProfilerNext ==
    \/ init \/ start \/ stop \/ shutdown \/ shutdown_queue \/ join_writer \/ shutdown_again
    \/ buffer_requested_callback \/ record_activity \/ complete_buffer \/ callback_handler
    \/ \E t \in Sessions : writer_thread_process(t)
    \/ crash

\* Threads run, and shutdown goes on once called.
ProfilerFairness ==
    /\ WF_profilerVars(shutdown_queue) /\ WF_profilerVars(join_writer)
    /\ \A t \in Sessions : WF_profilerVars(writer_thread_process(t))

ProfilerSpec == ProfilerInit /\ [][ProfilerNext]_profilerVars /\ ProfilerFairness

-----------------------------------------------------------------------------
(* Properties. *)

Activities(buffers) == FlattenSeq([k \in DOMAIN buffers |-> buffers[k].records])
Kept(activities) == FlattenSeq([k \in DOMAIN activities |-> process_record(activities[k])])
Serialized(t) == FlattenSeq(thread[t].file.parts) \o thread[t].fbb
PlainKinds == {"api", "kernel", "memcpy", "memset", "overhead"}

\* What a session's queue accepted reaches its file: at any moment, kind by
\* kind, the file, the flatbuffer being built, the buffer being processed and
\* the queue hold every record the filters keep, once and in the order of
\* arrival; a thread that ended has written all of it.  (A session whose init
\* failed may lend its thread to the next one; then there is no order.)
NoRecordLost ==
    \A s \in Sessions :
        /\ \A t \in Sessions : thread[t].pc # "none" => t = s
        /\ ~thread[s].failed
        => /\ \A kind \in PlainKinds \cup {"marker", "marker_data", "device"} :
                Vector(kind, Serialized(s) \o Kept(thread[s].work.records) \o Kept(Activities(session[s].queue)))
                  = Vector(kind, Kept(Activities(session[s].accepted)))
           /\ thread[s].pc = "exited" => /\ thread[s].fbb = << >>
                                         /\ session[s].queue = << >>

\* Where buffers are, and the numbers of those at place p.
BufferPlaces == ({"free", "queue", "work"} \X Sessions) \cup ({"full", "filling"} \X {NoSession})

Numbers(buffers) == [k \in DOMAIN buffers |-> buffers[k].no]
NumberOf(b) == IF b.no = 0 THEN << >> ELSE <<b.no>>

Held(p) ==
    CASE p[1] = "free"    -> session[p[2]].free
      [] p[1] = "queue"   -> Numbers(session[p[2]].queue)
      [] p[1] = "work"    -> NumberOf(thread[p[2]].work)
      [] p[1] = "full"    -> Numbers(cupti.full)
      [] p[1] = "filling" -> NumberOf(cupti.filling)

\* A buffer has one owner, and is there once: a stack of free buffers, a
\* queue, a writer thread or CUPTI.  The stacks keep to their bound.
BuffersHaveOneOwner ==
    /\ \A p, q \in BufferPlaces : \A i \in DOMAIN Held(p), j \in DOMAIN Held(q) :
          Held(p)[i] = Held(q)[j] => p = q /\ i = j
    /\ \A s \in Sessions : Len(session[s].free) <= NUM_CACHED_BUFFERS

\* What the converter makes of a range: a start and the next marker of its
\* id, an end, that both name an object.
RangeOf(parts, i, j) ==
    LET ms == Vector("marker", FlattenSeq(parts))
    IN  /\ i < j /\ ms[i].id = ms[j].id /\ ms[i].flag = "start" /\ ms[j].flag = "end"
        /\ ms[i].object # "none" /\ ms[j].object # "none"
        /\ \A k \in i + 1 .. j - 1 : ms[k].id # ms[i].id

Drawn(out, r1, r2) == Cardinality({k \in DOMAIN out : out[k].of = r1.no /\ out[k].last = r2.no}) = 1

\* Converting a file, also one cut off by a crash, draws every activity that
\* is completely in it once, and every range from its start to its end, even
\* when they are in different flatbuffers; a file split into chunks keeps the
\* ranges that do not cross a chunk.
ConversionDrawsAll ==
    \A t \in Sessions : (thread[t].pc = "exited" \/ ~alive) =>
        LET file == thread[t].file
            parts == complete_parts(file)
            whole(out, ps) ==
              LET ms == Vector("marker", FlattenSeq(ps))
              IN  /\ \A i, j \in DOMAIN ms : RangeOf(ps, i, j) => Drawn(out, ms[i], ms[j])
                  /\ \A r \in Elements(FlattenSeq(ps)) :
                        r.kind \in PlainKinds /\ (r.kind = "overhead" => r.object # "none") => Drawn(out, r, r)
            text == convert_to_nvtxt(file)
            chunked(first, n) == SubSeq(parts, first, IF n = 0 \/ first + n - 1 > Len(parts) THEN Len(parts)
                                                      ELSE first + n - 1)
        IN  /\ text.error \in {"none", "Unexpected EOF"} => whole(text.out, parts)
            /\ convert_to_json(file).out = FlattenSeq(parts)
            /\ (text.error = "none") => file.whole /\ parts # << >>
            /\ \A n \in 0 .. 2 : \A first \in chunk_starts(file, n) :
                  LET w == convert_to_nvtxw(file, TRUE, first, n)
                  IN  w.error = "none" => whole(w.out, chunked(first, n))

\* A shutdown returns, whatever CUPTI still delivers, unless a thread of a
\* failed init waits in the same queue and takes the only wake-up.
ShutdownReturns ==
    (closing = "flushed" /\ \A t \in Sessions : t # State => thread[t].pc \in {"none", "exited"})
        ~> (closing = "no" \/ ~alive)
=============================================================================
