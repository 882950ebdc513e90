--------------------------- MODULE ProfilerProofs ---------------------------
(***************************************************************************)
(* The profiler loses no record and gives no buffer two owners, for any    *)
(* scripts of activities, buffer capacities, flush thresholds and number   *)
(* of sessions.                                                            *)
(*                                                                         *)
(* Every step is first reduced to what it does to buffers and to records   *)
(* (StepKinds): it hands buffers over to a queue, lets CUPTI request or    *)
(* fill one, lets a writer take, process or return one, ends a writer, or  *)
(* moves nothing.  Two invariants are then kept by every kind.             *)
(*                                                                         *)
(* Records (Written): the text of a session's writer, the rest of its      *)
(* buffer and its queue, passed through the filters, are what the queue    *)
(* ever took.  FlattenSeq is a recursion, so the proof needs first that    *)
(* flattening, and with it filtering, distributes over concatenation.      *)
(*                                                                         *)
(* Buffers (Owners): the places hold injective sequences of numbers that   *)
(* share none.  A step moves some numbers from its sources to one other    *)
(* place (Moves), loses some (Shrinks), or brings the next new one.        *)
(***************************************************************************)
EXTENDS Profiler, FiniteOrders, SequenceTheorems

\* What a filter makes of an activity.
Records == ScriptActivities \cup {[r EXCEPT !.object = "none"] : r \in ScriptActivities}

\* The types; pieces of the state have one each.
Buffers == [no : Nat \ {0}, records : Seq(ScriptActivities)]
Pcs == {"none", "start", "get", "work", "exited"}
SessionRecord == [queue : Seq(Buffers), shut : BOOLEAN, is_shutdown : BOOLEAN, free : Seq(Nat \ {0}),
                  accepted : Seq(Buffers)]
FileRecord == [parts : Seq(Seq(Records)), whole : BOOLEAN]
ThreadRecord == [pc : Pcs, at : Sessions \cup {NoSession}, asleep : BOOLEAN, work : Buffers \cup {NoBuffer},
                 fbb : Seq(Records), failed : BOOLEAN, file : FileRecord]
CuptiRecord == [enabled : BOOLEAN, subscribed : BOOLEAN, filling : Buffers \cup {NoBuffer}, full : Seq(Buffers),
                dropped : Nat, made : Nat]

ProfilerType ==
    /\ script \in Seq(ScriptActivities)
    /\ writer \in Sessions \cup {NoSession} /\ State \in Sessions \cup {NoSession}
    /\ session \in [Sessions -> SessionRecord]
    /\ thread \in [Sessions -> ThreadRecord]
    /\ cupti \in CuptiRecord
    /\ closing \in {"no", "flushed", "joining"} /\ alive \in BOOLEAN

\* The records that some buffers stand for.
Yield(b) == Kept(Activities(b))

\* Concatenation, under a name of its own for the lemmas below.
Cat(a, b) == a \o b

\* Before the first init nothing is on.
Quiet ==
    /\ writer = NoSession /\ closing = "no"
    /\ ~cupti.enabled /\ ~cupti.subscribed /\ cupti.full = << >> /\ cupti.filling = NoBuffer
    /\ \A t \in Sessions : thread[t].pc = "none"

\* State points to a session whose thread was started; so does every wait.  A
\* thread has a buffer exactly while it works on one.
Placed ==
    /\ State = NoSession => Quiet
    /\ State # NoSession => thread[State].pc # "none"
    /\ \A t \in Sessions :
         /\ thread[t].at # NoSession => thread[thread[t].at].pc # "none"
         /\ thread[t].pc = "work" <=> thread[t].work.no # 0
         /\ thread[t].pc \in {"none", "start"} => ~thread[t].failed

\* s is the only session with a thread.
Alone(s) == \A t \in Sessions : thread[t].pc # "none" => t = s

\* What th has written or is about to write.
Text(th) == FlattenSeq(th.file.parts) \o th.fbb

\* What the queue of s took is in its file, in the flatbuffer, in the buffer at
\* work and in the queue, in this order.
Written(s) ==
    /\ Alone(s) /\ ~thread[s].failed
    => /\ Cat(Cat(Text(thread[s]), Kept(thread[s].work.records)), Yield(session[s].queue))
            = Yield(session[s].accepted)
       /\ thread[s].pc = "exited" => session[s].shut /\ thread[s].fbb = << >> /\ session[s].queue = << >>

-----------------------------------------------------------------------------
(* Concatenation and flattening. *)

(* It gives sequences, and the empty one is neutral.                       *)
LEMMA CatType ==
  ASSUME NEW S, NEW a \in Seq(S), NEW b \in Seq(S)
  PROVE  Cat(a, b) \in Seq(S) /\ Cat(a, << >>) = a /\ Cat(<< >>, a) = a
BY ConcatProperties, ConcatEmptySeq DEF Cat

(* It associates.                                                          *)
LEMMA CatAssociative ==
  ASSUME NEW S, NEW a \in Seq(S), NEW b \in Seq(S), NEW c \in Seq(S)
  PROVE  Cat(Cat(a, b), c) = Cat(a, Cat(b, c))
BY ConcatAssociative DEF Cat

\* f is the recursion that FlattenSeq runs over ss.
Flattens(f, ss) == f = [i \in 1 .. Len(ss) |-> IF i = 1 THEN ss[i] ELSE f[i - 1] \o ss[i]]

\* ss and tt are the same up to n.
AgreeUpto(ss, tt, n) == n <= Len(ss) /\ n <= Len(tt) /\ \A i \in 1 .. n : ss[i] = tt[i]

(* Two runs of it agree as far as their sequences do.                      *)
LEMMA FlattensAgree ==
  ASSUME NEW f, NEW g, NEW ss, NEW tt, Len(ss) \in Nat, Len(tt) \in Nat,
         Flattens(f, ss), Flattens(g, tt), NEW n \in Nat, AgreeUpto(ss, tt, n)
  PROVE  \A i \in 1 .. n : f[i] = g[i]
<1> DEFINE Bad == {i \in 1 .. n : f[i] # g[i]}
<1> SUFFICES ASSUME Bad # {} PROVE FALSE
  OBVIOUS
<1>1. Bad \in SUBSET Nat
  OBVIOUS
<1>2. PICK m \in Bad : \A i \in Bad : m <= i
  BY <1>1, NatWellOrdered
<1>3. m \in 1 .. n /\ f[m] # g[m]
  OBVIOUS
<1>4. \A i \in 1 .. Len(ss) : f[i] = IF i = 1 THEN ss[i] ELSE f[i - 1] \o ss[i]
  BY DEF Flattens
<1>5. \A i \in 1 .. Len(tt) : g[i] = IF i = 1 THEN tt[i] ELSE g[i - 1] \o tt[i]
  BY DEF Flattens
<1>6. ss[m] = tt[m] /\ m \in 1 .. Len(ss) /\ m \in 1 .. Len(tt)
  BY <1>3 DEF AgreeUpto
<1>7. m # 1
  BY <1>3, <1>4, <1>5, <1>6
<1>8. m - 1 \in 1 .. n /\ m - 1 \notin Bad
  <2>1. m - 1 \in 1 .. n /\ ~(m <= m - 1)
    BY <1>3, <1>7
  <2> HIDE DEF Bad
  <2> QED BY <1>2, <2>1
<1>9. f[m - 1] = g[m - 1]
  BY <1>8
<1> QED BY <1>3, <1>4, <1>5, <1>6, <1>7, <1>9

\* tt is ss and one more, the n + 1st; f and g run over them.
Extends(f, g, ss, tt, n) ==
    /\ n \in Nat /\ n # 0 /\ Len(ss) = n /\ Len(tt) = n + 1
    /\ Flattens(f, ss) /\ Flattens(g, tt) /\ AgreeUpto(ss, tt, n)

(* One sequence more is one step more.                                     *)
LEMMA FlattensExtends ==
  ASSUME NEW f, NEW g, NEW ss, NEW tt, NEW n, Extends(f, g, ss, tt, n)
  PROVE  g[n + 1] = Cat(f[n], tt[n + 1])
<1> USE DEF Extends
<1>1. Len(ss) \in Nat /\ Len(tt) \in Nat
  OBVIOUS
<1>2. \A i \in 1 .. n : f[i] = g[i]
  BY <1>1, FlattensAgree
<1>3. g[n + 1] = g[n] \o tt[n + 1]
  <2>1. n + 1 \in 1 .. Len(tt) /\ n + 1 # 1 /\ (n + 1) - 1 = n
    OBVIOUS
  <2> QED BY <2>1 DEF Flattens
<1>4. n \in 1 .. n
  OBVIOUS
<1> QED BY <1>2, <1>3, <1>4 DEF Cat

(* It is there for every sequence: by induction over the prefixes.         *)
LEMMA FlattensExists ==
  ASSUME NEW S, NEW ss \in Seq(Seq(S))
  PROVE  \E f \in [1 .. Len(ss) -> Seq(S)] : Flattens(f, ss)
<1> DEFINE Upto(n, f) == /\ f \in [1 .. n -> Seq(S)]
                         /\ \A i \in 1 .. n : f[i] = IF i = 1 THEN ss[i] ELSE f[i - 1] \o ss[i]
           Bad == {n \in 0 .. Len(ss) : ~\E f : Upto(n, f)}
<1>1. Len(ss) \in Nat /\ \A i \in 1 .. Len(ss) : ss[i] \in Seq(S)
  OBVIOUS
<1>2. 0 \notin Bad
  <2>1. Upto(0, [i \in 1 .. 0 |-> << >>])
    OBVIOUS
  <2> QED BY <2>1
<1>3. Bad = {}
  <2> SUFFICES ASSUME Bad # {} PROVE FALSE
    OBVIOUS
  <2>1. Bad \in SUBSET Nat
    BY <1>1
  <2>2. PICK m \in Bad : \A i \in Bad : m <= i
    BY <2>1, NatWellOrdered
  <2>3. m \in 1 .. Len(ss)
    BY <1>1, <1>2, <2>1, <2>2
  <2>4. m - 1 \in 0 .. Len(ss) /\ ~(m <= m - 1)
    BY <1>1, <2>3
  <2>5. m - 1 \notin Bad
    <3> HIDE DEF Bad
    <3> QED BY <2>2, <2>4
  <2>6. PICK f : Upto(m - 1, f)
    BY <2>4, <2>5
  <2> DEFINE e == IF m = 1 THEN ss[m] ELSE f[m - 1] \o ss[m]
             g == [i \in 1 .. m |-> IF i = m THEN e ELSE f[i]]
  <2>7. e \in Seq(S)
    <3>1. CASE m = 1
      BY <1>1, <2>3, <3>1
    <3>2. CASE m # 1
      <4>1. f[m - 1] \in Seq(S) /\ ss[m] \in Seq(S)
        BY <1>1, <2>3, <2>6, <3>2
      <4> QED BY <3>2, <4>1, ConcatProperties
    <3> QED BY <3>1, <3>2
  <2>8. \A i \in 1 .. m : i # m => i \in 1 .. m - 1
    BY <2>3
  <2>9. g \in [1 .. m -> Seq(S)]
    <3> HIDE DEF e
    <3> QED BY <2>6, <2>7, <2>8
  <2>10. ASSUME NEW i \in 1 .. m PROVE g[i] = IF i = 1 THEN ss[i] ELSE g[i - 1] \o ss[i]
    <3>1. i - 1 # m /\ (i # 1 => i - 1 \in 1 .. m)
      BY <2>3
    <3>2. i # 1 => g[i - 1] = f[i - 1]
      <4> HIDE DEF e
      <4> QED BY <3>1
    <3>3. CASE i = m
      BY <3>2, <3>3
    <3>4. CASE i # m
      <4>1. g[i] = f[i] /\ i \in 1 .. m - 1
        <5> HIDE DEF e
        <5> QED BY <2>8, <3>4
      <4> HIDE DEF g
      <4> QED BY <2>6, <3>2, <4>1
    <3> QED BY <3>3, <3>4
  <2>11. Upto(m, g)
    <3> HIDE DEF g
    <3> QED BY <2>9, <2>10
  <2>12. ~\E h : Upto(m, h)
    BY <2>2
  <2> HIDE DEF Upto, g
  <2> QED BY <2>11, <2>12
<1>4. PICK f : Upto(Len(ss), f)
  <2>1. Len(ss) \in 0 .. Len(ss)
    BY <1>1
  <2> QED BY <1>3, <2>1
<1>5. f = [i \in 1 .. Len(ss) |-> f[i]]
  BY <1>4
<1>6. Flattens(f, ss)
  BY <1>4, <1>5 DEF Flattens
<1> QED BY <1>4, <1>6

(* FlattenSeq is the last value of the recursion.                          *)
LEMMA FlattenUnfolds ==
  ASSUME NEW S, NEW ss \in Seq(Seq(S)), ss # << >>
  PROVE  \E f \in [1 .. Len(ss) -> Seq(S)] : Flattens(f, ss) /\ FlattenSeq(ss) = f[Len(ss)]
<1> DEFINE sol == CHOOSE f : Flattens(f, ss)
<1>1. PICK f \in [1 .. Len(ss) -> Seq(S)] : Flattens(f, ss)
  BY FlattensExists
<1>2. Flattens(sol, ss)
  BY <1>1
<1>3. Len(ss) # 0 /\ Len(ss) \in Nat
  BY EmptySeq, LenProperties
<1>4. FlattenSeq(ss) = sol[Len(ss)]
  BY <1>3 DEF FlattenSeq, Flattens
<1> HIDE DEF sol
<1>5. \A i \in 1 .. Len(ss) : sol[i] = f[i]
  <2>1. AgreeUpto(ss, ss, Len(ss))
    BY <1>3 DEF AgreeUpto
  <2> QED BY <1>1, <1>2, <1>3, <2>1, FlattensAgree
<1>6. Len(ss) \in 1 .. Len(ss)
  BY <1>3
<1> QED BY <1>1, <1>4, <1>5, <1>6

(* Flattening nothing.                                                     *)
LEMMA FlattenEmpty == FlattenSeq(<< >>) = << >>
BY DEF FlattenSeq

(* A flattened sequence is a sequence.                                     *)
LEMMA FlattenType ==
  ASSUME NEW S, NEW ss \in Seq(Seq(S)) PROVE FlattenSeq(ss) \in Seq(S)
<1>1. CASE ss = << >>
  <2>1. << >> \in Seq(S)
    OBVIOUS
  <2> QED BY <1>1, <2>1, FlattenEmpty
<1>2. CASE ss # << >>
  <2>1. PICK f \in [1 .. Len(ss) -> Seq(S)] : FlattenSeq(ss) = f[Len(ss)]
    BY <1>2, FlattenUnfolds
  <2>2. Len(ss) \in 1 .. Len(ss)
    BY <1>2, EmptySeq, LenProperties
  <2> QED BY <2>1, <2>2
<1> QED BY <1>1, <1>2

(* What is appended is flattened last.                                     *)
LEMMA FlattenAppend ==
  ASSUME NEW S, NEW ss \in Seq(Seq(S)), NEW x \in Seq(S)
  PROVE  FlattenSeq(Append(ss, x)) = Cat(FlattenSeq(ss), x)
<1>0. PICK tt : tt = Append(ss, x)
  OBVIOUS
<1>1. tt \in Seq(Seq(S)) /\ tt # << >> /\ Len(tt) = Len(ss) + 1
      /\ (\A i \in 1 .. Len(ss) : tt[i] = ss[i]) /\ tt[Len(ss) + 1] = x
  BY <1>0, AppendProperties
<1>2. Len(ss) \in Nat
  BY LenProperties
<1>3. PICK g \in [1 .. Len(tt) -> Seq(S)] : Flattens(g, tt) /\ FlattenSeq(tt) = g[Len(tt)]
  BY <1>1, FlattenUnfolds
<1>4. CASE ss = << >>
  <2>1. Len(tt) = 1 /\ tt[1] = x
    BY <1>1, <1>4
  <2>2. g[1] = x
    BY <1>3, <2>1 DEF Flattens
  <2>3. Cat(<< >>, x) = x
    BY CatType
  <2> QED BY <1>0, <1>3, <1>4, <2>1, <2>2, <2>3, FlattenEmpty
<1>5. CASE ss # << >>
  <2>1. PICK n : n = Len(ss)
    OBVIOUS
  <2>2. n \in Nat /\ n # 0 /\ Len(tt) = n + 1 /\ tt[n + 1] = x
    BY <1>1, <1>2, <1>5, <2>1, EmptySeq
  <2>3. PICK f : Flattens(f, ss) /\ FlattenSeq(ss) = f[n]
    BY <1>5, <2>1, FlattenUnfolds
  <2>4. AgreeUpto(ss, tt, n)
    BY <1>1, <2>1, <2>2 DEF AgreeUpto
  <2>5. Extends(f, g, ss, tt, n)
    BY <1>3, <2>1, <2>2, <2>3, <2>4 DEF Extends
  <2>6. g[n + 1] = Cat(f[n], tt[n + 1])
    BY <2>5, FlattensExtends
  <2> QED BY <1>0, <1>3, <2>2, <2>3, <2>6
<1> QED BY <1>4, <1>5

(* Appending to the second of two sequences is appending to both.          *)
LEMMA CatAppend ==
  ASSUME NEW S, NEW a \in Seq(S), NEW b \in Seq(S), NEW e \in S
  PROVE  Cat(a, Append(b, e)) = Append(Cat(a, b), e)
<1>1. Append(b, e) = b \o <<e>> /\ <<e>> \in Seq(S) /\ a \o b \in Seq(S)
  BY AppendIsConcat, ConcatProperties
<1>2. Append(a \o b, e) = (a \o b) \o <<e>>
  BY <1>1, AppendIsConcat
<1> QED BY <1>1, <1>2, ConcatAssociative DEF Cat

(* Flattening distributes over concatenation: by induction over b.         *)
LEMMA FlattenCat ==
  ASSUME NEW S, NEW a \in Seq(Seq(S)), NEW b \in Seq(Seq(S))
  PROVE  FlattenSeq(Cat(a, b)) = Cat(FlattenSeq(a), FlattenSeq(b))
<1> DEFINE Good(c) == FlattenSeq(Cat(a, c)) = Cat(FlattenSeq(a), FlattenSeq(c))
           Bad == {Len(c) : c \in {d \in Seq(Seq(S)) : ~Good(d)}}
<1>0. PICK Q : Q = Seq(S)
  OBVIOUS
<1> SUFFICES ASSUME Bad # {} PROVE FALSE
  OBVIOUS
<1>1. Bad \in SUBSET Nat
  BY LenProperties
<1>2. PICK m \in Bad : \A n \in Bad : m <= n
  BY <1>1, NatWellOrdered
<1>3. PICK c \in Seq(Seq(S)) : ~Good(c) /\ m = Len(c)
  OBVIOUS
<1>4. c # << >>
  <2>1. FlattenSeq(a) \in Seq(S) /\ Cat(a, << >>) = a
    BY FlattenType, CatType
  <2>2. Cat(FlattenSeq(a), << >>) = FlattenSeq(a)
    BY <2>1, CatType
  <2>3. Good(<< >>)
    BY <2>1, <2>2, FlattenEmpty
  <2> HIDE DEF Good
  <2> QED BY <1>3, <2>3
<1>5. PICK d \in Seq(Seq(S)), e \in Seq(S) : c = Append(d, e)
  BY <1>4, SequenceEmptyOrAppend
<1>6. Good(d)
  <2>1. Len(d) \in Nat /\ m = Len(d) + 1
    BY <1>3, <1>5, AppendProperties, LenProperties
  <2>2. ~(m <= Len(d))
    BY <2>1
  <2>3. Len(d) \notin Bad
    <3> HIDE DEF Bad
    <3> QED BY <1>2, <2>2
  <2> HIDE DEF Good
  <2> QED BY <2>3
<1> HIDE DEF Bad
<1>7. Good(Append(d, e))
  <2>1. Cat(a, Append(d, e)) = Append(Cat(a, d), e) /\ Cat(a, d) \in Seq(Seq(S))
    <3>1. a \in Seq(Q) /\ d \in Seq(Q) /\ e \in Q
      BY <1>0, <1>5
    <3> HIDE DEF Good
    <3>2. Cat(a, d) \in Seq(Q)
      BY <3>1, CatType
    <3>3. Cat(a, Append(d, e)) = Append(Cat(a, d), e)
      BY <3>1, CatAppend
    <3> QED BY <1>0, <3>2, <3>3
  <2>2. FlattenSeq(Append(Cat(a, d), e)) = Cat(FlattenSeq(Cat(a, d)), e)
    BY <1>5, <2>1, FlattenAppend
  <2>3. FlattenSeq(a) \in Seq(S) /\ FlattenSeq(d) \in Seq(S) /\ e \in Seq(S)
    BY <1>5, FlattenType
  <2>4. Cat(Cat(FlattenSeq(a), FlattenSeq(d)), e) = Cat(FlattenSeq(a), Cat(FlattenSeq(d), e))
    BY <2>3, CatAssociative
  <2>5. FlattenSeq(Append(d, e)) = Cat(FlattenSeq(d), e)
    BY <1>5, FlattenAppend
  <2> QED BY <1>6, <2>1, <2>2, <2>4, <2>5
<1> HIDE DEF Good
<1> QED BY <1>3, <1>5, <1>7

(* Flattening one sequence.                                                *)
LEMMA FlattenOne ==
  ASSUME NEW S, NEW x \in Seq(S) PROVE FlattenSeq(<<x>>) = x
<1>1. << >> \in Seq(Seq(S)) /\ Append(<< >>, x) = <<x>>
  OBVIOUS
<1>2. FlattenSeq(<<x>>) = Cat(<< >>, x)
  BY <1>1, FlattenAppend, FlattenEmpty
<1> QED BY <1>2, CatType

-----------------------------------------------------------------------------
(* The filters of profiler_serializer, over sequences.                     *)

(* A filter keeps a record, changes it or drops it.                        *)
LEMMA ProcessRecordType ==
  ASSUME NEW r \in ScriptActivities PROVE process_record(r) \in Seq(Records)
<1>1. r \in Records /\ [r EXCEPT !.object = "none"] \in Records
  BY DEF Records
<1>2. add_object_id(r) \in Records
  BY <1>1 DEF add_object_id
<1>3. << >> \in Seq(Records) /\ <<r>> \in Seq(Records) /\ <<add_object_id(r)>> \in Seq(Records)
  BY <1>1, <1>2
<1> QED
  BY <1>3 DEF process_record, process_api_activity, process_device_activity, process_marker_activity,
              process_marker_data, process_kernel, process_memcpy, process_memset, process_overhead

\* Kept and Activities before they are flattened.
Filtered(a) == [k \in DOMAIN a |-> process_record(a[k])]
Contents(b) == [k \in DOMAIN b |-> b[k].records]

(* The filters map records to short sequences, one per activity.           *)
LEMMA FilteredType ==
  ASSUME NEW a \in Seq(ScriptActivities)
  PROVE  /\ Filtered(a) \in Seq(Seq(Records)) /\ Len(Filtered(a)) = Len(a)
         /\ \A k \in 1 .. Len(a) : Filtered(a)[k] = process_record(a[k])
<1>1. PICK n \in Nat : n = Len(a)
  BY LenProperties
<1>2. DOMAIN a = 1 .. n /\ \A k \in 1 .. n : a[k] \in ScriptActivities
  BY <1>1, LenProperties, ElementOfSeq
<1>3. Filtered(a) = [k \in 1 .. n |-> process_record(a[k])]
  BY <1>2 DEF Filtered
<1>4. \A k \in 1 .. n : process_record(a[k]) \in Seq(Records)
  BY <1>2, ProcessRecordType
<1>5. Filtered(a) \in [1 .. n -> Seq(Records)]
  BY <1>3, <1>4
<1>6. Filtered(a) \in Seq(Seq(Records)) /\ Len(Filtered(a)) = n
  <2>1. PICK g \in [1 .. n -> Seq(Records)] : g = Filtered(a)
    BY <1>5
  <2>2. PICK Q : Q = Seq(Records)
    OBVIOUS
  <2>3. g \in [1 .. n -> Q]
    BY <2>1, <2>2
  <2>4. g \in Seq(Q) /\ Len(g) = n
    BY <2>3
  <2> QED BY <2>1, <2>2, <2>4
<1> QED BY <1>1, <1>3, <1>6

(* Buffers hold activities.                                                *)
LEMMA ContentsType ==
  ASSUME NEW b \in Seq(Buffers)
  PROVE  /\ Contents(b) \in Seq(Seq(ScriptActivities)) /\ Len(Contents(b)) = Len(b)
         /\ \A k \in 1 .. Len(b) : Contents(b)[k] = b[k].records
<1>1. PICK n \in Nat : n = Len(b)
  BY LenProperties
<1>2. DOMAIN b = 1 .. n /\ \A k \in 1 .. n : b[k] \in Buffers
  BY <1>1, LenProperties, ElementOfSeq
<1>3. Contents(b) = [k \in 1 .. n |-> b[k].records]
  BY <1>2 DEF Contents
<1>4. PICK Q : Q = Seq(ScriptActivities)
  OBVIOUS
<1>5. \A k \in 1 .. n : b[k].records \in Q
  BY <1>2, <1>4 DEF Buffers
<1>6. Contents(b) \in [1 .. n -> Q]
  BY <1>3, <1>5
<1>7. Contents(b) \in Seq(Q) /\ Len(Contents(b)) = n
  <2>1. PICK g \in [1 .. n -> Q] : g = Contents(b)
    BY <1>6
  <2>2. g \in Seq(Q) /\ Len(g) = n
    BY <2>1
  <2> QED BY <2>1, <2>2
<1> QED BY <1>1, <1>3, <1>4, <1>7

\* c is a, then b.
Joined(c, a, b) ==
    /\ Len(c) = Len(a) + Len(b)
    /\ \A i \in 1 .. Len(a) + Len(b) : c[i] = IF i <= Len(a) THEN a[i] ELSE b[i - Len(a)]

(* Concatenation, element by element.                                      *)
LEMMA CatPoints ==
  ASSUME NEW S, NEW a \in Seq(S), NEW b \in Seq(S)
  PROVE  Cat(a, b) \in Seq(S) /\ Joined(Cat(a, b), a, b)
BY ConcatProperties DEF Cat, Joined

(* Filters work record by record.                                          *)
LEMMA FilteredCat ==
  ASSUME NEW a \in Seq(ScriptActivities), NEW b \in Seq(ScriptActivities)
  PROVE  Filtered(Cat(a, b)) = Cat(Filtered(a), Filtered(b))
<1>0. PICK c : c = Cat(a, b)
  OBVIOUS
<1>1. c \in Seq(ScriptActivities) /\ c = Cat(a, b) /\ Joined(c, a, b)
  BY <1>0, CatPoints
<1>2. PICK Q : Q = Seq(Records)
  OBVIOUS
<1>3. PICK fa \in Seq(Q), fb \in Seq(Q), fc \in Seq(Q) :
        fa = Filtered(a) /\ fb = Filtered(b) /\ fc = Filtered(c)
  BY <1>1, <1>2, FilteredType
<1>4. Len(a) \in Nat /\ Len(b) \in Nat
  BY LenProperties
<1>5. Len(fa) = Len(a) /\ Len(fb) = Len(b) /\ Len(fc) = Len(c)
  BY <1>1, <1>3, FilteredType
<1>6. PICK d : d = Cat(fa, fb)
  OBVIOUS
<1>7. d \in Seq(Q) /\ Joined(d, fa, fb)
  BY <1>3, <1>6, CatPoints
<1>8. ASSUME NEW i \in 1 .. Len(a) + Len(b) PROVE fc[i] = d[i]
  <2>1. fc[i] = process_record(c[i])
    <3>1. i \in 1 .. Len(c)
      BY <1>1 DEF Joined
    <3> QED BY <1>1, <1>3, <3>1, FilteredType
  <2>2. CASE i <= Len(a)
    <3>1. i \in 1 .. Len(a)
      BY <1>4, <2>2
    <3>2. fa[i] = process_record(a[i])
      BY <1>3, <3>1, FilteredType
    <3>3. c[i] = a[i] /\ d[i] = fa[i]
      BY <1>1, <1>5, <1>7, <2>2 DEF Joined
    <3> QED BY <2>1, <3>2, <3>3
  <2>3. CASE ~(i <= Len(a))
    <3>1. i - Len(a) \in 1 .. Len(b)
      BY <1>4, <2>3
    <3>2. fb[i - Len(a)] = process_record(b[i - Len(a)])
      BY <1>3, <3>1, FilteredType
    <3>3. c[i] = b[i - Len(a)] /\ d[i] = fb[i - Len(a)]
      BY <1>1, <1>5, <1>7, <2>3 DEF Joined
    <3> QED BY <2>1, <3>2, <3>3
  <2> QED BY <2>2, <2>3
<1>9. Len(fc) = Len(a) + Len(b) /\ Len(d) = Len(a) + Len(b)
  BY <1>1, <1>5, <1>7 DEF Joined
<1>10. fc = d
  BY <1>3, <1>7, <1>8, <1>9, SeqEqual
<1> QED BY <1>1, <1>3, <1>6, <1>10

(* So do their contents, buffer by buffer.                                 *)
LEMMA ContentsCat ==
  ASSUME NEW a \in Seq(Buffers), NEW b \in Seq(Buffers)
  PROVE  Contents(Cat(a, b)) = Cat(Contents(a), Contents(b))
<1>0. PICK c : c = Cat(a, b)
  OBVIOUS
<1>1. c \in Seq(Buffers) /\ c = Cat(a, b) /\ Joined(c, a, b)
  BY <1>0, CatPoints
<1>2. PICK Q : Q = Seq(ScriptActivities)
  OBVIOUS
<1>3. PICK fa \in Seq(Q), fb \in Seq(Q), fc \in Seq(Q) :
        fa = Contents(a) /\ fb = Contents(b) /\ fc = Contents(c)
  BY <1>1, <1>2, ContentsType
<1>4. Len(a) \in Nat /\ Len(b) \in Nat
  BY LenProperties
<1>5. Len(fa) = Len(a) /\ Len(fb) = Len(b) /\ Len(fc) = Len(c)
  BY <1>1, <1>3, ContentsType
<1>6. PICK d : d = Cat(fa, fb)
  OBVIOUS
<1>7. d \in Seq(Q) /\ Joined(d, fa, fb)
  BY <1>3, <1>6, CatPoints
<1>8. ASSUME NEW i \in 1 .. Len(a) + Len(b) PROVE fc[i] = d[i]
  <2>1. fc[i] = c[i].records
    <3>1. i \in 1 .. Len(c)
      BY <1>1 DEF Joined
    <3> QED BY <1>1, <1>3, <3>1, ContentsType
  <2>2. CASE i <= Len(a)
    <3>1. i \in 1 .. Len(a)
      BY <1>4, <2>2
    <3>2. fa[i] = a[i].records
      BY <1>3, <3>1, ContentsType
    <3>3. c[i] = a[i] /\ d[i] = fa[i]
      BY <1>1, <1>5, <1>7, <2>2 DEF Joined
    <3> QED BY <2>1, <3>2, <3>3
  <2>3. CASE ~(i <= Len(a))
    <3>1. i - Len(a) \in 1 .. Len(b)
      BY <1>4, <2>3
    <3>2. fb[i - Len(a)] = b[i - Len(a)].records
      BY <1>3, <3>1, ContentsType
    <3>3. c[i] = b[i - Len(a)] /\ d[i] = fb[i - Len(a)]
      BY <1>1, <1>5, <1>7, <2>3 DEF Joined
    <3> QED BY <2>1, <3>2, <3>3
  <2> QED BY <2>2, <2>3
<1>9. Len(fc) = Len(a) + Len(b) /\ Len(d) = Len(a) + Len(b)
  BY <1>1, <1>5, <1>7 DEF Joined
<1>10. fc = d
  BY <1>3, <1>7, <1>8, <1>9, SeqEqual
<1> QED BY <1>1, <1>3, <1>6, <1>10

(* What Kept and Activities give, and that they distribute.                *)
LEMMA KeptType ==
  ASSUME NEW a \in Seq(ScriptActivities) PROVE Kept(a) \in Seq(Records)
<1>1. Kept(a) = FlattenSeq(Filtered(a))
  BY DEF Kept, Filtered
<1> QED BY <1>1, FilteredType, FlattenType

(* Filtering goes record by record: what is kept of two sequences is kept  *)
(* of each.                                                                *)
LEMMA KeptCat ==
  ASSUME NEW a \in Seq(ScriptActivities), NEW b \in Seq(ScriptActivities)
  PROVE  Kept(Cat(a, b)) = Cat(Kept(a), Kept(b))
<1>1. Kept(a) = FlattenSeq(Filtered(a)) /\ Kept(b) = FlattenSeq(Filtered(b))
      /\ Kept(Cat(a, b)) = FlattenSeq(Filtered(Cat(a, b)))
  BY DEF Kept, Filtered
<1>2. PICK fa \in Seq(Seq(Records)), fb \in Seq(Seq(Records)) : fa = Filtered(a) /\ fb = Filtered(b)
  BY FilteredType
<1>3. FlattenSeq(Cat(fa, fb)) = Cat(FlattenSeq(fa), FlattenSeq(fb))
  BY <1>2, FlattenCat
<1> QED BY <1>1, <1>2, <1>3, FilteredCat

(* The activities in some buffers.                                         *)
LEMMA ActivitiesType ==
  ASSUME NEW b \in Seq(Buffers) PROVE Activities(b) \in Seq(ScriptActivities)
<1>1. Activities(b) = FlattenSeq(Contents(b))
  BY DEF Activities, Contents
<1> QED BY <1>1, ContentsType, FlattenType

(* Those in the buffers of two sequences, one after the other.             *)
LEMMA ActivitiesCat ==
  ASSUME NEW a \in Seq(Buffers), NEW b \in Seq(Buffers)
  PROVE  Activities(Cat(a, b)) = Cat(Activities(a), Activities(b))
<1>1. Activities(a) = FlattenSeq(Contents(a)) /\ Activities(b) = FlattenSeq(Contents(b))
      /\ Activities(Cat(a, b)) = FlattenSeq(Contents(Cat(a, b)))
  BY DEF Activities, Contents
<1>2. PICK fa \in Seq(Seq(ScriptActivities)), fb \in Seq(Seq(ScriptActivities)) :
        fa = Contents(a) /\ fb = Contents(b)
  BY ContentsType
<1>3. FlattenSeq(Cat(fa, fb)) = Cat(FlattenSeq(fa), FlattenSeq(fb))
  BY <1>2, FlattenCat
<1> QED BY <1>1, <1>2, <1>3, ContentsCat

(* What buffers come to is a sequence of records.                          *)
LEMMA YieldType == ASSUME NEW b \in Seq(Buffers) PROVE Yield(b) \in Seq(Records)
BY ActivitiesType, KeptType DEF Yield

(* It distributes over concatenation, so that a queue may be cut anywhere. *)
LEMMA YieldCat ==
  ASSUME NEW a \in Seq(Buffers), NEW b \in Seq(Buffers)
  PROVE  Yield(Cat(a, b)) = Cat(Yield(a), Yield(b))
<1>1. PICK x \in Seq(ScriptActivities), y \in Seq(ScriptActivities) : x = Activities(a) /\ y = Activities(b)
  BY ActivitiesType
<1>2. Kept(Cat(x, y)) = Cat(Kept(x), Kept(y))
  BY <1>1, KeptCat
<1> QED BY <1>1, <1>2, ActivitiesCat DEF Yield

(* A sequence is its first element and the rest.                           *)
LEMMA HeadCatTail ==
  ASSUME NEW S, NEW s \in Seq(S), s # << >>
  PROVE  Head(s) \in S /\ Tail(s) \in Seq(S) /\ <<Head(s)>> \in Seq(S) /\ s = Cat(<<Head(s)>>, Tail(s))
<1>1. Head(s) \in S /\ Tail(s) \in Seq(S) /\ Len(Tail(s)) = Len(s) - 1
      /\ (\A i \in 1 .. Len(Tail(s)) : Tail(s)[i] = s[i + 1])
  BY HeadTailProperties
<1>2. Head(s) = s[1] /\ <<Head(s)>> \in Seq(S) /\ Len(s) \in Nat
  BY <1>1, LenProperties
<1>3. PICK t \in Seq(S), h \in Seq(S) : t = Tail(s) /\ h = <<Head(s)>>
  BY <1>1, <1>2
<1>4. Len(h) = 1 /\ h[1] = s[1]
  BY <1>2, <1>3
<1>5. PICK c \in Seq(S) : /\ c = Cat(h, t) /\ Len(c) = Len(s)
                          /\ \A i \in 1 .. Len(s) : c[i] = IF i <= 1 THEN h[i] ELSE t[i - 1]
  <2>1. h \o t \in Seq(S) /\ Len(h \o t) = Len(h) + Len(t)
        /\ (\A i \in 1 .. Len(h) + Len(t) : (h \o t)[i] = IF i <= Len(h) THEN h[i] ELSE t[i - Len(h)])
    BY <1>3, ConcatProperties
  <2>2. Len(h) + Len(t) = Len(s)
    BY <1>1, <1>2, <1>3, <1>4
  <2> QED BY <1>4, <2>1, <2>2 DEF Cat
<1>6. ASSUME NEW i \in 1 .. Len(s) PROVE c[i] = s[i]
  <2>1. CASE i = 1
    BY <1>4, <1>5, <2>1
  <2>2. CASE i # 1
    <3>1. i - 1 \in 1 .. Len(t) /\ ~(i <= 1) /\ (i - 1) + 1 = i
      BY <1>1, <1>2, <1>3, <2>2
    <3> QED BY <1>1, <1>3, <1>5, <3>1
  <2> QED BY <2>1, <2>2
<1>7. c = s
  BY <1>5, <1>6, SeqEqual
<1> QED BY <1>1, <1>2, <1>3, <1>5, <1>7

(* What is kept of one activity.                                           *)
LEMMA KeptOne ==
  ASSUME NEW r \in ScriptActivities PROVE Kept(<<r>>) = process_record(r)
<1>1. PICK a : a = <<r>>
  OBVIOUS
<1>2. DOMAIN a = 1 .. 1 /\ a[1] = r
  BY <1>1
<1>3. Filtered(a) = <<process_record(r)>>
  BY <1>2 DEF Filtered
<1>4. Kept(a) = FlattenSeq(Filtered(a))
  BY DEF Kept, Filtered
<1>5. FlattenSeq(<<process_record(r)>>) = process_record(r)
  BY ProcessRecordType, FlattenOne
<1> QED BY <1>1, <1>3, <1>4, <1>5

(* What one buffer comes to.                                               *)
LEMMA YieldOne ==
  ASSUME NEW b \in Buffers PROVE Yield(<<b>>) = Kept(b.records)
<1>1. PICK a : a = <<b>>
  OBVIOUS
<1>2. DOMAIN a = 1 .. 1 /\ a[1] = b
  BY <1>1
<1>3. Contents(a) = <<b.records>>
  BY <1>2 DEF Contents
<1>4. Activities(a) = FlattenSeq(Contents(a))
  BY DEF Activities, Contents
<1>5. b.records \in Seq(ScriptActivities)
  BY DEF Buffers
<1>6. FlattenSeq(<<b.records>>) = b.records
  BY <1>5, FlattenOne
<1> QED BY <1>1, <1>3, <1>4, <1>6 DEF Yield

(* Nothing comes of nothing.                                               *)
LEMMA NothingKept == Kept(<< >>) = << >> /\ Yield(<< >>) = << >>
<1>1. [k \in DOMAIN << >> |-> process_record(<< >>[k])] = << >>
  OBVIOUS
<1>2. [k \in DOMAIN << >> |-> << >>[k].records] = << >>
  OBVIOUS
<1>3. Kept(<< >>) = FlattenSeq(<< >>) /\ Activities(<< >>) = FlattenSeq(<< >>)
  BY <1>1, <1>2 DEF Kept, Activities
<1> QED BY <1>3, FlattenEmpty DEF Yield

-----------------------------------------------------------------------------
(* The operators of the model, on typed arguments.                         *)

(* buffer_completed_callback appends to queue and history, or drops.       *)
LEMMA CallbackEffect ==
  ASSUME NEW se \in SessionRecord, NEW done \in Seq(Buffers), NEW new, new = buffer_completed_callback(se, done)
  PROVE  /\ new \in SessionRecord
         /\ new.free = se.free /\ new.shut = se.shut /\ new.is_shutdown = se.is_shutdown
         /\ \/ new.queue = se.queue /\ new.accepted = se.accepted
            \/ ~se.shut /\ new.queue = Cat(se.queue, done) /\ new.accepted = Cat(se.accepted, done)
<1>1. PICK qu \in Seq(Buffers), ac \in Seq(Buffers) : qu = Cat(se.queue, done) /\ ac = Cat(se.accepted, done)
  BY CatType DEF SessionRecord
<1>2. se.queue \o done = qu /\ se.accepted \o done = ac
  BY <1>1 DEF Cat
<1>3. new = se \/ (~se.shut /\ new = [se EXCEPT !.queue = qu, !.accepted = ac])
  BY <1>2 DEF buffer_completed_callback, put_completed
<1>4. CASE new = se
  BY <1>4
<1>5. CASE ~se.shut /\ new = [se EXCEPT !.queue = qu, !.accepted = ac]
  BY <1>1, <1>5 DEF SessionRecord
<1> QED BY <1>3, <1>4, <1>5

(* put_free pushes the number of the buffer, or drops.                     *)
LEMMA PutFreeEffect ==
  ASSUME NEW se \in SessionRecord, NEW b \in Buffers, NEW new, new = put_free(se, b)
  PROVE  /\ new \in SessionRecord
         /\ new.queue = se.queue /\ new.accepted = se.accepted
         /\ new.shut = se.shut /\ new.is_shutdown = se.is_shutdown
         /\ \/ new.free = se.free
            \/ Len(se.free) < NUM_CACHED_BUFFERS /\ new.free = Append(se.free, b.no)
<1>1. b.no \in Nat \ {0} /\ se.free \in Seq(Nat \ {0})
  BY DEF Buffers, SessionRecord
<1>2. PICK fr \in Seq(Nat \ {0}) : fr = Append(se.free, b.no)
  BY <1>1, AppendProperties
<1>3. new = se \/ (Len(se.free) < NUM_CACHED_BUFFERS /\ new = [se EXCEPT !.free = fr])
  BY <1>2 DEF put_free
<1>4. CASE new = se
  BY <1>4
<1>5. CASE Len(se.free) < NUM_CACHED_BUFFERS /\ new = [se EXCEPT !.free = fr]
  BY <1>2, <1>5 DEF SessionRecord
<1> QED BY <1>3, <1>4, <1>5

(* What a thread has written is a sequence of records.                     *)
LEMMA TextType == ASSUME NEW th \in ThreadRecord PROVE Text(th) \in Seq(Records)
<1>1. th.file.parts \in Seq(Seq(Records)) /\ th.fbb \in Seq(Records)
  BY DEF ThreadRecord, FileRecord
<1> QED BY <1>1, FlattenType, ConcatProperties DEF Text

(* A flush moves the flatbuffer to the file.                               *)
LEMMA FlushEffect ==
  ASSUME NEW th \in ThreadRecord, NEW new, new = flush(th)
  PROVE  /\ new \in ThreadRecord /\ Text(new) = Text(th) /\ new.fbb = << >>
         /\ new.pc = th.pc /\ new.at = th.at /\ new.asleep = th.asleep
         /\ new.work = th.work /\ new.failed = th.failed
<1>1. CASE th.fbb = << >>
  BY <1>1 DEF flush
<1>2. CASE th.fbb # << >>
  <2>1. th.file.parts \in Seq(Seq(Records)) /\ th.fbb \in Seq(Records) /\ th.file \in FileRecord
    BY DEF ThreadRecord, FileRecord
  <2>2. PICK p : p = Append(th.file.parts, th.fbb)
    OBVIOUS
  <2>3. p \in Seq(Seq(Records))
    <3>1. PICK Q : Q = Seq(Records)
      OBVIOUS
    <3>2. p \in Seq(Q)
      BY <2>1, <2>2, <3>1, AppendProperties
    <3> QED BY <3>1, <3>2
  <2>4. PICK f : f = [th.file EXCEPT !.parts = p]
    OBVIOUS
  <2>5. f \in FileRecord /\ f.parts = p
    BY <2>1, <2>3, <2>4 DEF FileRecord
  <2>0. PICK e \in Seq(Records) : e = << >>
    BY EmptySeq
  <2>6. new = [th EXCEPT !.file = f, !.fbb = e]
    BY <1>2, <2>0, <2>2, <2>4 DEF flush
  <2>7. new \in ThreadRecord /\ new.file = f /\ new.fbb = << >>
        /\ new.pc = th.pc /\ new.at = th.at /\ new.asleep = th.asleep
        /\ new.work = th.work /\ new.failed = th.failed
    <3>1. new \in ThreadRecord /\ new.file = f /\ new.fbb = e
      BY <2>5, <2>6 DEF ThreadRecord
    <3>2. new.pc = th.pc /\ new.at = th.at /\ new.asleep = th.asleep
          /\ new.work = th.work /\ new.failed = th.failed
      BY <2>6 DEF ThreadRecord
    <3> QED BY <2>0, <3>1, <3>2
  <2>8. FlattenSeq(p) = Cat(FlattenSeq(th.file.parts), th.fbb)
    BY <2>1, <2>2, FlattenAppend
  <2>9. Text(th) = Cat(FlattenSeq(th.file.parts), th.fbb)
    BY DEF Text, Cat
  <2>10. Text(new) = FlattenSeq(p) \o << >>
    BY <2>5, <2>7 DEF Text
  <2>11. FlattenSeq(p) \o << >> = FlattenSeq(p)
    BY <2>3, FlattenType, ConcatEmptySeq
  <2> QED BY <2>7, <2>8, <2>9, <2>10, <2>11
<1> QED BY <1>1, <1>2

(* Processing a record moves it from the buffer to the text.               *)
LEMMA ProcessNextEffect ==
  ASSUME NEW th \in ThreadRecord, th.work \in Buffers, th.work.records # << >>, NEW new, new = process_next(th)
  PROVE  /\ new \in ThreadRecord
         /\ Cat(Text(new), Kept(new.work.records)) = Cat(Text(th), Kept(th.work.records))
         /\ new.work \in Buffers /\ new.work.no = th.work.no
         /\ new.pc = th.pc /\ new.at = th.at /\ new.failed = th.failed
<1> DEFINE r == Head(th.work.records)
           rest == Tail(th.work.records)
<1>1. th.work.records \in Seq(ScriptActivities) /\ th.work.no \in Nat \ {0}
  BY DEF Buffers
<1>2. r \in ScriptActivities /\ rest \in Seq(ScriptActivities) /\ <<r>> \in Seq(ScriptActivities)
      /\ th.work.records = Cat(<<r>>, rest)
  BY <1>1, HeadCatTail
<1> HIDE DEF r, rest
<1>3. PICK pr \in Seq(Records) : pr = process_record(r)
  BY <1>2, ProcessRecordType
<1>4. th.fbb \in Seq(Records) /\ th.file \in FileRecord /\ th.file.parts \in Seq(Seq(Records))
  BY DEF ThreadRecord, FileRecord
<1>5. PICK fb \in Seq(Records) : fb = Cat(th.fbb, pr)
  BY <1>4, CatType
<1>6. PICK w : w = [th.work EXCEPT !.records = rest]
  OBVIOUS
<1>7. w \in Buffers /\ w.no = th.work.no /\ w.records = rest
  BY <1>1, <1>2, <1>6 DEF Buffers
<1>8. PICK kept : kept = [th EXCEPT !.fbb = fb, !.work = w]
  OBVIOUS
<1>9. kept \in ThreadRecord /\ kept.fbb = fb /\ kept.work = w /\ kept.file = th.file
      /\ kept.pc = th.pc /\ kept.at = th.at /\ kept.failed = th.failed
  BY <1>5, <1>7, <1>8 DEF ThreadRecord
<1>10. new = kept \/ new = flush(kept)
  BY <1>3, <1>5, <1>6, <1>8 DEF process_next, r, rest, Cat
<1>11. Cat(Text(kept), Kept(rest)) = Cat(Text(th), Kept(th.work.records))
  <2>1. PICK fl \in Seq(Records) : fl = FlattenSeq(th.file.parts)
    BY <1>4, FlattenType
  <2>2. Text(kept) = Cat(fl, Cat(th.fbb, pr)) /\ Text(th) = Cat(fl, th.fbb)
    BY <1>5, <1>9, <2>1 DEF Text, Cat
  <2>3. Kept(th.work.records) = Cat(pr, Kept(rest)) /\ Kept(rest) \in Seq(Records)
    BY <1>2, <1>3, KeptCat, KeptOne, KeptType
  <2>4. Cat(Cat(fl, th.fbb), pr) = Cat(fl, Cat(th.fbb, pr))
    BY <1>4, CatAssociative
  <2>5. PICK tx \in Seq(Records) : tx = Cat(fl, th.fbb)
    BY <1>4, CatType
  <2>6. Cat(Cat(tx, pr), Kept(rest)) = Cat(tx, Cat(pr, Kept(rest)))
    BY <2>3, CatAssociative
  <2> QED BY <2>2, <2>3, <2>4, <2>5, <2>6
<1>12. CASE new = kept
  BY <1>7, <1>9, <1>11, <1>12
<1>13. CASE new = flush(kept)
  <2>1. new \in ThreadRecord /\ Text(new) = Text(kept) /\ new.work = kept.work
        /\ new.pc = kept.pc /\ new.at = kept.at /\ new.failed = kept.failed
    BY <1>9, <1>13, FlushEffect
  <2> QED BY <1>7, <1>9, <1>11, <2>1
<1> QED BY <1>10, <1>12, <1>13

(* What a flush of CUPTI hands over.                                       *)
LEMMA FlushedEffect ==
  ASSUME ProfilerType
  PROVE  /\ Flushed \in Seq(Buffers)
         /\ Emptied \in CuptiRecord /\ Emptied.full = << >>
         /\ Emptied.filling = (IF cupti.filling.records = << >> THEN cupti.filling ELSE NoBuffer)
         /\ Emptied.made = cupti.made /\ Emptied.enabled = cupti.enabled
         /\ Emptied.subscribed = cupti.subscribed /\ Emptied.dropped = cupti.dropped
<1>1. cupti \in CuptiRecord /\ cupti.full \in Seq(Buffers) /\ cupti.filling \in Buffers \cup {NoBuffer}
  BY DEF ProfilerType, CuptiRecord
<1>2. NoBuffer.records = << >>
  BY DEF NoBuffer
<1>3. Flushed \in Seq(Buffers)
  <2>1. CASE cupti.filling.records = << >>
    BY <1>1, <2>1, ConcatEmptySeq DEF Flushed
  <2>2. CASE cupti.filling.records # << >>
    <3>1. cupti.filling \in Buffers
      BY <1>1, <1>2, <2>2
    <3>2. <<cupti.filling>> \in Seq(Buffers)
      BY <3>1
    <3> QED BY <1>1, <2>2, <3>2, ConcatProperties DEF Flushed
  <2> QED BY <2>1, <2>2
<1>4. PICK f \in Buffers \cup {NoBuffer} : f = IF cupti.filling.records = << >> THEN cupti.filling ELSE NoBuffer
  BY <1>1
<1>5. PICK e \in Seq(Buffers) : e = << >>
  BY EmptySeq
<1>6. Emptied = [cupti EXCEPT !.full = e, !.filling = f]
  BY <1>1, <1>4, <1>5 DEF Emptied
<1>7. Emptied \in CuptiRecord /\ Emptied.full = e /\ Emptied.filling = f
  BY <1>1, <1>6 DEF CuptiRecord
<1>8. Emptied.made = cupti.made /\ Emptied.enabled = cupti.enabled
      /\ Emptied.subscribed = cupti.subscribed /\ Emptied.dropped = cupti.dropped
  BY <1>1, <1>6 DEF CuptiRecord
<1> QED BY <1>3, <1>4, <1>5, <1>7, <1>8

\* A step that only wakes threads.
OnlyWakes ==
    /\ thread' \in [Sessions -> ThreadRecord]
    /\ \A t \in Sessions :
         /\ thread[t].pc = thread'[t].pc /\ thread[t].at = thread'[t].at /\ thread[t].work = thread'[t].work
         /\ thread[t].failed = thread'[t].failed /\ thread[t].fbb = thread'[t].fbb
         /\ thread[t].file = thread'[t].file

(* notify_one is one.                                                      *)
LEMMA NotifyWakes ==
  ASSUME ProfilerType, NEW x, NEW n, notify_one(x, n) PROVE OnlyWakes
<1>1. PICK woken : thread' = [t \in Sessions |-> IF t \in woken THEN [thread[t] EXCEPT !.asleep = FALSE]
                                                 ELSE thread[t]]
  BY DEF notify_one
<1>2. ASSUME NEW t \in Sessions
      PROVE  /\ thread'[t] \in ThreadRecord
             /\ thread[t].pc = thread'[t].pc /\ thread[t].at = thread'[t].at /\ thread[t].work = thread'[t].work
             /\ thread[t].failed = thread'[t].failed /\ thread[t].fbb = thread'[t].fbb
             /\ thread[t].file = thread'[t].file
  <2>1. PICK th \in ThreadRecord : th = thread[t]
    BY DEF ProfilerType
  <2>2. [th EXCEPT !.asleep = FALSE] \in ThreadRecord
    BY DEF ThreadRecord
  <2>3. thread'[t] = th \/ thread'[t] = [th EXCEPT !.asleep = FALSE]
    BY <1>1, <2>1
  <2>4. CASE thread'[t] = th
    BY <2>1, <2>4
  <2>5. CASE thread'[t] = [th EXCEPT !.asleep = FALSE]
    BY <2>1, <2>2, <2>5 DEF ThreadRecord
  <2> QED BY <2>3, <2>4, <2>5
<1>3. thread' = [t \in Sessions |-> thread'[t]]
  BY <1>1
<1>4. thread' \in [Sessions -> ThreadRecord]
  BY <1>2, <1>3
<1> QED BY <1>2, <1>4 DEF OnlyWakes

\* A step that only moves done to the queue of the State of now, or drops it.
Delivers(done) ==
    /\ OnlyWakes
    /\ session' \in [Sessions -> SessionRecord]
    /\ \A s \in Sessions : /\ s # State => session'[s] = session[s]
                           /\ session'[s].free = session[s].free /\ session'[s].shut = session[s].shut
    /\ \/ session'[State].queue = session[State].queue /\ session'[State].accepted = session[State].accepted
       \/ /\ ~session[State].shut
          /\ session'[State].queue = Cat(session[State].queue, done)
          /\ session'[State].accepted = Cat(session[State].accepted, done)

(* Deliver is such a step: it also drops, when the queue is shut or the    *)
(* session shut down.                                                      *)
LEMMA DeliverDelivers ==
  ASSUME ProfilerType, State \in Sessions, NEW done \in Seq(Buffers), Deliver(done) PROVE Delivers(done)
<1>1. PICK se \in SessionRecord : se = session[State]
  BY DEF ProfilerType
<1>2. PICK after : after = buffer_completed_callback(se, done)
  OBVIOUS
<1>3. session' = [session EXCEPT ![State] = after]
  BY <1>1, <1>2 DEF Deliver
<1>4. after \in SessionRecord
      /\ after.free = se.free /\ after.shut = se.shut
      /\ \/ after.queue = se.queue /\ after.accepted = se.accepted
         \/ ~se.shut /\ after.queue = Cat(se.queue, done) /\ after.accepted = Cat(se.accepted, done)
  BY <1>2, CallbackEffect
<1>5. OnlyWakes
  BY NotifyWakes DEF Deliver
<1>6. session \in [Sessions -> SessionRecord]
  BY DEF ProfilerType
<1>7. session' \in [Sessions -> SessionRecord] /\ session'[State] = after
      /\ \A s \in Sessions : s # State => session'[s] = session[s]
  BY <1>3, <1>4, <1>6
<1> QED BY <1>1, <1>4, <1>5, <1>7 DEF Delivers

-----------------------------------------------------------------------------
(* The steps of the model: what each does to types, places, buffers and    *)
(* records.                                                                *)

(* Types, and what is on before the first init.                            *)
LEMMA TypedInit == ProfilerInit => ProfilerType /\ Placed
<1> SUFFICES ASSUME ProfilerInit PROVE ProfilerType /\ Placed
  OBVIOUS
<1> USE SessionsAssumption
<1>1. PICK e : e = << >>
  OBVIOUS
<1>2. e \in Seq(Buffers) /\ e \in Seq(Nat \ {0}) /\ e \in Seq(Records) /\ e \in Seq(Seq(Records))
  BY <1>1, EmptySeq
<1>3. NewSession \in SessionRecord
  BY <1>1, <1>2 DEF NewSession, SessionRecord
<1>4. PICK f \in FileRecord : f = [parts |-> e, whole |-> TRUE]
  BY <1>2 DEF FileRecord
<1>5. NewThread = [pc |-> "none", at |-> NoSession, asleep |-> FALSE, work |-> NoBuffer, fbb |-> e,
                   failed |-> FALSE, file |-> f]
  BY <1>1, <1>4 DEF NewThread
<1>6. NewThread \in ThreadRecord
  BY <1>2, <1>5 DEF ThreadRecord, Pcs
<1>7. cupti = [enabled |-> FALSE, subscribed |-> FALSE, filling |-> NoBuffer, full |-> e, dropped |-> 0, made |-> 0]
  BY <1>1 DEF ProfilerInit
<1>8. cupti \in CuptiRecord
  BY <1>2, <1>7 DEF CuptiRecord
<1>9. script \in Seq(ScriptActivities)
  BY ScriptsAssumption DEF ProfilerInit
<1>10. ProfilerType
  BY <1>3, <1>6, <1>8, <1>9 DEF ProfilerType, ProfilerInit
<1>11. \A t \in Sessions : thread[t].pc = "none" /\ thread[t].at = NoSession /\ ~thread[t].failed
                           /\ thread[t].work = NoBuffer
  BY <1>5 DEF ProfilerInit
<1>12. Quiet
  BY <1>1, <1>7, <1>11 DEF Quiet, ProfilerInit
<1>13. NoBuffer.no = 0
  BY DEF NoBuffer
<1>14. Placed
  BY <1>11, <1>12, <1>13 DEF Placed, ProfilerInit
<1> QED BY <1>10, <1>14

(* Whoever does something does it with a State.                            *)
LEMMA StateIsThere ==
  ASSUME ProfilerType, Placed
  PROVE  /\ writer # NoSession \/ closing # "no" \/ cupti.enabled \/ cupti.subscribed \/ cupti.full # << >>
            => State \in Sessions
         /\ \A t \in Sessions : thread[t].pc # "none" => State \in Sessions
BY DEF ProfilerType, Placed, Quiet

(* Placed only reads the places of threads, and is kept when they are.     *)
LEMMA PlacedKept ==
  ASSUME Placed, State \in Sessions, State' = State,
         \A t \in Sessions : /\ thread[t].pc = thread'[t].pc /\ thread[t].at = thread'[t].at
                             /\ thread[t].failed = thread'[t].failed
                             /\ thread[t].work.no = thread'[t].work.no,
         thread \in [Sessions -> ThreadRecord]
  PROVE  Placed'
<1>1. State # NoSession
  BY SessionsAssumption DEF Sessions
<1>2. ASSUME NEW t \in Sessions
      PROVE  /\ thread'[t].at # NoSession => thread'[thread'[t].at].pc # "none"
             /\ thread'[t].pc = "work" <=> thread'[t].work.no # 0
             /\ thread'[t].pc \in {"none", "start"} => ~thread'[t].failed
  <2>1. thread[t].at \in Sessions \cup {NoSession}
    BY DEF ThreadRecord
  <2> QED BY <2>1 DEF Placed
<1> QED BY <1>1, <1>2 DEF Placed

(* A delivery keeps types and places.                                      *)
LEMMA DeliverTyped ==
  ASSUME ProfilerType, Placed, State \in Sessions, NEW done, Delivers(done),
         cupti' \in CuptiRecord, UNCHANGED <<script, writer, State, alive>>,
         closing' \in {"no", "flushed", "joining"}
  PROVE  ProfilerType' /\ Placed'
<1>1. ProfilerType'
  BY DEF ProfilerType, Delivers, OnlyWakes
<1>2. \A t \in Sessions : /\ thread[t].pc = thread'[t].pc /\ thread[t].at = thread'[t].at
                          /\ thread[t].failed = thread'[t].failed
                          /\ thread[t].work.no = thread'[t].work.no
  BY DEF Delivers, OnlyWakes
<1>3. thread \in [Sessions -> ThreadRecord]
  BY DEF ProfilerType
<1>4. Placed'
  BY <1>2, <1>3, PlacedKept
<1> QED BY <1>1, <1>4

\* All that CUPTI holds goes to the queue of the State of now, or is dropped.
HandsOver ==
    /\ State \in Sessions /\ Delivers(Flushed)
    /\ cupti' \in CuptiRecord /\ cupti'.full = << >> /\ cupti'.made = cupti.made
    /\ cupti'.filling = (IF cupti.filling.records = << >> THEN cupti.filling ELSE NoBuffer)

(* stop, shutdown and callback_handler hand over all that CUPTI holds.     *)
LEMMA FlushHandsOver ==
  ASSUME ProfilerType, Placed, stop \/ shutdown \/ callback_handler
  PROVE  HandsOver /\ ProfilerType' /\ Placed'
<1>1. State \in Sessions
  <2>1. CASE stop
    BY <2>1, StateIsThere DEF stop
  <2>2. CASE shutdown
    BY <2>2, StateIsThere DEF shutdown
  <2>3. CASE callback_handler
    BY <2>3, StateIsThere DEF callback_handler
  <2> QED BY <2>1, <2>2, <2>3
<1>2. Deliver(Flushed) /\ UNCHANGED <<script, writer, State, alive>>
  BY DEF stop, shutdown, callback_handler
<1>3. closing' \in {"no", "flushed", "joining"}
  BY DEF ProfilerType, stop, shutdown, callback_handler
<1>4. PICK em \in CuptiRecord : em = Emptied
  BY FlushedEffect
<1>5. cupti' \in CuptiRecord /\ cupti'.full = em.full /\ cupti'.made = em.made /\ cupti'.filling = em.filling
  <2>1. CASE stop
    <3>1. cupti' = [em EXCEPT !.enabled = FALSE]
      BY <1>4, <2>1 DEF stop
    <3> QED BY <3>1 DEF CuptiRecord
  <2>2. CASE shutdown
    <3>1. cupti' = [em EXCEPT !.subscribed = FALSE]
      BY <1>4, <2>2 DEF shutdown
    <3> QED BY <3>1 DEF CuptiRecord
  <2>3. CASE callback_handler
    BY <1>4, <2>3 DEF callback_handler
  <2> QED BY <2>1, <2>2, <2>3
<1>6. Flushed \in Seq(Buffers) /\ em.full = << >> /\ em.made = cupti.made
      /\ em.filling = (IF cupti.filling.records = << >> THEN cupti.filling ELSE NoBuffer)
  BY <1>4, FlushedEffect
<1>7. Delivers(Flushed)
  BY <1>1, <1>2, <1>6, DeliverDelivers
<1>8. ProfilerType' /\ Placed'
  BY <1>1, <1>2, <1>3, <1>5, <1>7, DeliverTyped
<1> QED BY <1>1, <1>5, <1>6, <1>7, <1>8 DEF HandsOver

\* The first full buffer goes to the queue, or is dropped.
HandsOne ==
    /\ State \in Sessions /\ cupti.full # << >> /\ Head(cupti.full) \in Buffers
    /\ Delivers(<<Head(cupti.full)>>)
    /\ cupti' \in CuptiRecord /\ cupti'.full = Tail(cupti.full) /\ cupti'.made = cupti.made
    /\ cupti'.filling = cupti.filling

(* complete_buffer hands over one buffer.                                  *)
LEMMA CompleteHandsOne ==
  ASSUME ProfilerType, Placed, complete_buffer
  PROVE  HandsOne /\ ProfilerType' /\ Placed'
<1>1. State \in Sessions
  BY StateIsThere DEF complete_buffer
<1>2. cupti \in CuptiRecord /\ cupti.full \in Seq(Buffers) /\ cupti.full # << >>
  BY DEF ProfilerType, CuptiRecord, complete_buffer
<1>3. PICK rest \in Seq(Buffers) : rest = Tail(cupti.full)
  BY <1>2, HeadTailProperties
<1>4. PICK b \in Buffers : b = Head(cupti.full)
  BY <1>2, HeadTailProperties
<1>5. cupti' = [cupti EXCEPT !.full = rest]
  BY <1>3 DEF complete_buffer
<1>6. cupti' \in CuptiRecord /\ cupti'.full = rest /\ cupti'.made = cupti.made /\ cupti'.filling = cupti.filling
  BY <1>2, <1>5 DEF CuptiRecord
<1>7. <<b>> \in Seq(Buffers) /\ Deliver(<<b>>) /\ UNCHANGED <<script, writer, State, closing, alive>>
  BY <1>4 DEF complete_buffer
<1>8. Delivers(<<b>>)
  BY <1>1, <1>7, DeliverDelivers
<1>9. closing' \in {"no", "flushed", "joining"}
  BY <1>7 DEF ProfilerType
<1>10. ProfilerType' /\ Placed'
  BY <1>1, <1>6, <1>7, <1>8, <1>9, DeliverTyped
<1> QED BY <1>1, <1>2, <1>3, <1>4, <1>6, <1>8, <1>10 DEF HandsOne

(* A step that leaves threads alone keeps Placed, once there is a State.   *)
LEMMA ThreadsAlone ==
  ASSUME ProfilerType, Placed, State \in Sessions, UNCHANGED <<thread, State>> PROVE Placed'
<1>1. thread \in [Sessions -> ThreadRecord]
  BY DEF ProfilerType
<1> QED BY <1>1, PlacedKept

\* CUPTI gets a buffer: from the stack, or a new one, or none.
Requests ==
    /\ State \in Sessions /\ cupti.filling = NoBuffer /\ UNCHANGED <<State, thread>>
    /\ session' \in [Sessions -> SessionRecord]
    /\ \A s \in Sessions : /\ s # State => session'[s] = session[s]
                           /\ session'[s].queue = session[s].queue /\ session'[s].accepted = session[s].accepted
                           /\ session'[s].shut = session[s].shut
    /\ cupti' \in CuptiRecord /\ cupti'.full = cupti.full
    /\ \/ cupti'.filling = cupti.filling /\ cupti'.made = cupti.made /\ UNCHANGED session
       \/ /\ cupti'.made = cupti.made /\ session[State].free # << >>
          /\ cupti'.filling.no = session[State].free[Len(session[State].free)]
          /\ session'[State].free = Front(session[State].free)
       \/ cupti'.made = cupti.made + 1 /\ cupti'.filling.no = cupti.made + 1 /\ UNCHANGED session

(* All of a sequence but its last element, a popped stack.                 *)
LEMMA FrontProperties ==
  ASSUME NEW S, NEW s \in Seq(S), s # << >>
  PROVE  /\ Front(s) \in Seq(S) /\ Len(Front(s)) = Len(s) - 1 /\ Last(s) = s[Len(s)] /\ s[Len(s)] \in S
         /\ \A i \in 1 .. Len(s) - 1 : Front(s)[i] = s[i]
<1>1. Len(s) \in Nat /\ Len(s) # 0
  BY EmptySeq, LenProperties
<1>2. \A i \in 1 .. Len(s) - 1 : s[i] \in S
  BY <1>1
<1>3. /\ SubSeq(s, 1, Len(s) - 1) \in Seq(S)
      /\ Len(SubSeq(s, 1, Len(s) - 1)) = IF 1 <= Len(s) - 1 THEN (Len(s) - 1) - 1 + 1 ELSE 0
      /\ \A i \in 1 .. (Len(s) - 1) - 1 + 1 : SubSeq(s, 1, Len(s) - 1)[i] = s[1 + i - 1]
  <2>1. PICK m \in Int, n \in Int : m = 1 /\ n = Len(s) - 1
    BY <1>1
  <2>2. \A i \in m .. n : s[i] \in S
    BY <1>2, <2>1
  <2>3. /\ SubSeq(s, m, n) \in Seq(S)
        /\ Len(SubSeq(s, m, n)) = IF m <= n THEN n - m + 1 ELSE 0
        /\ \A i \in 1 .. n - m + 1 : SubSeq(s, m, n)[i] = s[m + i - 1]
    BY <2>2, SubSeqProperties
  <2> QED BY <2>1, <2>3
<1>4. Front(s) = SubSeq(s, 1, Len(s) - 1) /\ Last(s) = s[Len(s)]
  BY DEF Front, Last
<1>5. s[Len(s)] \in S
  BY <1>1
<1>6. PICK f : f = SubSeq(s, 1, Len(s) - 1)
  OBVIOUS
<1>7. Len(f) = Len(s) - 1
  <2>1. PICK n \in Nat : n = Len(s) - 1
    BY <1>1
  <2>2. Len(f) = IF 1 <= n THEN n - 1 + 1 ELSE 0
    BY <1>3, <1>6, <2>1
  <2>3. Len(f) = n
    BY <2>2
  <2> QED BY <2>1, <2>3
<1>8. \A i \in 1 .. Len(s) - 1 : f[i] = s[i]
  <2>1. \A i \in 1 .. Len(s) - 1 : i \in 1 .. (Len(s) - 1) - 1 + 1 /\ 1 + i - 1 = i
    BY <1>1
  <2> QED BY <1>3, <1>6, <2>1
<1> QED BY <1>3, <1>4, <1>5, <1>6, <1>7, <1>8

(* buffer_requested_callback takes a buffer from the stack or makes one.   *)
LEMMA RequestEffect ==
  ASSUME ProfilerType, Placed, buffer_requested_callback
  PROVE  Requests /\ ProfilerType' /\ Placed'
<1>1. State \in Sessions /\ UNCHANGED <<writer, State, thread, closing, alive>> /\ script # << >>
  BY StateIsThere DEF buffer_requested_callback
<1>2. cupti \in CuptiRecord /\ cupti.filling \in Buffers \cup {NoBuffer} /\ cupti.filling.no = 0
      /\ cupti.made \in Nat
  BY DEF ProfilerType, CuptiRecord, buffer_requested_callback
<1>3. cupti.filling = NoBuffer
  BY <1>2 DEF Buffers
<1>4. session \in [Sessions -> SessionRecord] /\ script \in Seq(ScriptActivities)
  BY DEF ProfilerType
<1>5. PICK e \in Seq(ScriptActivities) : e = << >>
  BY EmptySeq
<1>6. CASE session[State].is_shutdown
  <2>1. cupti' = [cupti EXCEPT !.dropped = @ + 1] /\ script' = Tail(script) /\ UNCHANGED session
    BY <1>6 DEF buffer_requested_callback
  <2>2. cupti.dropped + 1 \in Nat
    BY <1>2 DEF CuptiRecord
  <2>3. cupti' \in CuptiRecord /\ cupti'.full = cupti.full /\ cupti'.filling = cupti.filling
        /\ cupti'.made = cupti.made
    BY <1>2, <2>1, <2>2 DEF CuptiRecord
  <2>4. script' \in Seq(ScriptActivities)
    BY <1>1, <1>4, <2>1, HeadTailProperties
  <2>5. ProfilerType'
    BY <1>1, <2>1, <2>3, <2>4 DEF ProfilerType
  <2>6. Requests
    BY <1>1, <1>3, <1>4, <2>1, <2>3 DEF Requests
  <2> QED BY <1>1, <2>5, <2>6, ThreadsAlone
<1>7. CASE ~session[State].is_shutdown /\ session[State].free # << >>
  <2>1. PICK se \in SessionRecord : se = session[State]
    BY <1>1, <1>4
  <2>2. se.free \in Seq(Nat \ {0}) /\ se.free # << >>
    BY <1>7, <2>1 DEF SessionRecord
  <2>3. PICK fr \in Seq(Nat \ {0}) : fr = Front(se.free)
    BY <2>2, FrontProperties
  <2>4. PICK n \in Nat \ {0} : n = Last(se.free) /\ n = se.free[Len(se.free)]
    BY <2>2, FrontProperties
  <2>5. PICK b \in Buffers : b = [no |-> n, records |-> e]
    BY <1>5 DEF Buffers
  <2>6. cupti' = [cupti EXCEPT !.filling = b]
    BY <1>5, <1>7, <2>1, <2>4, <2>5 DEF buffer_requested_callback
  <2>7. session' = [session EXCEPT ![State].free = fr] /\ script' = script
    BY <1>7, <2>1, <2>3 DEF buffer_requested_callback
  <2>8. cupti' \in CuptiRecord /\ cupti'.full = cupti.full /\ cupti'.filling = b /\ cupti'.made = cupti.made
    BY <1>2, <2>6 DEF CuptiRecord
  <2>9. PICK new : new = [se EXCEPT !.free = fr]
    OBVIOUS
  <2>10. new \in SessionRecord /\ new.free = fr /\ new.queue = se.queue /\ new.accepted = se.accepted
         /\ new.shut = se.shut
    BY <2>3, <2>9 DEF SessionRecord
  <2>11. session' = [session EXCEPT ![State] = new]
    BY <1>1, <1>4, <2>1, <2>7, <2>9
  <2>12. session' \in [Sessions -> SessionRecord] /\ session'[State] = new
         /\ \A s \in Sessions : s # State => session'[s] = session[s]
    BY <1>1, <1>4, <2>10, <2>11
  <2>13. ProfilerType'
    BY <1>1, <2>7, <2>8, <2>12 DEF ProfilerType
  <2>14. b.no = n
    BY <2>5
  <2>15. Requests
    <3>1. \A s \in Sessions : /\ s # State => session'[s] = session[s]
                              /\ session'[s].queue = session[s].queue /\ session'[s].accepted = session[s].accepted
                              /\ session'[s].shut = session[s].shut
      BY <2>1, <2>10, <2>12
    <3>2. session[State].free # << >> /\ cupti'.filling.no = session[State].free[Len(session[State].free)]
          /\ session'[State].free = Front(session[State].free)
      BY <2>1, <2>2, <2>3, <2>4, <2>8, <2>10, <2>12, <2>14
    <3> QED BY <1>1, <1>3, <2>8, <2>12, <3>1, <3>2 DEF Requests
  <2> QED BY <1>1, <2>13, <2>15, ThreadsAlone
<1>8. CASE ~session[State].is_shutdown /\ session[State].free = << >>
  <2>1. PICK n \in Nat \ {0} : n = cupti.made + 1
    BY <1>2
  <2>2. PICK b \in Buffers : b = [no |-> n, records |-> e]
    BY <1>5 DEF Buffers
  <2>3. cupti' = [cupti EXCEPT !.filling = b, !.made = n] /\ UNCHANGED <<session, script>>
    BY <1>2, <1>5, <1>8, <2>1, <2>2 DEF buffer_requested_callback
  <2>4. cupti' \in CuptiRecord /\ cupti'.full = cupti.full /\ cupti'.filling = b /\ cupti'.made = n
    BY <1>2, <2>3 DEF CuptiRecord
  <2>5. ProfilerType'
    BY <1>1, <2>3, <2>4 DEF ProfilerType
  <2>6. b.no = n
    BY <2>2
  <2>7. Requests
    BY <1>1, <1>3, <1>4, <2>1, <2>3, <2>4, <2>6 DEF Requests
  <2> QED BY <1>1, <2>5, <2>7, ThreadsAlone
<1> QED BY <1>6, <1>7, <1>8

\* The buffer in use stays where it is, or joins the full ones.
RecordsOne ==
    /\ State \in Sessions /\ UNCHANGED <<State, session, thread>>
    /\ cupti.filling \in Buffers
    /\ cupti' \in CuptiRecord /\ cupti'.made = cupti.made
    /\ \/ cupti'.full = cupti.full /\ cupti'.filling.no = cupti.filling.no
       \/ /\ cupti'.filling = NoBuffer
          /\ \E b \in Buffers : b.no = cupti.filling.no /\ cupti'.full = Append(cupti.full, b)

(* record_activity fills the buffer in use.                                *)
LEMMA RecordEffect ==
  ASSUME ProfilerType, Placed, record_activity
  PROVE  RecordsOne /\ ProfilerType' /\ Placed'
<1>1. State \in Sessions /\ UNCHANGED <<writer, State, session, thread, closing, alive>> /\ script # << >>
      /\ script' = Tail(script)
  BY StateIsThere DEF record_activity
<1>2. cupti \in CuptiRecord /\ cupti.filling \in Buffers \cup {NoBuffer} /\ cupti.filling.no # 0
      /\ cupti.full \in Seq(Buffers) /\ script \in Seq(ScriptActivities)
  BY DEF ProfilerType, CuptiRecord, record_activity
<1>3. cupti.filling \in Buffers
  BY <1>2 DEF NoBuffer
<1>4. PICK b : b = cupti.filling
  OBVIOUS
<1>5. Head(script) \in ScriptActivities /\ script' \in Seq(ScriptActivities) /\ b.records \in Seq(ScriptActivities)
  BY <1>1, <1>2, <1>3, <1>4, HeadTailProperties DEF Buffers
<1>6. PICK more \in Seq(ScriptActivities) : more = Append(b.records, Head(script))
  BY <1>5, AppendProperties
<1>7. PICK filled : filled = [b EXCEPT !.records = more]
  OBVIOUS
<1>8. filled \in Buffers /\ filled.no = b.no
  BY <1>3, <1>4, <1>7 DEF Buffers
<1>9. PICK full \in Seq(Buffers) : full = Append(cupti.full, filled)
  BY <1>2, <1>8, AppendProperties
<1>10. cupti' = [cupti EXCEPT !.filling = NoBuffer, !.full = full] \/ cupti' = [cupti EXCEPT !.filling = filled]
  BY <1>4, <1>6, <1>7, <1>9 DEF record_activity
<1>11. CASE cupti' = [cupti EXCEPT !.filling = NoBuffer, !.full = full]
  <2>1. cupti' \in CuptiRecord /\ cupti'.made = cupti.made /\ cupti'.filling = NoBuffer /\ cupti'.full = full
    BY <1>2, <1>9, <1>11 DEF CuptiRecord
  <2>2. ProfilerType'
    BY <1>1, <1>5, <2>1 DEF ProfilerType
  <2>3. RecordsOne
    BY <1>1, <1>3, <1>4, <1>8, <1>9, <2>1 DEF RecordsOne
  <2> QED BY <1>1, <2>2, <2>3, ThreadsAlone
<1>12. CASE cupti' = [cupti EXCEPT !.filling = filled]
  <2>1. cupti' \in CuptiRecord /\ cupti'.made = cupti.made /\ cupti'.filling = filled /\ cupti'.full = cupti.full
    BY <1>2, <1>8, <1>12 DEF CuptiRecord
  <2>2. ProfilerType'
    BY <1>1, <1>5, <2>1 DEF ProfilerType
  <2>3. RecordsOne
    BY <1>1, <1>3, <1>4, <1>8, <2>1 DEF RecordsOne
  <2> QED BY <1>1, <2>2, <2>3, ThreadsAlone
<1> QED BY <1>10, <1>11, <1>12

\* A step that moves no buffer.
NoMoves ==
    /\ \A s \in Sessions : session'[s].free = session[s].free /\ session'[s].queue = session[s].queue
    /\ \A t \in Sessions : thread'[t].work.no = thread[t].work.no
    /\ cupti'.full = cupti.full /\ cupti'.filling.no = cupti.filling.no /\ cupti'.made = cupti.made

\* A step that moves no record.
NoWrites ==
    /\ \A s \in Sessions : /\ session'[s].queue = session[s].queue /\ session'[s].accepted = session[s].accepted
                           /\ session[s].shut => session'[s].shut
    /\ \A t \in Sessions : /\ Text(thread'[t]) = Text(thread[t]) /\ thread'[t].work.records = thread[t].work.records
                           /\ thread[t].fbb = << >> => thread'[t].fbb = << >>
                           /\ thread'[t].pc = "exited" => thread[t].pc = "exited"
                           /\ thread[t].pc # "none" => thread'[t].pc # "none"
                           /\ ~thread'[t].failed => ~thread[t].failed

(* init makes a session and starts its thread, and moves nothing.          *)
LEMMA InitEffect ==
  ASSUME ProfilerType, Placed, init
  PROVE  ProfilerType' /\ Placed' /\ NoMoves /\ NoWrites
<1>1. PICK s \in Sessions :
        /\ thread[s].pc = "none" /\ State' = s /\ thread' = [thread EXCEPT ![s].pc = "start"]
        /\ \/ writer' = s /\ cupti' = [cupti EXCEPT !.subscribed = TRUE]
           \/ writer' = NoSession /\ UNCHANGED cupti
  BY DEF init
<1>2. UNCHANGED <<script, session, closing, alive>>
  BY DEF init
<1>3. thread \in [Sessions -> ThreadRecord] /\ cupti \in CuptiRecord
  BY DEF ProfilerType
<1>4. PICK th \in ThreadRecord : th = thread[s]
  BY <1>3
<1>5. PICK new : new = [th EXCEPT !.pc = "start"]
  OBVIOUS
<1>6. new \in ThreadRecord /\ new.pc = "start" /\ new.at = th.at /\ new.work = th.work /\ new.fbb = th.fbb
      /\ new.failed = th.failed /\ new.file = th.file
  BY <1>5 DEF ThreadRecord, Pcs
<1>7. thread' = [thread EXCEPT ![s] = new]
  BY <1>1, <1>3, <1>4, <1>5
<1>8. thread' \in [Sessions -> ThreadRecord] /\ thread'[s] = new
      /\ \A t \in Sessions : t # s => thread'[t] = thread[t]
  BY <1>3, <1>6, <1>7
<1>9. cupti' \in CuptiRecord /\ cupti'.full = cupti.full /\ cupti'.filling = cupti.filling /\ cupti'.made = cupti.made
  BY <1>1, <1>3 DEF CuptiRecord
<1>10. ProfilerType'
  BY <1>1, <1>2, <1>8, <1>9 DEF ProfilerType
<1>11. s # NoSession
  BY SessionsAssumption DEF Sessions
<1>12. ASSUME NEW t \in Sessions
       PROVE  /\ thread'[t].at # NoSession => thread'[thread'[t].at].pc # "none"
              /\ thread'[t].pc = "work" <=> thread'[t].work.no # 0
              /\ thread'[t].pc \in {"none", "start"} => ~thread'[t].failed
  <2>1. thread[t].at \in Sessions \cup {NoSession} /\ thread'[t].at = thread[t].at
    BY <1>3, <1>4, <1>6, <1>8 DEF ThreadRecord
  <2>2. thread'[t].at # NoSession => thread'[thread'[t].at].pc # "none"
    BY <1>4, <1>6, <1>8, <2>1 DEF Placed
  <2>3. CASE t = s
    BY <1>1, <1>4, <1>6, <1>8, <2>2, <2>3 DEF Placed
  <2>4. CASE t # s
    BY <1>8, <2>2, <2>4 DEF Placed
  <2> QED BY <2>3, <2>4
<1>13. State' # NoSession /\ thread'[State'].pc # "none"
  BY <1>1, <1>6, <1>8, <1>11
<1>14. Placed'
  BY <1>12, <1>13 DEF Placed
<1>15. \A t \in Sessions : /\ thread'[t].work = thread[t].work /\ thread'[t].fbb = thread[t].fbb
                           /\ thread'[t].file = thread[t].file /\ thread'[t].failed = thread[t].failed
                           /\ thread'[t].pc = "exited" => thread[t].pc = "exited"
                           /\ thread[t].pc # "none" => thread'[t].pc # "none"
  BY <1>4, <1>6, <1>8
<1>16. NoMoves
  BY <1>2, <1>9, <1>15 DEF NoMoves
<1>17. NoWrites
  BY <1>2, <1>15 DEF NoWrites, Text
<1> QED BY <1>10, <1>14, <1>16, <1>17

(* Neither do the other calls from Java that only change flags.            *)
LEMMA JavaEffect ==
  ASSUME ProfilerType, Placed, start \/ shutdown_queue \/ join_writer \/ shutdown_again
  PROVE  ProfilerType' /\ Placed' /\ NoMoves /\ NoWrites
<1>1. State \in Sessions /\ UNCHANGED <<script, State, alive>>
  <2>1. CASE start
    BY <2>1, StateIsThere DEF start
  <2>2. CASE shutdown_queue
    BY <2>2, StateIsThere DEF shutdown_queue
  <2>3. CASE join_writer
    BY <2>3, StateIsThere DEF join_writer
  <2>4. CASE shutdown_again
    BY <2>4, StateIsThere DEF shutdown_again
  <2> QED BY <2>1, <2>2, <2>3, <2>4
<1>2. cupti \in CuptiRecord /\ session \in [Sessions -> SessionRecord] /\ thread \in [Sessions -> ThreadRecord]
      /\ writer \in Sessions \cup {NoSession} /\ closing \in {"no", "flushed", "joining"}
  BY DEF ProfilerType
<1>3. writer' \in Sessions \cup {NoSession} /\ closing' \in {"no", "flushed", "joining"}
  <2>1. CASE start
    BY <1>2, <2>1 DEF start
  <2>2. CASE shutdown_queue
    BY <1>2, <2>2 DEF shutdown_queue
  <2>3. CASE join_writer
    BY <1>2, <2>3 DEF join_writer
  <2>4. CASE shutdown_again
    BY <1>2, <2>4 DEF shutdown_again
  <2> QED BY <2>1, <2>2, <2>3, <2>4
<1>4. cupti' \in CuptiRecord /\ cupti'.full = cupti.full /\ cupti'.filling = cupti.filling /\ cupti'.made = cupti.made
  <2>1. CASE start
    BY <1>2, <2>1 DEF start, CuptiRecord
  <2>2. CASE shutdown_queue \/ join_writer \/ shutdown_again
    BY <1>2, <2>2 DEF shutdown_queue, join_writer, shutdown_again
  <2> QED BY <2>1, <2>2
<1>5. OnlyWakes
  <2>1. CASE shutdown_queue
    BY <2>1, NotifyWakes DEF shutdown_queue
  <2>2. CASE start \/ join_writer \/ shutdown_again
    <3>1. UNCHANGED thread
      BY <2>2 DEF start, join_writer, shutdown_again
    <3> QED BY <1>2, <3>1 DEF OnlyWakes
  <2> QED BY <2>1, <2>2
<1>6. /\ session' \in [Sessions -> SessionRecord]
      /\ \A s \in Sessions : /\ session'[s].free = session[s].free /\ session'[s].queue = session[s].queue
                             /\ session'[s].accepted = session[s].accepted
                             /\ session[s].shut => session'[s].shut
  <2>1. CASE start \/ shutdown_again
    BY <1>2, <2>1 DEF start, shutdown_again
  <2>2. CASE shutdown_queue \/ join_writer
    <3>1. PICK se \in SessionRecord : se = session[State]
      BY <1>1, <1>2
    <3>2. PICK new : (new = [se EXCEPT !.shut = TRUE] \/ new = [se EXCEPT !.is_shutdown = TRUE])
                     /\ session' = [session EXCEPT ![State] = new]
      <4>1. CASE shutdown_queue
        <5>1. session' = [session EXCEPT ![State] = [se EXCEPT !.shut = TRUE]]
          BY <1>1, <1>2, <3>1, <4>1 DEF shutdown_queue
        <5> QED BY <5>1
      <4>2. CASE join_writer
        <5>1. session' = [session EXCEPT ![State] = [se EXCEPT !.is_shutdown = TRUE]]
          BY <1>1, <1>2, <3>1, <4>2 DEF join_writer
        <5> QED BY <5>1
      <4> QED BY <2>2, <4>1, <4>2
    <3>3. new \in SessionRecord /\ new.free = se.free /\ new.queue = se.queue /\ new.accepted = se.accepted
          /\ (se.shut => new.shut)
      <4>1. CASE new = [se EXCEPT !.shut = TRUE]
        BY <4>1 DEF SessionRecord
      <4>2. CASE new = [se EXCEPT !.is_shutdown = TRUE]
        BY <4>2 DEF SessionRecord
      <4> QED BY <3>2, <4>1, <4>2
    <3>4. session' \in [Sessions -> SessionRecord] /\ session'[State] = new
          /\ \A s \in Sessions : s # State => session'[s] = session[s]
      BY <1>1, <1>2, <3>2, <3>3
    <3> QED BY <3>1, <3>3, <3>4
  <2> QED BY <2>1, <2>2
<1>7. ProfilerType'
  BY <1>1, <1>3, <1>4, <1>5, <1>6 DEF ProfilerType, OnlyWakes
<1>8. Placed'
  <2>1. \A t \in Sessions : /\ thread[t].pc = thread'[t].pc /\ thread[t].at = thread'[t].at
                            /\ thread[t].failed = thread'[t].failed
                            /\ thread[t].work.no = thread'[t].work.no
    BY <1>5 DEF OnlyWakes
  <2> QED BY <1>1, <1>2, <2>1, PlacedKept
<1>9. NoMoves
  BY <1>4, <1>5, <1>6 DEF NoMoves, OnlyWakes
<1>10. NoWrites
  BY <1>5, <1>6 DEF NoWrites, OnlyWakes, Text
<1> QED BY <1>7, <1>8, <1>9, <1>10

(* One writer thread moves.                                                *)
LEMMA OneThread ==
  ASSUME ProfilerType, Placed, State' = State, NEW t \in Sessions, NEW new \in ThreadRecord,
         thread' = [thread EXCEPT ![t] = new],
         thread[t].pc # "none", new.pc \notin {"none", "start"},
         new.at # NoSession => thread[new.at].pc # "none",
         new.pc = "work" <=> new.work.no # 0
  PROVE  /\ thread' \in [Sessions -> ThreadRecord] /\ thread'[t] = new
         /\ \A u \in Sessions : u # t => thread'[u] = thread[u]
         /\ State \in Sessions
         /\ Placed'
<1>1. thread \in [Sessions -> ThreadRecord] /\ State \in Sessions
  BY StateIsThere DEF ProfilerType
<1>2. thread' \in [Sessions -> ThreadRecord] /\ thread'[t] = new
      /\ \A u \in Sessions : u # t => thread'[u] = thread[u]
  BY <1>1
<1>3. State # NoSession
  BY <1>1, SessionsAssumption DEF Sessions
<1>4. \A u \in Sessions : thread[u].pc # "none" => thread'[u].pc # "none"
  BY <1>2
<1>5. ASSUME NEW u \in Sessions
      PROVE  /\ thread'[u].at # NoSession => thread'[thread'[u].at].pc # "none"
             /\ thread'[u].pc = "work" <=> thread'[u].work.no # 0
             /\ thread'[u].pc \in {"none", "start"} => ~thread'[u].failed
  <2>1. CASE u = t
    <3>1. new.at \in Sessions \cup {NoSession}
      BY DEF ThreadRecord
    <3> QED BY <1>2, <1>4, <2>1, <3>1
  <2>2. CASE u # t
    <3>1. thread[u].at \in Sessions \cup {NoSession}
      BY <1>1 DEF ThreadRecord
    <3> QED BY <1>2, <1>4, <2>2, <3>1 DEF Placed
  <2> QED BY <2>1, <2>2
<1>6. Placed'
  BY <1>1, <1>3, <1>4, <1>5 DEF Placed
<1> QED BY <1>1, <1>2, <1>6

(* A writer thread starts.                                                 *)
LEMMA StartEffect ==
  ASSUME ProfilerType, Placed, NEW t \in Sessions, writer_start(t)
  PROVE  ProfilerType' /\ Placed' /\ NoMoves /\ NoWrites
<1>1. PICK th \in ThreadRecord : th = thread[t]
  BY DEF ProfilerType
<1>2. PICK failed \in BOOLEAN : thread' = [thread EXCEPT ![t].pc = "get", ![t].failed = failed]
  BY DEF writer_start
<1>3. UNCHANGED <<session, script, writer, State, cupti, closing, alive>> /\ th.pc = "start"
  BY <1>1 DEF writer_start, writerVars
<1>4. PICK new : new = [th EXCEPT !.pc = "get", !.failed = failed]
  OBVIOUS
<1>5. new \in ThreadRecord /\ new.pc = "get" /\ new.at = th.at /\ new.work = th.work /\ new.fbb = th.fbb
      /\ new.file = th.file
  BY <1>4 DEF ThreadRecord, Pcs
<1>6. thread' = [thread EXCEPT ![t] = new]
  BY <1>1, <1>2, <1>4 DEF ProfilerType
<1>7. th.at # NoSession => thread[th.at].pc # "none"
  BY <1>1 DEF Placed
<1>8. th.work.no = 0 /\ ~th.failed
  BY <1>1, <1>3 DEF Placed
<1>9. thread[t].pc # "none" /\ new.pc \notin {"none", "start"} /\ (new.at # NoSession => thread[new.at].pc # "none")
      /\ (new.pc = "work" <=> new.work.no # 0) /\ State' = State
  BY <1>1, <1>3, <1>5, <1>7, <1>8
<1>10. /\ thread' \in [Sessions -> ThreadRecord] /\ thread'[t] = new
       /\ \A u \in Sessions : u # t => thread'[u] = thread[u]
       /\ Placed'
  BY <1>5, <1>6, <1>9, OneThread
<1>11. ProfilerType'
  BY <1>3, <1>10 DEF ProfilerType
<1>12. NoMoves
  BY <1>1, <1>3, <1>5, <1>10 DEF NoMoves
<1>13. NoWrites
  BY <1>1, <1>3, <1>5, <1>8, <1>10 DEF NoWrites, Text
<1> QED BY <1>10, <1>11, <1>12, <1>13

\* Thread t takes the first buffer of the queue of x.
Takes(t, x) ==
    /\ x \in Sessions /\ thread[x].pc # "none" /\ thread[t].pc # "none"
    /\ session[x].queue # << >> /\ thread[t].work = NoBuffer
    /\ session' \in [Sessions -> SessionRecord] /\ thread' \in [Sessions -> ThreadRecord] /\ UNCHANGED cupti
    /\ \A s \in Sessions : /\ s # x => session'[s] = session[s]
                           /\ session'[s].free = session[s].free /\ session'[s].accepted = session[s].accepted
                           /\ session'[s].shut = session[s].shut
    /\ session'[x].queue = Tail(session[x].queue)
    /\ \A u \in Sessions : u # t => thread'[u] = thread[u]
    /\ thread'[t].pc = "work" /\ thread'[t].work = Head(session[x].queue) /\ Head(session[x].queue) \in Buffers
    /\ Text(thread'[t]) = Text(thread[t]) /\ thread'[t].failed = thread[t].failed

\* Thread t finds the queue of x empty and shut, and ends.
Finishes(t, x) ==
    /\ x \in Sessions /\ thread[x].pc # "none" /\ thread[t].pc # "none"
    /\ session[x].queue = << >> /\ session[x].shut /\ UNCHANGED session
    /\ \A u \in Sessions : u # t => thread'[u] = thread[u]
    /\ thread'[t].pc # "none" /\ Text(thread'[t]) = Text(thread[t]) /\ thread'[t].work = thread[t].work
    /\ thread'[t].failed = thread[t].failed
    /\ ~thread[t].failed => thread'[t].fbb = << >>

(* A writer takes the first buffer, falls asleep, or ends.                 *)
LEMMA GetEffect ==
  ASSUME ProfilerType, Placed, NEW t \in Sessions, writer_get(t)
  PROVE  /\ ProfilerType' /\ Placed'
         /\ \/ \E x \in Sessions : Takes(t, x)
            \/ NoMoves /\ NoWrites
            \/ NoMoves /\ \E x \in Sessions : Finishes(t, x)
<1>1. PICK th \in ThreadRecord : th = thread[t]
  BY DEF ProfilerType
<1>2. PICK x : x = IF th.at = NoSession THEN State ELSE th.at
  OBVIOUS
<1>3. UNCHANGED <<script, writer, State, cupti, closing, alive>> /\ th.pc = "get"
  BY <1>1 DEF writer_get, writerVars
<1>4. x \in Sessions /\ thread[x].pc # "none" /\ x # NoSession
  <2>1. State \in Sessions /\ State # NoSession
    BY <1>1, <1>3, StateIsThere, SessionsAssumption DEF Sessions
  <2>2. CASE th.at = NoSession
    BY <1>2, <2>1, <2>2 DEF Placed
  <2>3. CASE th.at # NoSession
    <3>1. th.at \in Sessions
      BY <2>3 DEF ThreadRecord
    <3> QED BY <1>1, <1>2, <2>3, <3>1 DEF Placed
  <2> QED BY <2>2, <2>3
<1>5. PICK se \in SessionRecord : se = session[x]
  BY <1>4 DEF ProfilerType
<1>6. th.work = NoBuffer /\ thread[t].pc # "none" /\ State' = State
  <2>1. th.work.no = 0
    BY <1>1, <1>3 DEF Placed
  <2> QED BY <1>1, <1>3, <2>1 DEF ThreadRecord, Buffers
<1>7. thread \in [Sessions -> ThreadRecord] /\ session \in [Sessions -> SessionRecord]
  BY DEF ProfilerType
<1>8. NoBuffer.no = 0
  BY DEF NoBuffer
<1>9. CASE se.queue # << >>
  <2>1. se.queue \in Seq(Buffers)
    BY DEF SessionRecord
  <2>2. PICK b \in Buffers : b = Head(se.queue)
    BY <1>9, <2>1, HeadTailProperties
  <2>3. PICK rest \in Seq(Buffers) : rest = Tail(se.queue)
    BY <1>9, <2>1, HeadTailProperties
  <2>4. PICK new : new = [th EXCEPT !.pc = "work", !.at = NoSession, !.work = b]
    OBVIOUS
  <2>5. new \in ThreadRecord /\ new.pc = "work" /\ new.at = NoSession /\ new.work = b /\ new.fbb = th.fbb
        /\ new.file = th.file /\ new.failed = th.failed
    BY <2>4 DEF ThreadRecord, Pcs
  <2>6. thread' = [thread EXCEPT ![t].pc = "work", ![t].at = NoSession, ![t].work = b]
        /\ session' = [session EXCEPT ![x].queue = rest]
    BY <1>1, <1>2, <1>5, <1>9, <2>2, <2>3 DEF writer_get
  <2>7. thread' = [thread EXCEPT ![t] = new]
    BY <1>1, <1>7, <2>4, <2>6
  <2>8. new.pc \notin {"none", "start"} /\ (new.at # NoSession => thread[new.at].pc # "none")
        /\ (new.pc = "work" <=> new.work.no # 0)
    BY <2>5 DEF Buffers
  <2>9. /\ thread' \in [Sessions -> ThreadRecord] /\ thread'[t] = new
        /\ \A u \in Sessions : u # t => thread'[u] = thread[u]
        /\ Placed'
    BY <1>6, <2>5, <2>7, <2>8, OneThread
  <2>10. PICK ns : ns = [se EXCEPT !.queue = rest]
    OBVIOUS
  <2>11. ns \in SessionRecord /\ ns.queue = rest /\ ns.free = se.free /\ ns.accepted = se.accepted
         /\ ns.shut = se.shut
    BY <2>10 DEF SessionRecord
  <2>12. session' = [session EXCEPT ![x] = ns]
    BY <1>4, <1>5, <1>7, <2>6, <2>10
  <2>13. session' \in [Sessions -> SessionRecord] /\ session'[x] = ns
         /\ \A s \in Sessions : s # x => session'[s] = session[s]
    BY <1>4, <1>7, <2>11, <2>12
  <2>14. ProfilerType'
    BY <1>3, <2>9, <2>13 DEF ProfilerType
  <2>15. Text(new) = Text(th)
    BY <2>5 DEF Text
  <2>16. Takes(t, x)
    BY <1>1, <1>3, <1>4, <1>5, <1>6, <1>9, <2>2, <2>3, <2>5, <2>9, <2>11, <2>13, <2>15 DEF Takes
  <2> QED BY <1>4, <2>9, <2>14, <2>16
<1>10. CASE se.queue = << >> /\ ~se.shut
  <2>1. UNCHANGED session /\ thread' = [thread EXCEPT ![t] = [th EXCEPT !.asleep = TRUE, !.at = x]]
    BY <1>1, <1>2, <1>5, <1>10 DEF writer_get
  <2>2. PICK new : new = [th EXCEPT !.asleep = TRUE, !.at = x]
    OBVIOUS
  <2>3. new \in ThreadRecord /\ new.pc = "get" /\ new.at = x /\ new.work = th.work /\ new.fbb = th.fbb
        /\ new.file = th.file /\ new.failed = th.failed
    BY <1>3, <1>4, <2>2 DEF ThreadRecord, Pcs
  <2>4. new.pc \notin {"none", "start"} /\ (new.at # NoSession => thread[new.at].pc # "none")
        /\ (new.pc = "work" <=> new.work.no # 0) /\ thread' = [thread EXCEPT ![t] = new]
    BY <1>4, <1>6, <1>8, <2>1, <2>2, <2>3
  <2>5. /\ thread' \in [Sessions -> ThreadRecord] /\ thread'[t] = new
        /\ \A u \in Sessions : u # t => thread'[u] = thread[u]
        /\ Placed'
    BY <1>6, <2>3, <2>4, OneThread
  <2>6. ProfilerType'
    BY <1>3, <2>1, <2>5 DEF ProfilerType
  <2>7. NoMoves
    BY <1>1, <1>3, <2>1, <2>3, <2>5 DEF NoMoves
  <2>8. NoWrites
    BY <1>1, <1>3, <2>1, <2>3, <2>5 DEF NoWrites, Text
  <2> QED BY <2>5, <2>6, <2>7, <2>8
<1>11. CASE se.queue = << >> /\ se.shut
  <2>1. PICK last : last = IF th.failed THEN th ELSE flush(th)
    OBVIOUS
  <2>2. last \in ThreadRecord /\ Text(last) = Text(th) /\ last.work = th.work /\ last.failed = th.failed
        /\ last.at = th.at /\ (~th.failed => last.fbb = << >>)
    BY <2>1, FlushEffect
  <2>3. PICK new : new = [last EXCEPT !.pc = "exited"]
    OBVIOUS
  <2>4. new \in ThreadRecord /\ new.pc = "exited" /\ new.at = last.at /\ new.work = last.work /\ new.fbb = last.fbb
        /\ new.file = last.file /\ new.failed = last.failed
    BY <2>2, <2>3 DEF ThreadRecord, Pcs
  <2>5. UNCHANGED session /\ thread' = [thread EXCEPT ![t] = new]
    BY <1>1, <1>2, <1>5, <1>11, <2>1, <2>3 DEF writer_get
  <2>6. new.pc \notin {"none", "start"} /\ (new.at # NoSession => thread[new.at].pc # "none")
        /\ (new.pc = "work" <=> new.work.no # 0)
    BY <1>1, <1>6, <1>8, <2>2, <2>4 DEF Placed
  <2>7. /\ thread' \in [Sessions -> ThreadRecord] /\ thread'[t] = new
        /\ \A u \in Sessions : u # t => thread'[u] = thread[u]
        /\ Placed'
    BY <1>6, <2>4, <2>5, <2>6, OneThread
  <2>8. ProfilerType'
    BY <1>3, <2>5, <2>7 DEF ProfilerType
  <2>9. NoMoves
    BY <1>1, <1>3, <2>2, <2>4, <2>5, <2>7 DEF NoMoves
  <2>10. Text(new) = Text(last)
    BY <2>4 DEF Text
  <2>11. Finishes(t, x)
    BY <1>1, <1>4, <1>5, <1>6, <1>11, <2>2, <2>4, <2>5, <2>7, <2>10 DEF Finishes
  <2> QED BY <1>4, <2>7, <2>8, <2>9, <2>11
<1> QED BY <1>9, <1>10, <1>11 DEF SessionRecord

\* Thread t serializes one record of its buffer.
Processes(t) ==
    /\ thread[t].pc # "none" /\ thread[t].pc # "exited" /\ UNCHANGED session
    /\ \A u \in Sessions : u # t => thread'[u] = thread[u]
    /\ thread'[t].pc = thread[t].pc /\ thread'[t].failed = thread[t].failed
    /\ Cat(Text(thread'[t]), Kept(thread'[t].work.records)) = Cat(Text(thread[t]), Kept(thread[t].work.records))

(* A writer serializes one record, and flushes when enough are in the      *)
(* flatbuffer.                                                             *)
LEMMA ProcessEffect ==
  ASSUME ProfilerType, Placed, NEW t \in Sessions, writer_process(t)
  PROVE  ProfilerType' /\ Placed' /\ NoMoves /\ Processes(t)
<1>1. PICK th \in ThreadRecord : th = thread[t]
  BY DEF ProfilerType
<1>2. UNCHANGED <<session, script, writer, State, cupti, closing, alive>>
      /\ th.pc = "work" /\ th.work.records # << >>
  BY <1>1 DEF writer_process, writerVars
<1>3. th.work \in Buffers
  <2>1. th.work.no # 0
    BY <1>1, <1>2 DEF Placed
  <2>2. NoBuffer.no = 0
    BY DEF NoBuffer
  <2> QED BY <2>1, <2>2 DEF ThreadRecord
<1>4. PICK new : new = process_next(th)
  OBVIOUS
<1>5. new \in ThreadRecord
      /\ Cat(Text(new), Kept(new.work.records)) = Cat(Text(th), Kept(th.work.records))
      /\ new.work \in Buffers /\ new.work.no = th.work.no
      /\ new.pc = th.pc /\ new.at = th.at /\ new.failed = th.failed
  BY <1>2, <1>3, <1>4, ProcessNextEffect
<1>6. thread' = [thread EXCEPT ![t] = new]
  BY <1>1, <1>4 DEF writer_process
<1>7. thread[t].pc # "none" /\ new.pc \notin {"none", "start"}
      /\ (new.at # NoSession => thread[new.at].pc # "none") /\ (new.pc = "work" <=> new.work.no # 0)
      /\ State' = State
  BY <1>1, <1>2, <1>5 DEF Placed
<1>8. /\ thread' \in [Sessions -> ThreadRecord] /\ thread'[t] = new
      /\ \A u \in Sessions : u # t => thread'[u] = thread[u]
      /\ Placed'
  BY <1>5, <1>6, <1>7, OneThread
<1>9. ProfilerType'
  BY <1>2, <1>8 DEF ProfilerType
<1>10. NoMoves
  BY <1>1, <1>2, <1>5, <1>8 DEF NoMoves
<1>11. Processes(t)
  BY <1>1, <1>2, <1>5, <1>8 DEF Processes
<1> QED BY <1>8, <1>9, <1>10, <1>11

\* Thread t gives its buffer back to the stack of the State of now, or drops it.
Returns(t) ==
    /\ State \in Sessions
    /\ thread[t].work \in Buffers /\ thread'[t].work = NoBuffer /\ UNCHANGED cupti
    /\ thread' \in [Sessions -> ThreadRecord] /\ session' \in [Sessions -> SessionRecord]
    /\ \A u \in Sessions : u # t => thread'[u] = thread[u]
    /\ \A s \in Sessions : /\ s # State => session'[s] = session[s]
                           /\ session'[s].queue = session[s].queue /\ session'[s].accepted = session[s].accepted
                           /\ session'[s].shut = session[s].shut
    /\ \/ session'[State].free = session[State].free
       \/ /\ Len(session[State].free) < NUM_CACHED_BUFFERS
          /\ session'[State].free = Append(session[State].free, thread[t].work.no)
    /\ thread[t].pc # "none" /\ thread'[t].pc = "get" /\ thread'[t].failed = thread[t].failed
    /\ Text(thread'[t]) = Text(thread[t])
    /\ ~thread[t].failed => thread[t].work.records = << >>

(* A writer gives its buffer back.                                         *)
LEMMA ReturnEffect ==
  ASSUME ProfilerType, Placed, NEW t \in Sessions, writer_return(t)
  PROVE  ProfilerType' /\ Placed' /\ Returns(t)
<1>1. PICK th \in ThreadRecord : th = thread[t]
  BY DEF ProfilerType
<1>2. UNCHANGED <<script, writer, State, cupti, closing, alive>> /\ th.pc = "work"
      /\ (~th.failed => th.work.records = << >>)
  BY <1>1 DEF writer_return, writerVars
<1>3. th.work \in Buffers /\ NoBuffer.no = 0
  <2>1. th.work.no # 0
    BY <1>1, <1>2 DEF Placed
  <2>2. NoBuffer.no = 0
    BY DEF NoBuffer
  <2> QED BY <2>1, <2>2 DEF ThreadRecord
<1>4. State \in Sessions
  BY <1>1, <1>2, StateIsThere
<1>5. PICK se \in SessionRecord : se = session[State]
  BY <1>4 DEF ProfilerType
<1>6. PICK ns : ns = put_free(se, th.work)
  OBVIOUS
<1>7. /\ ns \in SessionRecord /\ ns.queue = se.queue /\ ns.accepted = se.accepted
      /\ ns.shut = se.shut /\ ns.is_shutdown = se.is_shutdown
      /\ \/ ns.free = se.free
         \/ Len(se.free) < NUM_CACHED_BUFFERS /\ ns.free = Append(se.free, th.work.no)
  BY <1>3, <1>6, PutFreeEffect
<1>8. session \in [Sessions -> SessionRecord] /\ thread \in [Sessions -> ThreadRecord]
  BY DEF ProfilerType
<1>9. session' = [session EXCEPT ![State] = ns]
  BY <1>1, <1>4, <1>5, <1>6, <1>8 DEF writer_return
<1>10. session' \in [Sessions -> SessionRecord] /\ session'[State] = ns
       /\ \A s \in Sessions : s # State => session'[s] = session[s]
  BY <1>4, <1>7, <1>8, <1>9
<1>11. PICK new : new = [th EXCEPT !.pc = "get", !.work = NoBuffer]
  OBVIOUS
<1>12. new \in ThreadRecord /\ new.pc = "get" /\ new.at = th.at /\ new.work = NoBuffer /\ new.fbb = th.fbb
       /\ new.file = th.file /\ new.failed = th.failed
  BY <1>11 DEF ThreadRecord, Pcs
<1>13. thread' = [thread EXCEPT ![t] = new]
  BY <1>1, <1>8, <1>11 DEF writer_return
<1>14. thread[t].pc # "none" /\ new.pc \notin {"none", "start"}
       /\ (new.at # NoSession => thread[new.at].pc # "none") /\ (new.pc = "work" <=> new.work.no # 0)
       /\ State' = State
  BY <1>1, <1>2, <1>3, <1>12 DEF Placed
<1>15. /\ thread' \in [Sessions -> ThreadRecord] /\ thread'[t] = new
       /\ \A u \in Sessions : u # t => thread'[u] = thread[u]
       /\ Placed'
  BY <1>12, <1>13, <1>14, OneThread
<1>16. ProfilerType'
  BY <1>2, <1>10, <1>15 DEF ProfilerType
<1>17. Text(new) = Text(th)
  BY <1>12 DEF Text
<1>18. Returns(t)
  BY <1>1, <1>2, <1>3, <1>4, <1>5, <1>7, <1>10, <1>12, <1>14, <1>15, <1>17 DEF Returns
<1> QED BY <1>15, <1>16, <1>18

(* A crash cuts a flatbuffer off: the file and the flatbuffer being built  *)
(* still hold the same records.                                            *)
LEMMA CrashEffect ==
  ASSUME ProfilerType, Placed, crash
  PROVE  ProfilerType' /\ Placed' /\ NoMoves /\ NoWrites
<1>1. PICK t \in Sessions :
        /\ thread[t].fbb # << >>
        /\ thread' = [thread EXCEPT ![t].file = [parts |-> Append(@.parts, thread[t].fbb), whole |-> FALSE],
                                    ![t].fbb = << >>]
  BY DEF crash
<1>2. UNCHANGED <<script, writer, State, session, cupti, closing>> /\ alive' = FALSE
  BY DEF crash
<1>3. PICK th \in ThreadRecord : th = thread[t]
  BY DEF ProfilerType
<1>4. th.file.parts \in Seq(Seq(Records)) /\ th.fbb \in Seq(Records)
  BY DEF ThreadRecord, FileRecord
<1>5. PICK p : p = Append(th.file.parts, th.fbb)
  OBVIOUS
<1>6. p \in Seq(Seq(Records))
  <2>1. PICK Q : Q = Seq(Records)
    OBVIOUS
  <2>2. p \in Seq(Q)
    BY <1>4, <1>5, <2>1, AppendProperties
  <2> QED BY <2>1, <2>2
<1>7. PICK f : f = [parts |-> p, whole |-> FALSE]
  OBVIOUS
<1>8. f \in FileRecord /\ f.parts = p
  BY <1>6, <1>7 DEF FileRecord
<1>9. PICK e \in Seq(Records) : e = << >>
  BY EmptySeq
<1>10. PICK new : new = [th EXCEPT !.file = f, !.fbb = e]
  OBVIOUS
<1>11. new \in ThreadRecord /\ new.file = f /\ new.fbb = e
  BY <1>8, <1>9, <1>10 DEF ThreadRecord
<1>12. new.pc = th.pc /\ new.at = th.at /\ new.work = th.work /\ new.failed = th.failed
  BY <1>10 DEF ThreadRecord
<1>13. thread \in [Sessions -> ThreadRecord]
  BY DEF ProfilerType
<1>14. thread' = [thread EXCEPT ![t] = new]
  BY <1>1, <1>3, <1>5, <1>7, <1>9, <1>10, <1>13
<1>15. thread' \in [Sessions -> ThreadRecord] /\ thread'[t] = new
       /\ \A u \in Sessions : u # t => thread'[u] = thread[u]
  BY <1>11, <1>13, <1>14
<1>16. ProfilerType'
  BY <1>2, <1>15 DEF ProfilerType
<1>17. \A u \in Sessions : /\ thread[u].pc = thread'[u].pc /\ thread[u].at = thread'[u].at
                           /\ thread[u].failed = thread'[u].failed /\ thread[u].work = thread'[u].work
  BY <1>3, <1>12, <1>15
<1>18. Placed'
  <2>1. CASE State \in Sessions
    BY <1>2, <1>13, <1>17, <2>1, PlacedKept
  <2>2. CASE State = NoSession
    <3>1. Quiet'
      BY <1>2, <1>17, <2>2 DEF Placed, Quiet
    <3>2. ASSUME NEW u \in Sessions
          PROVE  /\ thread'[u].at # NoSession => thread'[thread'[u].at].pc # "none"
                 /\ thread'[u].pc = "work" <=> thread'[u].work.no # 0
                 /\ thread'[u].pc \in {"none", "start"} => ~thread'[u].failed
      <4>1. thread[u].at \in Sessions \cup {NoSession}
        BY <1>13 DEF ThreadRecord
      <4> QED BY <1>17, <4>1 DEF Placed
    <3> QED BY <1>2, <2>2, <3>1, <3>2 DEF Placed
  <2> QED BY <2>1, <2>2 DEF ProfilerType
<1>19. Text(new) = Text(th)
  <2>1. FlattenSeq(p) = Cat(FlattenSeq(th.file.parts), th.fbb)
    BY <1>4, <1>5, FlattenAppend
  <2>2. Text(th) = Cat(FlattenSeq(th.file.parts), th.fbb)
    BY DEF Text, Cat
  <2>3. Text(new) = FlattenSeq(p) \o << >>
    BY <1>8, <1>9, <1>11 DEF Text
  <2>4. FlattenSeq(p) \o << >> = FlattenSeq(p)
    BY <1>6, FlattenType, ConcatEmptySeq
  <2> QED BY <2>1, <2>2, <2>3, <2>4
<1>20. NoMoves
  BY <1>2, <1>17 DEF NoMoves
<1>21. NoWrites
  BY <1>1, <1>2, <1>3, <1>9, <1>11, <1>15, <1>17, <1>19 DEF NoWrites
<1> QED BY <1>16, <1>18, <1>20, <1>21

\* What a step can do to buffers and records.
StepKind ==
    \/ NoMoves /\ NoWrites
    \/ HandsOver \/ HandsOne \/ Requests \/ RecordsOne
    \/ \E t \in Sessions : \/ NoMoves /\ Processes(t)
                           \/ Returns(t)
                           \/ \E x \in Sessions : Takes(t, x)
                           \/ NoMoves /\ \E x \in Sessions : Finishes(t, x)

(* Every step keeps types and places, and is of one of these kinds.        *)
LEMMA StepKinds ==
  ASSUME ProfilerType, Placed, [ProfilerNext]_profilerVars
  PROVE  ProfilerType' /\ Placed' /\ StepKind
<1>1. CASE init
  BY <1>1, InitEffect DEF StepKind
<1>2. CASE start \/ shutdown_queue \/ join_writer \/ shutdown_again
  BY <1>2, JavaEffect DEF StepKind
<1>3. CASE stop \/ shutdown \/ callback_handler
  BY <1>3, FlushHandsOver DEF StepKind
<1>4. CASE buffer_requested_callback
  BY <1>4, RequestEffect DEF StepKind
<1>5. CASE record_activity
  BY <1>5, RecordEffect DEF StepKind
<1>6. CASE complete_buffer
  BY <1>6, CompleteHandsOne DEF StepKind
<1>7. ASSUME NEW t \in Sessions, writer_thread_process(t) PROVE ProfilerType' /\ Placed' /\ StepKind
  <2>1. CASE writer_start(t)
    BY <2>1, StartEffect DEF StepKind
  <2>2. CASE writer_get(t)
    BY <2>2, GetEffect DEF StepKind
  <2>3. CASE writer_process(t)
    BY <2>3, ProcessEffect DEF StepKind
  <2>4. CASE writer_return(t)
    BY <2>4, ReturnEffect DEF StepKind
  <2> QED BY <1>7, <2>1, <2>2, <2>3, <2>4 DEF writer_thread_process
<1>8. CASE crash
  BY <1>8, CrashEffect DEF StepKind
<1>9. CASE UNCHANGED profilerVars
  <2>1. UNCHANGED <<script, writer, State, session, thread, cupti, closing, alive>>
    BY <1>9 DEF profilerVars
  <2>2. ProfilerType' /\ Placed'
    BY <2>1 DEF ProfilerType, Placed, Quiet
  <2>3. NoMoves /\ NoWrites
    BY <2>1 DEF NoMoves, NoWrites
  <2> QED BY <2>2, <2>3 DEF StepKind
<1> QED BY <1>1, <1>2, <1>3, <1>4, <1>5, <1>6, <1>7, <1>8, <1>9 DEF ProfilerNext

-----------------------------------------------------------------------------
(* Records are conserved.                                                  *)

(* A step that moves no record changes nothing that is owed.               *)
LEMMA NoWritesKeeps ==
  ASSUME NoWrites, NEW s \in Sessions, Written(s) PROVE Written(s)'
<1> SUFFICES ASSUME Alone(s)', ~thread'[s].failed
             PROVE  /\ Cat(Cat(Text(thread'[s]), Kept(thread'[s].work.records)), Yield(session'[s].queue))
                        = Yield(session'[s].accepted)
                    /\ thread'[s].pc = "exited" =>
                         session'[s].shut /\ thread'[s].fbb = << >> /\ session'[s].queue = << >>
  BY DEF Written
<1>1. Alone(s) /\ ~thread[s].failed
  BY DEF Alone, NoWrites
<1>2. /\ Cat(Cat(Text(thread[s]), Kept(thread[s].work.records)), Yield(session[s].queue))
           = Yield(session[s].accepted)
      /\ thread[s].pc = "exited" => session[s].shut /\ thread[s].fbb = << >> /\ session[s].queue = << >>
  BY <1>1 DEF Written
<1> QED BY <1>2 DEF NoWrites

(* What arrives is owed, and what is owed is in the queue.                 *)
LEMMA DeliversKeeps ==
  ASSUME ProfilerType, Placed, State \in Sessions, NEW done \in Seq(Buffers), Delivers(done),
         NEW s \in Sessions, Written(s)
  PROVE  Written(s)'
<1> SUFFICES ASSUME Alone(s)', ~thread'[s].failed
             PROVE  /\ Cat(Cat(Text(thread'[s]), Kept(thread'[s].work.records)), Yield(session'[s].queue))
                        = Yield(session'[s].accepted)
                    /\ thread'[s].pc = "exited" =>
                         session'[s].shut /\ thread'[s].fbb = << >> /\ session'[s].queue = << >>
  BY DEF Written
<1>1. thread'[s].pc = thread[s].pc /\ Text(thread'[s]) = Text(thread[s]) /\ thread'[s].work = thread[s].work
      /\ thread'[s].fbb = thread[s].fbb /\ ~thread[s].failed
  BY DEF Delivers, OnlyWakes, Text
<1>2. Alone(s)
  BY DEF Alone, Delivers, OnlyWakes
<1>3. PICK te \in Seq(Records) : te = Cat(Text(thread[s]), Kept(thread[s].work.records))
  <2>1. thread[s] \in ThreadRecord
    BY DEF ProfilerType
  <2>2. thread[s].work.records \in Seq(ScriptActivities)
    <3>1. CASE thread[s].work \in Buffers
      BY <3>1 DEF Buffers
    <3>2. CASE thread[s].work = NoBuffer
      <4>1. NoBuffer.records = << >>
        BY DEF NoBuffer
      <4> QED BY <3>2, <4>1, EmptySeq
    <3> QED BY <2>1, <3>1, <3>2 DEF ThreadRecord
  <2> QED BY <2>1, <2>2, TextType, KeptType, CatType
<1>4. PICK q \in Seq(Buffers), a \in Seq(Buffers) : q = session[s].queue /\ a = session[s].accepted
  BY DEF ProfilerType, SessionRecord
<1>5. Cat(te, Yield(q)) = Yield(a)
      /\ (thread[s].pc = "exited" => session[s].shut /\ thread[s].fbb = << >> /\ q = << >>)
  BY <1>1, <1>2, <1>3, <1>4 DEF Written
<1>6. CASE session'[s].queue = q /\ session'[s].accepted = a
  BY <1>1, <1>3, <1>5, <1>6 DEF Delivers
<1>7. CASE ~session[s].shut /\ session'[s].queue = Cat(q, done) /\ session'[s].accepted = Cat(a, done)
  <2>1. Yield(Cat(q, done)) = Cat(Yield(q), Yield(done)) /\ Yield(Cat(a, done)) = Cat(Yield(a), Yield(done))
    BY YieldCat
  <2>2. Cat(Cat(te, Yield(q)), Yield(done)) = Cat(te, Cat(Yield(q), Yield(done)))
    BY YieldType, CatAssociative
  <2> QED BY <1>1, <1>3, <1>5, <1>7, <2>1, <2>2
<1>8. \/ session'[s].queue = q /\ session'[s].accepted = a
      \/ ~session[s].shut /\ session'[s].queue = Cat(q, done) /\ session'[s].accepted = Cat(a, done)
  BY <1>4 DEF Delivers
<1> QED BY <1>6, <1>7, <1>8

(* The writer takes the buffer that is owed next.                          *)
LEMMA TakesKeeps ==
  ASSUME ProfilerType, Placed, NEW t \in Sessions, NEW x \in Sessions, Takes(t, x),
         NEW s \in Sessions, Written(s)
  PROVE  Written(s)'
<1> SUFFICES ASSUME Alone(s)', ~thread'[s].failed
             PROVE  /\ Cat(Cat(Text(thread'[s]), Kept(thread'[s].work.records)), Yield(session'[s].queue))
                        = Yield(session'[s].accepted)
                    /\ thread'[s].pc = "exited" =>
                         session'[s].shut /\ thread'[s].fbb = << >> /\ session'[s].queue = << >>
  BY DEF Written
<1>1. thread'[t].pc # "none" /\ \A u \in Sessions : thread[u].pc # "none" => thread'[u].pc # "none"
  BY DEF Takes
<1>2. t = s /\ x = s /\ Alone(s)
  BY <1>1 DEF Alone, Takes
<1>3. ~thread[s].failed /\ thread[s].work = NoBuffer /\ Text(thread'[s]) = Text(thread[s])
      /\ thread'[s].pc = "work" /\ session'[s].accepted = session[s].accepted
  BY <1>2 DEF Takes
<1>4. PICK q \in Seq(Buffers), a \in Seq(Buffers) : q = session[s].queue /\ a = session[s].accepted
  BY DEF ProfilerType, SessionRecord
<1>5. PICK b \in Buffers, rest \in Seq(Buffers) :
        b = Head(q) /\ rest = Tail(q) /\ q = Cat(<<b>>, rest) /\ <<b>> \in Seq(Buffers)
  BY <1>2, <1>4, HeadCatTail DEF Takes
<1>6. thread'[s].work = b /\ session'[s].queue = rest
  BY <1>2, <1>4, <1>5 DEF Takes
<1>7. PICK te \in Seq(Records) : te = Text(thread[s])
  BY TextType DEF ProfilerType
<1>8. Cat(te, Yield(q)) = Yield(a)
  <2>1. Kept(NoBuffer.records) = << >>
    BY NothingKept DEF NoBuffer
  <2>2. Cat(te, << >>) = te
    BY CatType
  <2>3. Cat(Cat(te, Kept(NoBuffer.records)), Yield(q)) = Yield(a)
    BY <1>2, <1>3, <1>4, <1>7 DEF Written
  <2> QED BY <2>1, <2>2, <2>3
<1>9. Yield(q) = Cat(Kept(b.records), Yield(rest))
  <2>1. Yield(q) = Cat(Yield(<<b>>), Yield(rest))
    BY <1>5, YieldCat
  <2> QED BY <2>1, YieldOne
<1>10. Cat(Cat(te, Kept(b.records)), Yield(rest)) = Cat(te, Cat(Kept(b.records), Yield(rest)))
  <2>1. b.records \in Seq(ScriptActivities)
    BY DEF Buffers
  <2> QED BY <2>1, KeptType, YieldType, CatAssociative
<1> QED BY <1>3, <1>4, <1>6, <1>7, <1>8, <1>9, <1>10

(* A writer moves a record from its buffer to its text.                    *)
LEMMA ProcessesKeeps ==
  ASSUME NEW t \in Sessions, Processes(t), NEW s \in Sessions, Written(s)
  PROVE  Written(s)'
<1> SUFFICES ASSUME Alone(s)', ~thread'[s].failed
             PROVE  /\ Cat(Cat(Text(thread'[s]), Kept(thread'[s].work.records)), Yield(session'[s].queue))
                        = Yield(session'[s].accepted)
                    /\ thread'[s].pc = "exited" =>
                         session'[s].shut /\ thread'[s].fbb = << >> /\ session'[s].queue = << >>
  BY DEF Written
<1>1. t = s /\ Alone(s)
  BY DEF Alone, Processes
<1>2. Cat(Cat(Text(thread[s]), Kept(thread[s].work.records)), Yield(session[s].queue)) = Yield(session[s].accepted)
  BY <1>1 DEF Written, Processes
<1> QED BY <1>1, <1>2 DEF Processes

(* A buffer that is given back has nothing left in it.                     *)
LEMMA ReturnsKeeps ==
  ASSUME NEW t \in Sessions, Returns(t), NEW s \in Sessions, Written(s)
  PROVE  Written(s)'
<1> SUFFICES ASSUME Alone(s)', ~thread'[s].failed
             PROVE  /\ Cat(Cat(Text(thread'[s]), Kept(thread'[s].work.records)), Yield(session'[s].queue))
                        = Yield(session'[s].accepted)
                    /\ thread'[s].pc = "exited" =>
                         session'[s].shut /\ thread'[s].fbb = << >> /\ session'[s].queue = << >>
  BY DEF Written
<1>1. t = s /\ Alone(s)
  BY DEF Alone, Returns
<1>2. Cat(Cat(Text(thread[s]), Kept(thread[s].work.records)), Yield(session[s].queue)) = Yield(session[s].accepted)
  BY <1>1 DEF Written, Returns
<1>3. thread[s].work.records = << >> /\ thread'[s].work = NoBuffer /\ NoBuffer.records = << >>
  BY <1>1 DEF Returns, NoBuffer
<1>4. Text(thread'[s]) = Text(thread[s]) /\ thread'[s].pc = "get"
      /\ session'[s].queue = session[s].queue /\ session'[s].accepted = session[s].accepted
  BY <1>1 DEF Returns
<1> QED BY <1>2, <1>3, <1>4

(* A thread ends with nothing owed and nothing unwritten.                  *)
LEMMA FinishesKeeps ==
  ASSUME NEW t \in Sessions, NEW x \in Sessions, Finishes(t, x),
         NEW s \in Sessions, Written(s)
  PROVE  Written(s)'
<1> SUFFICES ASSUME Alone(s)', ~thread'[s].failed
             PROVE  /\ Cat(Cat(Text(thread'[s]), Kept(thread'[s].work.records)), Yield(session'[s].queue))
                        = Yield(session'[s].accepted)
                    /\ thread'[s].pc = "exited" =>
                         session'[s].shut /\ thread'[s].fbb = << >> /\ session'[s].queue = << >>
  BY DEF Written
<1>1. \A u \in Sessions : thread[u].pc # "none" => thread'[u].pc # "none"
  BY DEF Finishes
<1>2. t = s /\ x = s /\ Alone(s)
  BY <1>1 DEF Alone, Finishes
<1>3. Cat(Cat(Text(thread[s]), Kept(thread[s].work.records)), Yield(session[s].queue)) = Yield(session[s].accepted)
  BY <1>2 DEF Written, Finishes
<1> QED BY <1>2, <1>3 DEF Finishes

(* Every step keeps what a session is owed.                                *)
LEMMA StepKeepsWritten ==
  ASSUME ProfilerType, Placed, StepKind, NEW s \in Sessions, Written(s)
  PROVE  Written(s)'
<1>1. CASE NoMoves /\ NoWrites
  BY <1>1, NoWritesKeeps
<1>2. CASE HandsOver
  <2>1. State \in Sessions /\ Delivers(Flushed)
    BY <1>2 DEF HandsOver
  <2> QED BY <2>1, FlushedEffect, DeliversKeeps
<1>3. CASE HandsOne
  <2>1. PICK b \in Buffers : b = Head(cupti.full)
    BY <1>3 DEF HandsOne
  <2>2. State \in Sessions /\ Delivers(<<b>>)
    BY <1>3, <2>1 DEF HandsOne
  <2>3. <<b>> \in Seq(Buffers)
    OBVIOUS
  <2> QED BY <2>2, <2>3, DeliversKeeps
<1>4. CASE Requests \/ RecordsOne
  <2>1. UNCHANGED thread /\ \A x \in Sessions : /\ session'[x].queue = session[x].queue
                                               /\ session'[x].accepted = session[x].accepted
                                               /\ session'[x].shut = session[x].shut
    BY <1>4 DEF Requests, RecordsOne
  <2>2. NoWrites
    BY <2>1 DEF NoWrites
  <2> QED BY <2>2, NoWritesKeeps
<1>5. ASSUME NEW t \in Sessions,
             Processes(t) \/ Returns(t) \/ \E x \in Sessions : Takes(t, x) \/ Finishes(t, x)
      PROVE  Written(s)'
  BY <1>5, ProcessesKeeps, ReturnsKeeps, TakesKeeps, FinishesKeeps
<1> QED BY <1>1, <1>2, <1>3, <1>4, <1>5 DEF StepKind

(* At first nothing is written, and nothing owed.                          *)
LEMMA WrittenInit == ASSUME ProfilerInit, NEW s \in Sessions PROVE Written(s)
<1>1. PICK e \in Seq(Records) : e = << >>
  BY EmptySeq
<1>2. NewThread.file.parts = e /\ NewThread.fbb = e /\ NewThread.work.records = e /\ NewThread.pc = "none"
  BY <1>1 DEF NewThread, NoBuffer
<1>3. NewSession.queue = e /\ NewSession.accepted = e
  BY <1>1 DEF NewSession
<1>4. thread[s] = NewThread /\ session[s] = NewSession
  BY DEF ProfilerInit
<1>5. Cat(e, e) = e
  BY <1>1, CatType
<1>6. FlattenSeq(e) = e /\ Kept(e) = e /\ Yield(e) = e
  BY <1>1, FlattenEmpty, NothingKept
<1>7. Text(NewThread) = Cat(e, e)
  BY <1>2, <1>6 DEF Text, Cat
<1>8. Cat(Cat(Text(NewThread), Kept(NewThread.work.records)), Yield(NewSession.queue)) = Yield(NewSession.accepted)
  BY <1>2, <1>3, <1>5, <1>6, <1>7
<1> QED BY <1>2, <1>4, <1>8 DEF Written

\* The inductive invariant of NoRecordLost.
RecordsInvariant == ProfilerType /\ Placed /\ \A s \in Sessions : Written(s)

(* It is invariant: records are conserved.                                 *)
THEOREM RecordsAreConserved == ProfilerSpec => []RecordsInvariant
<1>1. ProfilerInit => RecordsInvariant
  BY TypedInit, WrittenInit DEF RecordsInvariant
<1>2. RecordsInvariant /\ [ProfilerNext]_profilerVars => RecordsInvariant'
  <2> SUFFICES ASSUME RecordsInvariant, [ProfilerNext]_profilerVars PROVE RecordsInvariant'
    OBVIOUS
  <2>1. ProfilerType /\ Placed /\ \A s \in Sessions : Written(s)
    BY DEF RecordsInvariant
  <2>2. ProfilerType' /\ Placed' /\ StepKind
    BY <2>1, StepKinds
  <2>3. ASSUME NEW s \in Sessions PROVE Written(s)'
    BY <2>1, <2>2, StepKeepsWritten
  <2> QED BY <2>2, <2>3 DEF RecordsInvariant
<1> QED BY <1>1, <1>2, PTL DEF ProfilerSpec

(* NoRecordLost: what a session's queue accepted reaches its file once and *)
(* in the order of arrival, for any scripts, capacities, number of         *)
(* sessions and moments of shutdown, crash and failed init.                *)
THEOREM EveryRecordIsWritten == ProfilerSpec => []NoRecordLost
<1>1. ASSUME RecordsInvariant PROVE NoRecordLost
  <2>1. ASSUME NEW s \in Sessions, \A t \in Sessions : thread[t].pc # "none" => t = s, ~thread[s].failed
        PROVE  /\ (Serialized(s) \o Kept(thread[s].work.records) \o Kept(Activities(session[s].queue)))
                     = Kept(Activities(session[s].accepted))
               /\ thread[s].pc = "exited" => thread[s].fbb = << >> /\ session[s].queue = << >>
    <3>1. Alone(s) /\ Written(s)
      BY <1>1, <2>1 DEF Alone, RecordsInvariant
    <3>2. /\ Cat(Cat(Text(thread[s]), Kept(thread[s].work.records)), Yield(session[s].queue))
               = Yield(session[s].accepted)
          /\ thread[s].pc = "exited" => session[s].shut /\ thread[s].fbb = << >> /\ session[s].queue = << >>
      BY <2>1, <3>1 DEF Written
    <3>3. Text(thread[s]) = Serialized(s)
      BY DEF Text, Serialized
    <3>4. Cat(Cat(Serialized(s), Kept(thread[s].work.records)), Kept(Activities(session[s].queue)))
            = Kept(Activities(session[s].accepted))
      BY <3>2, <3>3 DEF Yield
    <3> QED BY <3>2, <3>4 DEF Cat
  <2> QED BY <2>1 DEF NoRecordLost
<1> QED BY <1>1, RecordsAreConserved, PTL

-----------------------------------------------------------------------------
(* Buffers.  Sequences of numbers, without repetition.                     *)

(* A concatenation repeats nothing when its parts share nothing.           *)
LEMMA CatInjective ==
  ASSUME NEW S, NEW a \in Seq(S), NEW b \in Seq(S)
  PROVE  /\ Elements(Cat(a, b)) = Elements(a) \cup Elements(b)
         /\ IsInjective(a) /\ IsInjective(b) /\ Elements(a) \cap Elements(b) = {} => IsInjective(Cat(a, b))
<1>1. PICK c \in Seq(S) : c = Cat(a, b)
  BY CatType
<1>2. /\ Len(a) \in Nat /\ Len(b) \in Nat /\ Len(c) = Len(a) + Len(b)
      /\ DOMAIN a = 1 .. Len(a) /\ DOMAIN b = 1 .. Len(b) /\ DOMAIN c = 1 .. Len(c)
      /\ \A i \in 1 .. Len(a) : c[i] = a[i]
      /\ \A i \in Len(a) + 1 .. Len(c) : c[i] = b[i - Len(a)]
  BY <1>1, LenProperties, ConcatProperties DEF Cat
<1>3. Elements(c) \subseteq Elements(a) \cup Elements(b)
  <2> SUFFICES ASSUME NEW i \in 1 .. Len(c) PROVE c[i] \in Elements(a) \cup Elements(b)
    BY <1>2 DEF Elements
  <2>1. CASE i <= Len(a)
    BY <1>2, <2>1 DEF Elements
  <2>2. CASE i > Len(a)
    <3>1. i - Len(a) \in 1 .. Len(b) /\ i \in Len(a) + 1 .. Len(c)
      BY <1>2, <2>2
    <3> QED BY <1>2, <3>1 DEF Elements
  <2> QED BY <1>2, <2>1, <2>2
<1>4. Elements(a) \subseteq Elements(c)
  <2>1. \A i \in 1 .. Len(a) : i \in 1 .. Len(c) /\ c[i] = a[i]
    BY <1>2
  <2> QED BY <1>2, <2>1 DEF Elements
<1>5. Elements(b) \subseteq Elements(c)
  <2> SUFFICES ASSUME NEW j \in 1 .. Len(b) PROVE b[j] \in Elements(c)
    BY <1>2 DEF Elements
  <2>1. j + Len(a) \in 1 .. Len(c) /\ j + Len(a) \in Len(a) + 1 .. Len(c) /\ (j + Len(a)) - Len(a) = j
    BY <1>2
  <2>2. c[j + Len(a)] = b[j]
    BY <1>2, <2>1
  <2> QED BY <1>2, <2>1, <2>2 DEF Elements
<1>6. ASSUME IsInjective(a), IsInjective(b), Elements(a) \cap Elements(b) = {} PROVE IsInjective(c)
  <2> SUFFICES ASSUME NEW i \in 1 .. Len(c), NEW j \in 1 .. Len(c), c[i] = c[j] PROVE i = j
    BY <1>2 DEF IsInjective
  <2>1. \A m \in 1 .. Len(c) : IF m <= Len(a) THEN m \in DOMAIN a /\ c[m] = a[m] /\ c[m] \in Elements(a)
                               ELSE m - Len(a) \in DOMAIN b /\ c[m] = b[m - Len(a)] /\ c[m] \in Elements(b)
    <3> SUFFICES ASSUME NEW m \in 1 .. Len(c)
                 PROVE  IF m <= Len(a) THEN m \in DOMAIN a /\ c[m] = a[m] /\ c[m] \in Elements(a)
                        ELSE m - Len(a) \in DOMAIN b /\ c[m] = b[m - Len(a)] /\ c[m] \in Elements(b)
      OBVIOUS
    <3>1. CASE m <= Len(a)
      BY <1>2, <3>1 DEF Elements
    <3>2. CASE ~(m <= Len(a))
      <4>1. m - Len(a) \in 1 .. Len(b) /\ m \in Len(a) + 1 .. Len(c)
        BY <1>2, <3>2
      <4> QED BY <1>2, <3>2, <4>1 DEF Elements
    <3> QED BY <3>1, <3>2
  <2>2. CASE i <= Len(a) /\ j <= Len(a)
    BY <1>6, <2>1, <2>2 DEF IsInjective
  <2>3. CASE ~(i <= Len(a)) /\ ~(j <= Len(a))
    <3>1. i - Len(a) = j - Len(a)
      BY <1>6, <2>1, <2>3 DEF IsInjective
    <3> QED BY <1>2, <3>1
  <2>4. ((i <= Len(a)) <=> (j <= Len(a)))
    BY <1>6, <2>1
  <2> QED BY <2>2, <2>3, <2>4
<1> QED BY <1>1, <1>3, <1>4, <1>5, <1>6

(* One element.                                                            *)
LEMMA OneInjective ==
  ASSUME NEW S, NEW x \in S
  PROVE  <<x>> \in Seq(S) /\ Elements(<<x>>) = {x} /\ IsInjective(<<x>>)
BY DEF Elements, IsInjective

(* None.                                                                   *)
LEMMA NoneInjective == Elements(<< >>) = {} /\ IsInjective(<< >>)
BY DEF Elements, IsInjective

(* The head leaves a sequence that repeats nothing for good.               *)
LEMMA TailInjective ==
  ASSUME NEW S, NEW s \in Seq(S), s # << >>, IsInjective(s)
  PROVE  /\ Tail(s) \in Seq(S) /\ IsInjective(Tail(s)) /\ Head(s) \in Elements(s) /\ Head(s) \in S
         /\ Elements(Tail(s)) \subseteq Elements(s) \ {Head(s)}
<1>1. PICK r \in Seq(S) : r = Tail(s)
  BY HeadTailProperties
<1>2. /\ Len(s) \in Nat /\ Len(s) >= 1 /\ Len(r) = Len(s) - 1 /\ Head(s) = s[1]
      /\ \A i \in 1 .. Len(r) : r[i] = s[i + 1]
      /\ DOMAIN s = 1 .. Len(s) /\ DOMAIN r = 1 .. Len(r)
  <2>1. Len(s) \in Nat /\ Len(s) # 0
    BY EmptySeq, LenProperties
  <2> QED BY <1>1, <2>1, HeadTailProperties, LenProperties
<1>3. \A i \in 1 .. Len(r) : i + 1 \in DOMAIN s /\ i + 1 # 1 /\ r[i] = s[i + 1] /\ 1 \in DOMAIN s
  BY <1>2
<1>4. IsInjective(r)
  <2> SUFFICES ASSUME NEW i \in 1 .. Len(r), NEW j \in 1 .. Len(r), r[i] = r[j] PROVE i = j
    BY <1>2 DEF IsInjective
  <2>1. i + 1 = j + 1
    BY <1>3 DEF IsInjective
  <2> QED BY <1>2, <2>1
<1>5. Head(s) \in Elements(s) /\ Head(s) \in S
  BY <1>2 DEF Elements
<1>6. Elements(r) \subseteq Elements(s) \ {Head(s)}
  BY <1>2, <1>3 DEF Elements, IsInjective
<1> QED BY <1>1, <1>4, <1>5, <1>6

(* So does the last one.                                                   *)
LEMMA FrontInjective ==
  ASSUME NEW S, NEW s \in Seq(S), s # << >>, IsInjective(s)
  PROVE  /\ IsInjective(Front(s)) /\ s[Len(s)] \in Elements(s) /\ s[Len(s)] \in S
         /\ Elements(Front(s)) \subseteq Elements(s) \ {s[Len(s)]}
<1>1. PICK r \in Seq(S) : r = Front(s)
  BY FrontProperties
<1>2. /\ Len(s) \in Nat /\ Len(s) >= 1 /\ Len(r) = Len(s) - 1
      /\ \A i \in 1 .. Len(r) : r[i] = s[i]
      /\ DOMAIN s = 1 .. Len(s) /\ DOMAIN r = 1 .. Len(r)
  <2>1. Len(s) \in Nat /\ Len(s) # 0
    BY EmptySeq, LenProperties
  <2>2. Len(Front(s)) = Len(s) - 1 /\ \A i \in 1 .. Len(s) - 1 : Front(s)[i] = s[i]
    BY FrontProperties
  <2>3. DOMAIN s = 1 .. Len(s) /\ DOMAIN r = 1 .. Len(r)
    BY LenProperties
  <2> QED BY <1>1, <2>1, <2>2, <2>3
<1>3. \A i \in 1 .. Len(r) : i \in DOMAIN s /\ i # Len(s) /\ r[i] = s[i] /\ Len(s) \in DOMAIN s
  BY <1>2
<1>4. IsInjective(r)
  BY <1>2, <1>3 DEF IsInjective
<1>5. s[Len(s)] \in Elements(s) /\ s[Len(s)] \in S
  BY <1>2 DEF Elements
<1>6. Elements(r) \subseteq Elements(s) \ {s[Len(s)]}
  BY <1>2, <1>3 DEF Elements, IsInjective
<1> QED BY <1>1, <1>4, <1>5, <1>6

(* The numbers of some buffers.                                            *)
LEMMA NumbersType ==
  ASSUME NEW b \in Seq(Buffers)
  PROVE  /\ Numbers(b) \in Seq(Nat \ {0}) /\ Len(Numbers(b)) = Len(b)
         /\ \A i \in 1 .. Len(b) : Numbers(b)[i] = b[i].no
<1>1. PICK n \in Nat : n = Len(b) /\ DOMAIN b = 1 .. n
  BY LenProperties
<1>2. \A i \in 1 .. n : b[i].no \in Nat \ {0}
  <2>1. \A i \in 1 .. n : b[i] \in Buffers
    BY <1>1
  <2> QED BY <2>1 DEF Buffers
<1>3. Numbers(b) = [k \in 1 .. n |-> b[k].no]
  BY <1>1 DEF Numbers
<1>4. Numbers(b) \in [1 .. n -> Nat \ {0}]
  BY <1>2, <1>3
<1> QED BY <1>1, <1>3, <1>4

(* Of buffers one after the other.                                         *)
LEMMA NumbersCat ==
  ASSUME NEW a \in Seq(Buffers), NEW b \in Seq(Buffers)
  PROVE  Numbers(Cat(a, b)) = Cat(Numbers(a), Numbers(b))
<1>1. PICK c \in Seq(Buffers) : c = Cat(a, b)
  BY CatType
<1>2. PICK x \in Seq(Nat \ {0}), y \in Seq(Nat \ {0}), z \in Seq(Nat \ {0}) :
        x = Numbers(a) /\ y = Numbers(b) /\ z = Numbers(c)
  BY NumbersType
<1>3. /\ Len(x) = Len(a) /\ Len(y) = Len(b) /\ Len(z) = Len(c)
      /\ (\A i \in 1 .. Len(a) : x[i] = a[i].no) /\ (\A i \in 1 .. Len(b) : y[i] = b[i].no)
      /\ \A i \in 1 .. Len(c) : z[i] = c[i].no
  BY <1>2, NumbersType
<1>4. PICK w \in Seq(Nat \ {0}) : w = Cat(x, y)
  BY CatType
<1>5. /\ Len(a) \in Nat /\ Len(b) \in Nat /\ Len(c) = Len(a) + Len(b)
      /\ \A i \in 1 .. Len(a) : c[i] = a[i]
      /\ \A i \in Len(a) + 1 .. Len(c) : c[i] = b[i - Len(a)]
  BY <1>1, LenProperties, ConcatProperties DEF Cat
<1>6. /\ Len(w) = Len(x) + Len(y)
      /\ \A i \in 1 .. Len(x) : w[i] = x[i]
      /\ \A i \in Len(x) + 1 .. Len(w) : w[i] = y[i - Len(x)]
  BY <1>4, LenProperties, ConcatProperties DEF Cat
<1>7. Len(w) = Len(z)
  BY <1>3, <1>5, <1>6
<1>8. ASSUME NEW i \in 1 .. Len(z) PROVE w[i] = z[i]
  <2>1. CASE i <= Len(a)
    <3>1. i \in 1 .. Len(a) /\ i \in 1 .. Len(x) /\ i \in 1 .. Len(c)
      BY <1>3, <1>5, <2>1
    <3> QED BY <1>3, <1>5, <1>6, <3>1
  <2>2. CASE i > Len(a)
    <3>1. i \in Len(a) + 1 .. Len(c) /\ i - Len(a) \in 1 .. Len(b) /\ i \in 1 .. Len(c)
      BY <1>3, <1>5, <2>2
    <3>2. w[i] = y[i - Len(a)]
      BY <1>3, <1>5, <1>6, <3>1
    <3> QED BY <1>3, <1>5, <3>1, <3>2
  <2> QED BY <1>3, <1>5, <2>1, <2>2
<1>9. w = z
  BY <1>7, <1>8, SeqEqual
<1> QED BY <1>1, <1>2, <1>4, <1>9

(* Of one.                                                                 *)
LEMMA NumbersOne == ASSUME NEW b \in Buffers PROVE Numbers(<<b>>) = <<b.no>>
BY DEF Numbers

(* None of none.                                                           *)
LEMMA NumbersNone == Numbers(<< >>) = << >> /\ NumberOf(NoBuffer) = << >>
BY DEF Numbers, NumberOf, NoBuffer

(* The number of a buffer that may be none.                                *)
LEMMA NumberOfType ==
  ASSUME NEW b \in Buffers \cup {NoBuffer}
  PROVE  NumberOf(b) \in Seq(Nat \ {0}) /\ IsInjective(NumberOf(b)) /\ Elements(NumberOf(b)) \subseteq {b.no}
<1>1. CASE b = NoBuffer
  BY <1>1, NumbersNone, NoneInjective, EmptySeq
<1>2. CASE b \in Buffers
  <2>1. b.no \in Nat \ {0}
    BY <1>2 DEF Buffers
  <2>2. NumberOf(b) = <<b.no>>
    BY <2>1 DEF NumberOf
  <2> QED BY <2>1, <2>2, OneInjective
<1> QED BY <1>1, <1>2

(* Those of the rest of some buffers.                                      *)
LEMMA NumbersTail ==
  ASSUME NEW b \in Seq(Buffers), b # << >>
  PROVE  Numbers(b) # << >> /\ Numbers(Tail(b)) = Tail(Numbers(b)) /\ Head(b).no = Head(Numbers(b))
<1>1. PICK r \in Seq(Buffers) : r = Tail(b)
  BY HeadTailProperties
<1>2. PICK x \in Seq(Nat \ {0}), y \in Seq(Nat \ {0}) : x = Numbers(b) /\ y = Numbers(r)
  BY NumbersType
<1>3. /\ Len(x) = Len(b) /\ Len(y) = Len(r)
      /\ (\A i \in 1 .. Len(b) : x[i] = b[i].no) /\ (\A i \in 1 .. Len(r) : y[i] = r[i].no)
  BY <1>2, NumbersType
<1>4. Len(b) \in Nat /\ Len(b) >= 1
  <2>1. Len(b) \in Nat /\ Len(b) # 0
    BY EmptySeq, LenProperties
  <2> QED BY <2>1
<1>5. Len(r) = Len(b) - 1 /\ Head(b) = b[1] /\ \A i \in 1 .. Len(r) : r[i] = b[i + 1]
  BY <1>1, <1>4, HeadTailProperties
<1>6. x # << >>
  BY <1>3, <1>4, EmptySeq
<1>7. PICK z \in Seq(Nat \ {0}) : z = Tail(x)
  BY <1>6, HeadTailProperties
<1>8. Len(z) = Len(x) - 1 /\ Head(x) = x[1] /\ \A i \in 1 .. Len(z) : z[i] = x[i + 1]
  BY <1>6, <1>7, HeadTailProperties
<1>9. Len(y) = Len(z)
  BY <1>3, <1>5, <1>8
<1>10. ASSUME NEW i \in 1 .. Len(y) PROVE y[i] = z[i]
  <2>0. Len(y) = Len(b) - 1 /\ Len(r) = Len(y) /\ Len(z) = Len(y)
    BY <1>3, <1>5, <1>9
  <2>1. i \in 1 .. Len(r) /\ i \in 1 .. Len(z) /\ i + 1 \in 1 .. Len(b)
    BY <1>4, <2>0
  <2> QED BY <1>3, <1>5, <1>8, <2>1
<1>11. y = z
  BY <1>9, <1>10, SeqEqual
<1>12. Head(b).no = Head(x)
  BY <1>3, <1>4, <1>5, <1>8
<1> QED BY <1>1, <1>2, <1>6, <1>7, <1>11, <1>12

-----------------------------------------------------------------------------
(* Buffers.  Places, and moves between them.                               *)

FreeOf(s)  == <<"free", s>>
QueueOf(s) == <<"queue", s>>
WorkOf(s)  == <<"work", s>>
Full       == <<"full", NoSession>>
Filling    == <<"filling", NoSession>>

\* What is where.
Holding == [p \in BufferPlaces |-> Held(p)]

\* A number is at one place, once.
OneOwner(h) ==
    \A p \in BufferPlaces :
        /\ IsInjective(h[p])
        /\ \A q \in BufferPlaces : p # q => Elements(h[p]) \cap Elements(h[q]) = {}

\* The numbers in X leave the places in src for the place q.
Moves(h, k, src, q, X) ==
    /\ src \subseteq BufferPlaces /\ q \in BufferPlaces \ src
    /\ \A r \in BufferPlaces \ src : Elements(h[r]) \cap X = {}
    /\ \A r \in BufferPlaces \ (src \cup {q}) : k[r] = h[r]
    /\ \A p \in src : IsInjective(k[p]) /\ Elements(k[p]) \subseteq Elements(h[p]) \ X
    /\ IsInjective(k[q]) /\ Elements(k[q]) \subseteq Elements(h[q]) \cup X

\* Numbers leave for good.
Shrinks(h, k) == \A p \in BufferPlaces : IsInjective(k[p]) /\ Elements(k[p]) \subseteq Elements(h[p])

(* The five kinds of places differ.                                        *)
LEMMA PlacesDiffer ==
  /\ Full \in BufferPlaces /\ Filling \in BufferPlaces /\ Full # Filling
  /\ \A s \in Sessions :
       /\ FreeOf(s) \in BufferPlaces /\ QueueOf(s) \in BufferPlaces /\ WorkOf(s) \in BufferPlaces
       /\ FreeOf(s) # Full /\ QueueOf(s) # Full /\ WorkOf(s) # Full
       /\ FreeOf(s) # Filling /\ QueueOf(s) # Filling /\ WorkOf(s) # Filling
       /\ \A t \in Sessions : /\ FreeOf(s) # QueueOf(t) /\ QueueOf(s) # WorkOf(t) /\ FreeOf(s) # WorkOf(t)
                              /\ FreeOf(s) = FreeOf(t) => s = t
                              /\ QueueOf(s) = QueueOf(t) => s = t
                              /\ WorkOf(s) = WorkOf(t) => s = t
BY DEF FreeOf, QueueOf, WorkOf, Full, Filling, BufferPlaces

(* There are no others.                                                    *)
LEMMA PlacesAre ==
  ASSUME NEW p \in BufferPlaces
  PROVE  p = Full \/ p = Filling \/ \E s \in Sessions : p = FreeOf(s) \/ p = QueueOf(s) \/ p = WorkOf(s)
BY DEF FreeOf, QueueOf, WorkOf, Full, Filling, BufferPlaces

(* What each of them holds.                                                *)
LEMMA HoldingIs ==
  /\ Holding[Full] = Numbers(cupti.full) /\ Holding[Filling] = NumberOf(cupti.filling)
  /\ \A s \in Sessions : /\ Holding[FreeOf(s)] = session[s].free
                         /\ Holding[QueueOf(s)] = Numbers(session[s].queue)
                         /\ Holding[WorkOf(s)] = NumberOf(thread[s].work)
<1>1. Held(Full) = Numbers(cupti.full) /\ Held(Filling) = NumberOf(cupti.filling)
  BY DEF Held, Full, Filling
<1>2. ASSUME NEW s \in Sessions
      PROVE  Held(FreeOf(s)) = session[s].free /\ Held(QueueOf(s)) = Numbers(session[s].queue)
             /\ Held(WorkOf(s)) = NumberOf(thread[s].work)
  BY DEF Held, FreeOf, QueueOf, WorkOf
<1> QED BY <1>1, <1>2, PlacesDiffer DEF Holding

(* And what after a step.                                                  *)
LEMMA HoldingWillBe ==
  /\ Holding'[Full] = Numbers(cupti'.full) /\ Holding'[Filling] = NumberOf(cupti'.filling)
  /\ \A s \in Sessions : /\ Holding'[FreeOf(s)] = session'[s].free
                         /\ Holding'[QueueOf(s)] = Numbers(session'[s].queue)
                         /\ Holding'[WorkOf(s)] = NumberOf(thread'[s].work)
<1>1. Held(Full)' = Numbers(cupti'.full) /\ Held(Filling)' = NumberOf(cupti'.filling)
  BY DEF Held, Full, Filling, Numbers, NumberOf
<1>2. ASSUME NEW s \in Sessions
      PROVE  Held(FreeOf(s))' = session'[s].free /\ Held(QueueOf(s))' = Numbers(session'[s].queue)
             /\ Held(WorkOf(s))' = NumberOf(thread'[s].work)
  BY DEF Held, FreeOf, QueueOf, WorkOf, Numbers, NumberOf
<1>3. Holding' = [p \in BufferPlaces |-> Held(p)']
  BY DEF Holding, BufferPlaces, Sessions
<1> QED BY <1>1, <1>2, <1>3, PlacesDiffer

(* A move keeps one owner.                                                 *)
LEMMA MovesKeep ==
  ASSUME NEW h, NEW k, NEW src, NEW q, NEW X, OneOwner(h), Moves(h, k, src, q, X)
  PROVE  OneOwner(k) /\ \A p \in BufferPlaces : Elements(k[p]) \subseteq Elements(h[p]) \cup X
<1>1. src \subseteq BufferPlaces /\ q \in BufferPlaces \ src
  BY DEF Moves
<1>2. ASSUME NEW p \in BufferPlaces
      PROVE  /\ IsInjective(k[p])
             /\ p # q => Elements(k[p]) \subseteq Elements(h[p]) /\ Elements(k[p]) \cap X = {}
             /\ p = q => Elements(k[p]) \subseteq Elements(h[p]) \cup X
  <2>1. CASE p \in src
    BY <1>1, <2>1 DEF Moves
  <2>2. CASE p = q
    BY <2>2 DEF Moves
  <2>3. CASE p \notin src /\ p # q
    <3>1. k[p] = h[p] /\ Elements(h[p]) \cap X = {}
      BY <2>3 DEF Moves
    <3>2. IsInjective(h[p])
      BY DEF OneOwner
    <3> QED BY <2>3, <3>1, <3>2
  <2> QED BY <2>1, <2>2, <2>3
<1>3. ASSUME NEW p \in BufferPlaces, NEW r \in BufferPlaces, p # r
      PROVE  Elements(k[p]) \cap Elements(k[r]) = {}
  <2>1. Elements(h[p]) \cap Elements(h[r]) = {}
    BY <1>3 DEF OneOwner
  <2> QED BY <1>2, <1>3, <2>1
<1>4. \A p \in BufferPlaces : Elements(k[p]) \subseteq Elements(h[p]) \cup X
  BY <1>2
<1> QED BY <1>2, <1>3, <1>4 DEF OneOwner

(* So does a loss.                                                         *)
LEMMA ShrinksKeep ==
  ASSUME NEW h, NEW k, OneOwner(h), Shrinks(h, k)
  PROVE  OneOwner(k)
<1>1. ASSUME NEW p \in BufferPlaces, NEW r \in BufferPlaces, p # r
      PROVE  Elements(k[p]) \cap Elements(k[r]) = {}
  <2>1. Elements(h[p]) \cap Elements(h[r]) = {}
    BY <1>1 DEF OneOwner
  <2> QED BY <2>1 DEF Shrinks
<1> QED BY <1>1 DEF OneOwner, Shrinks

-----------------------------------------------------------------------------
(* Buffers.  The invariant, and every kind of step.                        *)

\* Owners, numbers that CUPTI has given out, and bounded stacks.
Owners ==
    /\ OneOwner(Holding)
    /\ \A p \in BufferPlaces : Elements(Holding[p]) \subseteq 1 .. cupti.made
    /\ \A s \in Sessions : Len(session[s].free) <= NUM_CACHED_BUFFERS

(* What the places hold are sequences of numbers.                          *)
LEMMA HoldingTyped ==
  ASSUME ProfilerType
  PROVE  \A p \in BufferPlaces : Holding[p] \in Seq(Nat \ {0})
<1>1. cupti.full \in Seq(Buffers) /\ cupti.filling \in Buffers \cup {NoBuffer}
  BY DEF ProfilerType, CuptiRecord
<1>2. ASSUME NEW s \in Sessions
      PROVE  /\ session[s].free \in Seq(Nat \ {0}) /\ session[s].queue \in Seq(Buffers)
             /\ thread[s].work \in Buffers \cup {NoBuffer}
  <2>1. session[s] \in SessionRecord /\ thread[s] \in ThreadRecord
    BY DEF ProfilerType
  <2> QED BY <2>1 DEF SessionRecord, ThreadRecord
<1>3. Holding[Full] \in Seq(Nat \ {0}) /\ Holding[Filling] \in Seq(Nat \ {0})
  BY <1>1, HoldingIs, NumbersType, NumberOfType
<1>4. ASSUME NEW s \in Sessions
      PROVE  /\ Holding[FreeOf(s)] \in Seq(Nat \ {0}) /\ Holding[QueueOf(s)] \in Seq(Nat \ {0})
             /\ Holding[WorkOf(s)] \in Seq(Nat \ {0})
  BY <1>2, HoldingIs, NumbersType, NumberOfType
<1> QED BY <1>3, <1>4, PlacesAre

(* The invariant after a move.                                             *)
LEMMA MoveOwners ==
  ASSUME ProfilerType, ProfilerType', Owners, NEW src, NEW q, NEW X, Moves(Holding, Holding', src, q, X),
         cupti'.made = cupti.made \/ cupti'.made = cupti.made + 1, X \subseteq 1 .. cupti'.made,
         \A s \in Sessions : Len(session'[s].free) <= NUM_CACHED_BUFFERS
  PROVE  Owners'
<1>1. PICK n \in Nat, m \in Nat : n = cupti.made /\ m = cupti'.made
  BY DEF ProfilerType, CuptiRecord
<1>2. 1 .. n \subseteq 1 .. m
  BY <1>1
<1>3. OneOwner(Holding') /\ \A p \in BufferPlaces : Elements(Holding'[p]) \subseteq Elements(Holding[p]) \cup X
  BY MovesKeep DEF Owners
<1>4. \A p \in BufferPlaces : Elements(Holding'[p]) \subseteq 1 .. m
  BY <1>1, <1>2, <1>3 DEF Owners
<1> QED BY <1>1, <1>3, <1>4 DEF Owners

(* After a loss.                                                           *)
LEMMA ShrinkOwners ==
  ASSUME Owners, Shrinks(Holding, Holding'), cupti'.made = cupti.made,
         \A s \in Sessions : Len(session'[s].free) <= NUM_CACHED_BUFFERS
  PROVE  Owners'
<1>1. OneOwner(Holding')
  BY ShrinksKeep DEF Owners
<1>2. \A p \in BufferPlaces : Elements(Holding'[p]) \subseteq 1 .. cupti'.made
  BY DEF Owners, Shrinks
<1> QED BY <1>1, <1>2 DEF Owners

(* Where a number comes from, the other places do not have it.             *)
LEMMA ElsewhereNot ==
  ASSUME NEW h, OneOwner(h), NEW src \in SUBSET BufferPlaces, NEW X,
         \A x \in X : \E p \in src : x \in Elements(h[p])
  PROVE  \A r \in BufferPlaces \ src : Elements(h[r]) \cap X = {}
<1> SUFFICES ASSUME NEW r \in BufferPlaces \ src, NEW x \in X, x \in Elements(h[r]) PROVE FALSE
  OBVIOUS
<1>1. PICK p \in src : x \in Elements(h[p])
  OBVIOUS
<1>2. p \in BufferPlaces /\ p # r
  OBVIOUS
<1> QED BY <1>1, <1>2 DEF OneOwner

(* The same numbers at the same places.                                    *)
LEMMA NoMovesOwners ==
  ASSUME ProfilerType, Owners, NoMoves PROVE Owners'
<1>1. NumberOf(cupti'.filling) = NumberOf(cupti.filling)
      /\ \A t \in Sessions : NumberOf(thread'[t].work) = NumberOf(thread[t].work)
  BY DEF NoMoves, NumberOf
<1>2. Holding'[Full] = Holding[Full] /\ Holding'[Filling] = Holding[Filling]
  BY <1>1, HoldingIs, HoldingWillBe DEF NoMoves
<1>3. \A s \in Sessions : /\ Holding'[FreeOf(s)] = Holding[FreeOf(s)]
                          /\ Holding'[QueueOf(s)] = Holding[QueueOf(s)]
                          /\ Holding'[WorkOf(s)] = Holding[WorkOf(s)]
  BY <1>1, HoldingIs, HoldingWillBe DEF NoMoves
<1>4. \A p \in BufferPlaces : Holding'[p] = Holding[p]
  BY <1>2, <1>3, PlacesAre
<1>5. Shrinks(Holding, Holding')
  BY <1>4 DEF Shrinks, Owners, OneOwner
<1>6. cupti'.made = cupti.made /\ \A s \in Sessions : Len(session'[s].free) <= NUM_CACHED_BUFFERS
  BY DEF NoMoves, Owners
<1> QED BY <1>5, <1>6, ShrinkOwners

\* Of what CUPTI holds, the numbers nd are handed over.
CuptiGives(nd) ==
    /\ IsInjective(nd) /\ Elements(nd) \subseteq Elements(Holding[Full]) \cup Elements(Holding[Filling])
    /\ IsInjective(Holding'[Full]) /\ Elements(Holding'[Full]) \subseteq Elements(Holding[Full]) \ Elements(nd)
    /\ IsInjective(Holding'[Filling])
    /\ Elements(Holding'[Filling]) \subseteq Elements(Holding[Filling]) \ Elements(nd)

(* Buffers that arrive at a queue, or are dropped.                         *)
LEMMA DeliversOwners ==
  ASSUME ProfilerType, ProfilerType', Owners, State \in Sessions, NEW done \in Seq(Buffers), Delivers(done),
         CuptiGives(Numbers(done)), cupti'.made = cupti.made
  PROVE  Owners'
<1>1. PICK nd \in Seq(Nat \ {0}) : nd = Numbers(done)
  BY NumbersType
<1>2. PICK X : X = Elements(nd)
  OBVIOUS
<1>3. PICK q : q = QueueOf(State)
  OBVIOUS
<1>4. PICK src : src = {Full, Filling}
  OBVIOUS
<1>5. src \in SUBSET BufferPlaces /\ q \in BufferPlaces \ src
  BY <1>3, <1>4, PlacesDiffer
<1>6. \A r \in BufferPlaces \ (src \cup {q}) : Holding'[r] = Holding[r]
  <2>1. ASSUME NEW s \in Sessions
        PROVE  /\ Holding'[FreeOf(s)] = Holding[FreeOf(s)] /\ Holding'[WorkOf(s)] = Holding[WorkOf(s)]
               /\ s # State => Holding'[QueueOf(s)] = Holding[QueueOf(s)]
    BY HoldingIs, HoldingWillBe DEF Delivers, OnlyWakes
  <2> QED BY <1>3, <1>4, <2>1, PlacesAre
<1>7. \A s \in Sessions : Len(session'[s].free) <= NUM_CACHED_BUFFERS
  BY DEF Delivers, Owners
<1>8. \A p \in src : IsInjective(Holding'[p]) /\ Elements(Holding'[p]) \subseteq Elements(Holding[p]) \ X
  BY <1>1, <1>2, <1>4 DEF CuptiGives
<1>9. OneOwner(Holding) /\ \A p \in BufferPlaces : IsInjective(Holding[p])
  BY DEF Owners, OneOwner
<1>10. CASE session'[State].queue = session[State].queue
  <2>1. Holding'[q] = Holding[q]
    BY <1>3, <1>10, HoldingIs, HoldingWillBe
  <2>2. Shrinks(Holding, Holding')
    BY <1>6, <1>8, <1>9, <2>1 DEF Shrinks
  <2> QED BY <1>7, <2>2, ShrinkOwners
<1>11. CASE session'[State].queue = Cat(session[State].queue, done)
  <2>1. PICK qu \in Seq(Buffers) : qu = session[State].queue
    BY DEF ProfilerType, SessionRecord
  <2>2. PICK nq \in Seq(Nat \ {0}) : nq = Numbers(qu)
    BY NumbersType
  <2>3. Holding[q] = nq /\ Holding'[q] = Cat(nq, nd)
    BY <1>1, <1>3, <1>11, <2>1, <2>2, HoldingIs, HoldingWillBe, NumbersCat
  <2>4. \A x \in X : \E p \in src : x \in Elements(Holding[p])
    BY <1>1, <1>2, <1>4 DEF CuptiGives
  <2>5. \A r \in BufferPlaces \ src : Elements(Holding[r]) \cap X = {}
    BY <1>5, <1>9, <2>4, ElsewhereNot
  <2>6. IsInjective(nd) /\ IsInjective(nq) /\ Elements(nq) \cap Elements(nd) = {}
    BY <1>1, <1>2, <1>5, <1>9, <2>3, <2>5 DEF CuptiGives
  <2>7. IsInjective(Holding'[q]) /\ Elements(Holding'[q]) \subseteq Elements(Holding[q]) \cup X
    BY <1>2, <2>3, <2>6, CatInjective
  <2>8. Moves(Holding, Holding', src, q, X)
    BY <1>5, <1>6, <1>8, <2>5, <2>7 DEF Moves
  <2>9. X \subseteq 1 .. cupti'.made
    <3>1. \A p \in src : Elements(Holding[p]) \subseteq 1 .. cupti.made
      BY <1>5 DEF Owners
    <3> QED BY <2>4, <3>1
  <2> QED BY <1>7, <2>8, <2>9, MoveOwners
<1> QED BY <1>10, <1>11 DEF Delivers

(* A flush hands over what CUPTI holds.                                    *)
LEMMA HandsOverOwners ==
  ASSUME ProfilerType, ProfilerType', Owners, HandsOver PROVE Owners'
<1>1. /\ State \in Sessions /\ Delivers(Flushed) /\ Flushed \in Seq(Buffers)
      /\ cupti'.full = << >> /\ cupti'.made = cupti.made
      /\ cupti'.filling = (IF cupti.filling.records = << >> THEN cupti.filling ELSE NoBuffer)
  BY FlushedEffect DEF HandsOver
<1>2. cupti.full \in Seq(Buffers) /\ cupti.filling \in Buffers \cup {NoBuffer}
  BY DEF ProfilerType, CuptiRecord
<1>3. PICK nf \in Seq(Nat \ {0}) : nf = Numbers(cupti.full)
  BY <1>2, NumbersType
<1>4. Holding[Full] = nf /\ Holding[Filling] = NumberOf(cupti.filling)
      /\ Holding'[Full] = << >> /\ Holding'[Filling] = NumberOf(cupti'.filling)
  BY <1>1, <1>3, HoldingIs, HoldingWillBe, NumbersNone
<1>5. /\ IsInjective(nf) /\ IsInjective(Holding[Filling])
      /\ Elements(nf) \cap Elements(Holding[Filling]) = {}
  BY <1>4, PlacesDiffer DEF Owners, OneOwner
<1>6. IsInjective(Holding'[Full]) /\ Elements(Holding'[Full]) = {}
  BY <1>4, NoneInjective
<1>7. CuptiGives(Numbers(Flushed))
  <2>1. CASE cupti.filling.records = << >>
    <3>1. Numbers(Flushed) = nf /\ Holding'[Filling] = Holding[Filling]
      <4>1. Flushed = cupti.full
        BY <1>2, <2>1, ConcatEmptySeq DEF Flushed
      <4> QED BY <1>1, <1>3, <1>4, <2>1, <4>1
    <3> QED BY <1>4, <1>5, <1>6, <3>1 DEF CuptiGives
  <2>2. CASE cupti.filling.records # << >>
    <3>1. cupti.filling \in Buffers
      BY <1>2, <2>2 DEF NoBuffer
    <3>2. PICK n \in Nat \ {0} : n = cupti.filling.no
      BY <3>1 DEF Buffers
    <3>3. Flushed = Cat(cupti.full, <<cupti.filling>>) /\ <<cupti.filling>> \in Seq(Buffers)
      BY <2>2, <3>1 DEF Flushed, Cat
    <3>4. Numbers(Flushed) = Cat(nf, <<n>>)
      BY <1>2, <1>3, <3>1, <3>2, <3>3, NumbersCat, NumbersOne
    <3>5. Holding[Filling] = <<n>> /\ Holding'[Filling] = << >>
      BY <1>1, <1>4, <2>2, <3>2, NumbersNone DEF NumberOf
    <3>6. PICK one \in Seq(Nat \ {0}) : one = <<n>> /\ Elements(one) = {n} /\ IsInjective(one)
      <4>1. <<n>> \in Seq(Nat \ {0})
        OBVIOUS
      <4> QED BY <4>1, OneInjective
    <3>7. IsInjective(Cat(nf, one)) /\ Elements(Cat(nf, one)) = Elements(nf) \cup {n}
      <4>1. nf \in Seq(Nat \ {0}) /\ one \in Seq(Nat \ {0}) /\ IsInjective(nf) /\ IsInjective(one)
        BY <1>3, <1>5, <3>6
      <4>2. Elements(nf) \cap Elements(one) = {} /\ Elements(one) = {n}
        BY <1>5, <3>5, <3>6
      <4> QED BY <4>1, <4>2, CatInjective
    <3>8. IsInjective(Holding'[Filling]) /\ Elements(Holding'[Filling]) = {}
      BY <3>5, NoneInjective
    <3> QED BY <1>4, <1>6, <3>4, <3>5, <3>6, <3>7, <3>8 DEF CuptiGives
  <2> QED BY <2>1, <2>2
<1> QED BY <1>1, <1>7, DeliversOwners

(* CUPTI's own thread hands over the first full buffer.                    *)
LEMMA HandsOneOwners ==
  ASSUME ProfilerType, ProfilerType', Owners, HandsOne PROVE Owners'
<1>1. PICK b \in Buffers : b = Head(cupti.full)
  BY DEF HandsOne
<1>2. /\ State \in Sessions /\ Delivers(<<b>>) /\ <<b>> \in Seq(Buffers) /\ cupti.full # << >>
      /\ cupti'.full = Tail(cupti.full) /\ cupti'.made = cupti.made /\ cupti'.filling = cupti.filling
  BY <1>1 DEF HandsOne
<1>3. cupti.full \in Seq(Buffers)
  BY DEF ProfilerType, CuptiRecord
<1>4. PICK nf \in Seq(Nat \ {0}) : nf = Numbers(cupti.full)
  BY <1>3, NumbersType
<1>5. nf # << >> /\ Numbers(cupti'.full) = Tail(nf) /\ b.no = Head(nf)
  BY <1>1, <1>2, <1>3, <1>4, NumbersTail
<1>6. Holding[Full] = nf /\ Holding'[Full] = Tail(nf) /\ Holding'[Filling] = Holding[Filling]
  BY <1>2, <1>4, <1>5, HoldingIs, HoldingWillBe
<1>7. /\ IsInjective(nf) /\ IsInjective(Holding[Filling])
      /\ Elements(nf) \cap Elements(Holding[Filling]) = {}
  BY <1>6, PlacesDiffer DEF Owners, OneOwner
<1>8. /\ IsInjective(Tail(nf)) /\ Head(nf) \in Elements(nf) /\ Head(nf) \in Nat \ {0}
      /\ Elements(Tail(nf)) \subseteq Elements(nf) \ {Head(nf)}
  BY <1>5, <1>7, TailInjective
<1>9. PICK n \in Nat \ {0} : n = Head(nf)
  BY <1>8
<1>10. Numbers(<<b>>) = <<n>> /\ Elements(<<n>>) = {n} /\ IsInjective(<<n>>)
  BY <1>5, <1>9, NumbersOne, OneInjective
<1>11. CuptiGives(Numbers(<<b>>))
  BY <1>6, <1>7, <1>8, <1>9, <1>10 DEF CuptiGives
<1> QED BY <1>2, <1>11, DeliversOwners

(* A buffer is requested: from the top of the stack, a new one, or none.   *)
LEMMA RequestsOwners ==
  ASSUME ProfilerType, ProfilerType', Owners, Requests PROVE Owners'
<1>1. /\ State \in Sessions /\ cupti.filling = NoBuffer /\ UNCHANGED thread /\ cupti'.full = cupti.full
      /\ \A s \in Sessions : /\ s # State => session'[s] = session[s]
                             /\ session'[s].queue = session[s].queue
  BY DEF Requests
<1>2. cupti'.filling \in Buffers \cup {NoBuffer} /\ cupti.made \in Nat
  BY DEF ProfilerType, CuptiRecord
<1>3. /\ Holding[Filling] = << >> /\ Holding'[Filling] = NumberOf(cupti'.filling)
      /\ IsInjective(Holding'[Filling]) /\ Elements(Holding'[Filling]) \subseteq {cupti'.filling.no}
  BY <1>1, <1>2, HoldingIs, HoldingWillBe, NumbersNone, NumberOfType
<1>4. /\ Holding'[Full] = Holding[Full]
      /\ \A s \in Sessions : /\ Holding'[QueueOf(s)] = Holding[QueueOf(s)] /\ Holding'[WorkOf(s)] = Holding[WorkOf(s)]
                             /\ s # State => Holding'[FreeOf(s)] = Holding[FreeOf(s)]
  BY <1>1, HoldingIs, HoldingWillBe
<1>5. OneOwner(Holding) /\ \A p \in BufferPlaces : IsInjective(Holding[p])
  BY DEF Owners, OneOwner
<1>6. CASE cupti'.filling = cupti.filling /\ cupti'.made = cupti.made /\ UNCHANGED session
  <2>1. NoMoves
    BY <1>1, <1>6 DEF NoMoves
  <2> QED BY <2>1, NoMovesOwners
<1>7. CASE /\ cupti'.made = cupti.made /\ session[State].free # << >>
           /\ cupti'.filling.no = session[State].free[Len(session[State].free)]
           /\ session'[State].free = Front(session[State].free)
  <2>1. PICK fr \in Seq(Nat \ {0}) : fr = session[State].free
    BY <1>1 DEF ProfilerType, SessionRecord
  <2>0. PICK src : src = {FreeOf(State)}
    OBVIOUS
  <2>2. src \in SUBSET BufferPlaces /\ Filling \in BufferPlaces \ src
    BY <1>1, <2>0, PlacesDiffer
  <2>3. Holding[FreeOf(State)] = fr /\ Holding'[FreeOf(State)] = Front(fr) /\ fr # << >>
    BY <1>1, <1>7, <2>1, HoldingIs, HoldingWillBe
  <2>4. IsInjective(fr)
    BY <1>5, <2>0, <2>2, <2>3
  <2>5. PICK n \in Nat \ {0} : n = fr[Len(fr)]
    BY <2>3, <2>4, FrontInjective
  <2>6. n \in Elements(fr) /\ IsInjective(Front(fr)) /\ Elements(Front(fr)) \subseteq Elements(fr) \ {n}
    BY <2>3, <2>4, <2>5, FrontInjective
  <2>7. \A r \in BufferPlaces \ src : Elements(Holding[r]) \cap {n} = {}
    <3>1. \A x \in {n} : \E p \in src : x \in Elements(Holding[p])
      BY <2>0, <2>3, <2>6
    <3> QED BY <1>5, <2>2, <3>1, ElsewhereNot
  <2>8. \A r \in BufferPlaces \ (src \cup {Filling}) : Holding'[r] = Holding[r]
    BY <1>4, <2>0, PlacesAre
  <2>9. cupti'.filling.no = n
    BY <1>7, <2>1, <2>5
  <2>10. Moves(Holding, Holding', src, Filling, {n})
    BY <1>3, <2>0, <2>2, <2>3, <2>6, <2>7, <2>8, <2>9 DEF Moves
  <2>11. {n} \subseteq 1 .. cupti'.made
    BY <1>7, <2>0, <2>2, <2>3, <2>6 DEF Owners
  <2>12. ASSUME NEW s \in Sessions PROVE Len(session'[s].free) <= NUM_CACHED_BUFFERS
    <3>1. CASE s # State
      BY <1>1, <3>1 DEF Owners
    <3>2. CASE s = State
      <4>1. Len(Front(fr)) = Len(fr) - 1
        BY <2>3, FrontProperties
      <4>2. Len(fr) \in Nat /\ Len(fr) <= NUM_CACHED_BUFFERS
        BY <1>1, <2>1, LenProperties DEF Owners
      <4> QED BY <1>7, <2>1, <3>2, <4>1, <4>2, CapacityAssumption
    <3> QED BY <3>1, <3>2
  <2> QED BY <1>7, <2>10, <2>11, <2>12, MoveOwners
<1>8. CASE cupti'.made = cupti.made + 1 /\ cupti'.filling.no = cupti.made + 1 /\ UNCHANGED session
  <2>1. PICK n \in Nat : n = cupti.made
    BY <1>2
  <2>2. \A p \in BufferPlaces : Elements(Holding[p]) \cap {n + 1} = {}
    <3>1. n + 1 \notin 1 .. n
      BY <2>1
    <3> QED BY <2>1, <3>1 DEF Owners
  <2>3. Holding'[FreeOf(State)] = Holding[FreeOf(State)]
    BY <1>1, <1>8, HoldingIs, HoldingWillBe
  <2>4. \A r \in BufferPlaces \ {Filling} : Holding'[r] = Holding[r]
    BY <1>4, <2>3, PlacesAre
  <2>5. Elements(Holding'[Filling]) \subseteq Elements(Holding[Filling]) \cup {n + 1}
    BY <1>3, <1>8, <2>1
  <2>6. Moves(Holding, Holding', {}, Filling, {n + 1})
    BY <1>3, <2>2, <2>4, <2>5, PlacesDiffer DEF Moves
  <2>7. {n + 1} \subseteq 1 .. cupti'.made
    BY <1>8, <2>1
  <2>8. \A s \in Sessions : Len(session'[s].free) <= NUM_CACHED_BUFFERS
    BY <1>8 DEF Owners
  <2> QED BY <1>8, <2>6, <2>7, <2>8, MoveOwners
<1> QED BY <1>6, <1>7, <1>8 DEF Requests

(* A record enters the buffer in use, which may then join the full ones.   *)
LEMMA RecordsOneOwners ==
  ASSUME ProfilerType, ProfilerType', Owners, RecordsOne PROVE Owners'
<1>1. /\ State \in Sessions /\ UNCHANGED <<session, thread>> /\ cupti.filling \in Buffers
      /\ cupti'.made = cupti.made
  BY DEF RecordsOne
<1>2. CASE cupti'.full = cupti.full /\ cupti'.filling.no = cupti.filling.no
  <2>1. NoMoves
    BY <1>1, <1>2 DEF NoMoves
  <2> QED BY <2>1, NoMovesOwners
<1>3. ASSUME cupti'.filling = NoBuffer,
             NEW b \in Buffers, b.no = cupti.filling.no, cupti'.full = Append(cupti.full, b)
      PROVE  Owners'
  <2>1. PICK n \in Nat \ {0} : n = b.no
    BY DEF Buffers
  <2>2. cupti.full \in Seq(Buffers)
    BY DEF ProfilerType, CuptiRecord
  <2>3. PICK nf \in Seq(Nat \ {0}) : nf = Numbers(cupti.full)
    BY <2>2, NumbersType
  <2>4. cupti'.full = Cat(cupti.full, <<b>>) /\ <<b>> \in Seq(Buffers)
    BY <1>3, <2>2, AppendIsConcat DEF Cat
  <2>5. Holding[Full] = nf /\ Holding'[Full] = Cat(nf, <<n>>)
    BY <2>1, <2>2, <2>3, <2>4, HoldingIs, HoldingWillBe, NumbersCat, NumbersOne
  <2>6. Holding[Filling] = <<n>> /\ Holding'[Filling] = << >>
    BY <1>3, <2>1, HoldingIs, HoldingWillBe, NumbersNone DEF NumberOf
  <2>7. PICK one \in Seq(Nat \ {0}) : one = <<n>> /\ Elements(one) = {n} /\ IsInjective(one)
    <3>1. <<n>> \in Seq(Nat \ {0})
      OBVIOUS
    <3> QED BY <3>1, OneInjective
  <2>0. PICK src : src = {Filling}
    OBVIOUS
  <2>8. src \in SUBSET BufferPlaces /\ Full \in BufferPlaces \ src
    BY <2>0, PlacesDiffer
  <2>9. OneOwner(Holding) /\ IsInjective(nf)
    BY <2>5, <2>8 DEF Owners, OneOwner
  <2>10. \A r \in BufferPlaces \ src : Elements(Holding[r]) \cap {n} = {}
    <3>1. \A x \in {n} : \E p \in src : x \in Elements(Holding[p])
      BY <2>0, <2>6, <2>7
    <3> QED BY <2>8, <2>9, <3>1, ElsewhereNot
  <2>11. IsInjective(Cat(nf, one)) /\ Elements(Cat(nf, one)) = Elements(nf) \cup {n}
    <3>1. nf \in Seq(Nat \ {0}) /\ one \in Seq(Nat \ {0}) /\ IsInjective(nf) /\ IsInjective(one)
      BY <2>3, <2>7, <2>9
    <3>2. Elements(nf) \cap Elements(one) = {} /\ Elements(one) = {n}
      BY <2>5, <2>7, <2>8, <2>10
    <3> QED BY <3>1, <3>2, CatInjective
  <2>12. \A r \in BufferPlaces \ (src \cup {Full}) : Holding'[r] = Holding[r]
    <3>1. \A s \in Sessions : /\ Holding'[QueueOf(s)] = Holding[QueueOf(s)]
                              /\ Holding'[WorkOf(s)] = Holding[WorkOf(s)]
                              /\ Holding'[FreeOf(s)] = Holding[FreeOf(s)]
      BY <1>1, HoldingIs, HoldingWillBe
    <3> QED BY <2>0, <3>1, PlacesAre
  <2>13. Moves(Holding, Holding', src, Full, {n})
    <3>1. IsInjective(Holding'[Filling]) /\ Elements(Holding'[Filling]) = {}
      BY <2>6, NoneInjective
    <3> QED BY <2>0, <2>5, <2>7, <2>8, <2>10, <2>11, <2>12, <3>1 DEF Moves
  <2>14. {n} \subseteq 1 .. cupti'.made
    BY <1>1, <2>0, <2>6, <2>7, <2>8 DEF Owners
  <2>15. \A s \in Sessions : Len(session'[s].free) <= NUM_CACHED_BUFFERS
    BY <1>1 DEF Owners
  <2> QED BY <1>1, <2>13, <2>14, <2>15, MoveOwners
<1> QED BY <1>2, <1>3 DEF RecordsOne

(* A writer takes the first buffer of a queue.                             *)
LEMMA TakesOwners ==
  ASSUME ProfilerType, ProfilerType', Owners, NEW t \in Sessions, NEW x \in Sessions, Takes(t, x) PROVE Owners'
<1>1. /\ session[x].queue # << >> /\ thread[t].work = NoBuffer /\ UNCHANGED cupti
      /\ \A s \in Sessions : /\ s # x => session'[s] = session[s]
                             /\ session'[s].free = session[s].free
      /\ session'[x].queue = Tail(session[x].queue)
      /\ \A u \in Sessions : u # t => thread'[u] = thread[u]
      /\ thread'[t].work = Head(session[x].queue) /\ Head(session[x].queue) \in Buffers
  BY DEF Takes
<1>2. PICK qu \in Seq(Buffers) : qu = session[x].queue
  BY DEF ProfilerType, SessionRecord
<1>3. PICK nq \in Seq(Nat \ {0}) : nq = Numbers(qu)
  BY NumbersType
<1>4. nq # << >> /\ Numbers(Tail(qu)) = Tail(nq) /\ Head(qu).no = Head(nq)
  BY <1>1, <1>2, <1>3, NumbersTail
<1>5. Holding[QueueOf(x)] = nq /\ Holding'[QueueOf(x)] = Tail(nq)
  BY <1>1, <1>2, <1>3, <1>4, HoldingIs, HoldingWillBe
<1>6. Holding[WorkOf(t)] = << >> /\ Holding'[WorkOf(t)] = NumberOf(Head(qu))
  BY <1>1, <1>2, HoldingIs, HoldingWillBe, NumbersNone
<1>7. PICK src : src = {QueueOf(x)}
  OBVIOUS
<1>8. src \in SUBSET BufferPlaces /\ WorkOf(t) \in BufferPlaces \ src
  BY <1>7, PlacesDiffer
<1>9. OneOwner(Holding) /\ IsInjective(nq)
  BY <1>5, <1>7, <1>8 DEF Owners, OneOwner
<1>10. PICK n \in Nat \ {0} : n = Head(nq) /\ n \in Elements(nq) /\ IsInjective(Tail(nq))
                              /\ Elements(Tail(nq)) \subseteq Elements(nq) \ {n}
  BY <1>4, <1>9, TailInjective
<1>11. \A r \in BufferPlaces \ src : Elements(Holding[r]) \cap {n} = {}
  <2>1. \A y \in {n} : \E p \in src : y \in Elements(Holding[p])
    BY <1>5, <1>7, <1>10
  <2> QED BY <1>8, <1>9, <2>1, ElsewhereNot
<1>12. IsInjective(Holding'[WorkOf(t)]) /\ Elements(Holding'[WorkOf(t)]) \subseteq {n}
  <2>1. Head(qu) \in Buffers \cup {NoBuffer} /\ Head(qu).no = n
    BY <1>1, <1>2, <1>4, <1>10
  <2> QED BY <1>6, <2>1, NumberOfType
<1>13. \A r \in BufferPlaces \ (src \cup {WorkOf(t)}) : Holding'[r] = Holding[r]
  <2>1. Holding'[Full] = Holding[Full] /\ Holding'[Filling] = Holding[Filling]
    BY <1>1, HoldingIs, HoldingWillBe
  <2>2. \A s \in Sessions : /\ Holding'[FreeOf(s)] = Holding[FreeOf(s)]
                            /\ s # x => Holding'[QueueOf(s)] = Holding[QueueOf(s)]
                            /\ s # t => Holding'[WorkOf(s)] = Holding[WorkOf(s)]
    BY <1>1, HoldingIs, HoldingWillBe
  <2> QED BY <1>7, <2>1, <2>2, PlacesAre
<1>14. Moves(Holding, Holding', src, WorkOf(t), {n})
  BY <1>5, <1>7, <1>8, <1>10, <1>11, <1>12, <1>13 DEF Moves
<1>15. {n} \subseteq 1 .. cupti'.made
  BY <1>1, <1>5, <1>7, <1>8, <1>10 DEF Owners
<1>16. cupti'.made = cupti.made /\ \A s \in Sessions : Len(session'[s].free) <= NUM_CACHED_BUFFERS
  BY <1>1 DEF Owners
<1> QED BY <1>14, <1>15, <1>16, MoveOwners

(* A writer gives its buffer back, or drops it.                            *)
LEMMA ReturnsOwners ==
  ASSUME ProfilerType, ProfilerType', Owners, NEW t \in Sessions, Returns(t) PROVE Owners'
<1>1. /\ State \in Sessions /\ thread[t].work \in Buffers /\ thread'[t].work = NoBuffer /\ UNCHANGED cupti
      /\ \A u \in Sessions : u # t => thread'[u] = thread[u]
      /\ \A s \in Sessions : /\ s # State => session'[s] = session[s]
                             /\ session'[s].queue = session[s].queue
  BY DEF Returns
<1>2. PICK n \in Nat \ {0} : n = thread[t].work.no
  BY <1>1 DEF Buffers
<1>3. PICK one \in Seq(Nat \ {0}) : one = <<n>> /\ Elements(one) = {n} /\ IsInjective(one)
  <2>1. <<n>> \in Seq(Nat \ {0})
    OBVIOUS
  <2> QED BY <2>1, OneInjective
<1>4. Holding[WorkOf(t)] = one /\ Holding'[WorkOf(t)] = << >>
  BY <1>1, <1>2, <1>3, HoldingIs, HoldingWillBe, NumbersNone DEF NumberOf
<1>5. PICK src : src = {WorkOf(t)}
  OBVIOUS
<1>6. src \in SUBSET BufferPlaces /\ FreeOf(State) \in BufferPlaces \ src
  BY <1>1, <1>5, PlacesDiffer
<1>7. OneOwner(Holding) /\ \A p \in BufferPlaces : IsInjective(Holding[p])
  BY DEF Owners, OneOwner
<1>8. \A r \in BufferPlaces \ (src \cup {FreeOf(State)}) : Holding'[r] = Holding[r]
  <2>1. Holding'[Full] = Holding[Full] /\ Holding'[Filling] = Holding[Filling]
    BY <1>1, HoldingIs, HoldingWillBe
  <2>2. \A s \in Sessions : /\ s # State => Holding'[FreeOf(s)] = Holding[FreeOf(s)]
                            /\ Holding'[QueueOf(s)] = Holding[QueueOf(s)]
                            /\ s # t => Holding'[WorkOf(s)] = Holding[WorkOf(s)]
    BY <1>1, HoldingIs, HoldingWillBe
  <2> QED BY <1>5, <2>1, <2>2, PlacesAre
<1>9. IsInjective(Holding'[WorkOf(t)]) /\ Elements(Holding'[WorkOf(t)]) = {}
  BY <1>4, NoneInjective
<1>10. PICK fr \in Seq(Nat \ {0}) : fr = session[State].free
  BY <1>1 DEF ProfilerType, SessionRecord
<1>11. Len(fr) \in Nat /\ Len(fr) <= NUM_CACHED_BUFFERS /\ Holding[FreeOf(State)] = fr
  BY <1>1, <1>10, LenProperties, HoldingIs DEF Owners
<1>12. \A s \in Sessions : s # State => Len(session'[s].free) <= NUM_CACHED_BUFFERS
  BY <1>1 DEF Owners
<1>13. CASE session'[State].free = fr
  <2>1. Holding'[FreeOf(State)] = Holding[FreeOf(State)]
    BY <1>1, <1>11, <1>13, HoldingWillBe
  <2>2. Shrinks(Holding, Holding')
    BY <1>5, <1>7, <1>8, <1>9, <2>1 DEF Shrinks
  <2>3. cupti'.made = cupti.made /\ \A s \in Sessions : Len(session'[s].free) <= NUM_CACHED_BUFFERS
    BY <1>1, <1>11, <1>12, <1>13
  <2> QED BY <2>2, <2>3, ShrinkOwners
<1>14. CASE Len(fr) < NUM_CACHED_BUFFERS /\ session'[State].free = Append(fr, n)
  <2>1. Holding'[FreeOf(State)] = Append(fr, n)
    BY <1>1, <1>14, HoldingWillBe
  <2>2. Append(fr, n) = Cat(fr, one) /\ Len(Append(fr, n)) = Len(fr) + 1
    BY <1>3, AppendIsConcat, AppendProperties DEF Cat
  <2>3. \A r \in BufferPlaces \ src : Elements(Holding[r]) \cap {n} = {}
    <3>1. \A y \in {n} : \E p \in src : y \in Elements(Holding[p])
      BY <1>3, <1>4, <1>5
    <3> QED BY <1>6, <1>7, <3>1, ElsewhereNot
  <2>4. IsInjective(Cat(fr, one)) /\ Elements(Cat(fr, one)) = Elements(fr) \cup {n}
    <3>1. fr \in Seq(Nat \ {0}) /\ one \in Seq(Nat \ {0}) /\ IsInjective(fr) /\ IsInjective(one)
      BY <1>3, <1>6, <1>7, <1>10, <1>11
    <3>2. Elements(fr) \cap Elements(one) = {} /\ Elements(one) = {n}
      BY <1>3, <1>6, <1>11, <2>3
    <3> QED BY <3>1, <3>2, CatInjective
  <2>5. Moves(Holding, Holding', src, FreeOf(State), {n})
    BY <1>5, <1>6, <1>8, <1>9, <1>11, <2>1, <2>2, <2>3, <2>4 DEF Moves
  <2>6. {n} \subseteq 1 .. cupti'.made
    BY <1>1, <1>3, <1>4, <1>5, <1>6 DEF Owners
  <2>7. Len(session'[State].free) <= NUM_CACHED_BUFFERS
    BY <1>11, <1>14, <2>2, CapacityAssumption
  <2>8. cupti'.made = cupti.made /\ \A s \in Sessions : Len(session'[s].free) <= NUM_CACHED_BUFFERS
    BY <1>1, <1>12, <2>7
  <2> QED BY <2>5, <2>6, <2>8, MoveOwners
<1> QED BY <1>2, <1>10, <1>13, <1>14 DEF Returns

(* Every step keeps the owners.                                            *)
LEMMA StepKeepsOwners ==
  ASSUME ProfilerType, ProfilerType', Owners, StepKind PROVE Owners'
<1>1. ASSUME NEW t \in Sessions, Returns(t) \/ \E x \in Sessions : Takes(t, x) PROVE Owners'
  BY <1>1, ReturnsOwners, TakesOwners
<1>2. CASE NoMoves
  BY <1>2, NoMovesOwners
<1>3. CASE HandsOver \/ HandsOne \/ Requests \/ RecordsOne
  BY <1>3, HandsOverOwners, HandsOneOwners, RequestsOwners, RecordsOneOwners
<1> QED BY <1>1, <1>2, <1>3 DEF StepKind

(* At first there is no buffer.                                            *)
LEMMA OwnersInit == ProfilerInit => Owners
<1> SUFFICES ASSUME ProfilerInit PROVE Owners
  OBVIOUS
<1>1. PICK e : e = << >> /\ e \in Seq(Nat \ {0}) /\ Elements(e) = {} /\ IsInjective(e) /\ Len(e) = 0
  BY EmptySeq, NoneInjective
<1>2. Numbers(e) = e /\ NumberOf(NoBuffer) = e
  BY <1>1, NumbersNone
<1>3. cupti.full = e /\ cupti.filling = NoBuffer /\ cupti.made = 0
  BY <1>1 DEF ProfilerInit
<1>4. \A s \in Sessions : session[s].free = e /\ session[s].queue = e /\ thread[s].work = NoBuffer
  BY <1>1 DEF ProfilerInit, NewSession, NewThread
<1>5. \A p \in BufferPlaces : Holding[p] = e
  BY <1>2, <1>3, <1>4, PlacesAre, HoldingIs
<1>6. OneOwner(Holding) /\ \A p \in BufferPlaces : Elements(Holding[p]) \subseteq 1 .. cupti.made
  BY <1>1, <1>5 DEF OneOwner
<1>7. \A s \in Sessions : Len(session[s].free) <= NUM_CACHED_BUFFERS
  BY <1>1, <1>4, CapacityAssumption
<1> QED BY <1>6, <1>7 DEF Owners

\* The inductive invariant of BuffersHaveOneOwner.
OwnersInvariant == ProfilerType /\ Placed /\ Owners

(* It is invariant.                                                        *)
THEOREM BuffersAreOwned == ProfilerSpec => []OwnersInvariant
<1>1. ProfilerInit => OwnersInvariant
  BY TypedInit, OwnersInit DEF OwnersInvariant
<1>2. OwnersInvariant /\ [ProfilerNext]_profilerVars => OwnersInvariant'
  <2> SUFFICES ASSUME OwnersInvariant, [ProfilerNext]_profilerVars PROVE OwnersInvariant'
    OBVIOUS
  <2>1. ProfilerType /\ Placed /\ Owners
    BY DEF OwnersInvariant
  <2>2. ProfilerType' /\ Placed' /\ StepKind
    BY <2>1, StepKinds
  <2>3. Owners'
    BY <2>1, <2>2, StepKeepsOwners
  <2> QED BY <2>2, <2>3 DEF OwnersInvariant
<1> QED BY <1>1, <1>2, PTL DEF ProfilerSpec

(* BuffersHaveOneOwner: no buffer is in two of the stacks, queues, writer  *)
(* threads and CUPTI, nor twice in one of them, and no stack of free       *)
(* buffers outgrows NUM_CACHED_BUFFERS, for any number of sessions.        *)
THEOREM EveryBufferHasOneOwner == ProfilerSpec => []BuffersHaveOneOwner
<1>1. ASSUME OwnersInvariant PROVE BuffersHaveOneOwner
  <2>1. OneOwner(Holding) /\ \A s \in Sessions : Len(session[s].free) <= NUM_CACHED_BUFFERS
    BY <1>1 DEF OwnersInvariant, Owners
  <2>2. ASSUME NEW p \in BufferPlaces, NEW q \in BufferPlaces,
               NEW i \in DOMAIN Held(p), NEW j \in DOMAIN Held(q), Held(p)[i] = Held(q)[j]
        PROVE  p = q /\ i = j
    <3>1. PICK a, b : a = Held(p) /\ b = Held(q) /\ Holding[p] = a /\ Holding[q] = b
      BY DEF Holding
    <3>2. a[i] \in Elements(a) /\ b[j] \in Elements(b) /\ a[i] = b[j] /\ i \in DOMAIN a /\ j \in DOMAIN b
      BY <2>2, <3>1 DEF Elements
    <3>3. p = q
      BY <2>1, <3>1, <3>2 DEF OneOwner
    <3>4. a = b /\ IsInjective(a)
      BY <2>1, <3>1, <3>3 DEF OneOwner
    <3>5. i = j
      BY <3>2, <3>4 DEF IsInjective
    <3> QED BY <3>3, <3>5
  <2> QED BY <2>1, <2>2 DEF BuffersHaveOneOwner
<1> QED BY <1>1, BuffersAreOwned, PTL
=============================================================================
