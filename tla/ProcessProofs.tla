--------------------------- MODULE ProcessProofs ----------------------------
(***************************************************************************)
(* Proofs about what a server process does besides answering.              *)
(*                                                                         *)
(* Paging: no trade is skipped, for any page size, cap, number of attempts *)
(* and limits, and however many trades the wallet makes meanwhile.         *)
(* RetentionQueue: how far threads can overfill the queue, and that it     *)
(* implements LossyFifo, for any sizes and threads and whatever fails, is  *)
(* cancelled or ends.                                                      *)
(* Startup: a recorded migration has been made, and no page is served on an *)
(* incomplete schema, for any number of workers, attempts and mishaps.     *)
(* Tables, columns and versions are never removed, so what a worker has found *)
(* or made stays true whatever the others do (Local).                      *)
(* AutoRefresh: the job's order keeps every wallet, its batch the limit.   *)
(* Last, the types of the four parts of MCProcess together.                *)
(***************************************************************************)
EXTENDS MCProcess, Facts, SequenceTheorems

(* Paging: the types *)

\* Whatever limit is asked for, a page is of at least one trade and at most the
\* size the API allows.
THEOREM ClampBounds ==
  ASSUME NEW n \in Int
  PROVE  Clamp(n) \in 1..MaxPage
  BY PagingAssumption DEF Clamp

LEMMA PagingTypeInit == PagingInit => PagingTypeOK
<1> SUFFICES ASSUME PagingInit  PROVE PagingTypeOK
  OBVIOUS
<1>1. feed \in 0..MaxFeed /\ known \in 0..feed
  BY PagingAssumption DEF PagingInit
<1>2. limit \in 1..MaxPage /\ offset \in 0..MaxOffset /\ tries \in 1..MaxTries
  BY PagingAssumption DEF PagingInit
<1>3. whole \in BOOLEAN /\ got \subseteq 1..feed /\ fetch = "none"
  BY DEF PagingInit
<1> QED BY <1>1, <1>2, <1>3 DEF PagingTypeOK

LEMMA PagingTypeStep == PagingTypeOK /\ [PagingNext]_pagingVars => PagingTypeOK'
<1> SUFFICES ASSUME PagingTypeOK, [PagingNext]_pagingVars  PROVE PagingTypeOK'
  OBVIOUS
<1> USE PagingAssumption DEF PagingTypeOK
<1>1. CASE MakeTrade
  BY <1>1 DEF MakeTrade
<1>2. CASE BeginFetch
  <2>1. limit' \in 1..MaxPage
    BY <1>2, ClampBounds DEF BeginFetch
  <2> QED BY <1>2, <2>1 DEF BeginFetch
<1>3. CASE Receive
  <2>1. got' \subseteq 1..feed
    BY <1>3 DEF Receive, Page
  <2>2. offset' \in 0..MaxOffset /\ tries' \in 1..MaxTries
    BY <1>3 DEF Receive
  <2> QED BY <1>3, <2>1, <2>2 DEF Receive
<1>4. CASE ReceiveOdd
  BY <1>4 DEF ReceiveOdd
<1>5. CASE TryAgain
  BY <1>5 DEF TryAgain
<1>6. CASE GiveUp
  BY <1>6 DEF GiveUp
<1>7. CASE UNCHANGED pagingVars
  BY <1>7 DEF pagingVars
<1> QED BY <1>1, <1>2, <1>3, <1>4, <1>5, <1>6, <1>7 DEF PagingNext

\* Every variable has its type in every reachable state of the fetch.
THEOREM PagingTypeCorrect == PagingSpec => []PagingTypeOK
  BY PagingTypeInit, PagingTypeStep, PTL DEF PagingSpec
-----------------------------------------------------------------------------
\* What is newer than the page it is at has been fetched.  Trades made meanwhile
\* move older ones towards that page, never past it.
BehindIsFetched ==
  fetch = "ask" => \A u \in 1..known : feed - u < offset => u \in got

SkipInv == PagingTypeOK /\ BehindIsFetched /\ NothingSkipped

\* With the next page, everything is fetched that is newer than its end.
LEMMA PageCovers ==
  ASSUME SkipInv, fetch = "ask", NEW u \in 1..known, feed - u < offset + limit
  PROVE  u \in got \cup Page
<1>1. CASE feed - u < offset
  BY <1>1 DEF SkipInv, BehindIsFetched
<1>2. CASE offset <= feed - u
  BY <1>2 DEF SkipInv, PagingTypeOK, Page
<1> QED BY <1>1, <1>2 DEF SkipInv, PagingTypeOK

LEMMA SkipInit == PagingInit => SkipInv
  BY PagingTypeInit DEF PagingInit, SkipInv, BehindIsFetched, NothingSkipped, PagingTypeOK

LEMMA SkipReceive ==
  ASSUME SkipInv, Receive
  PROVE  BehindIsFetched' /\ NothingSkipped'
<1> USE DEF SkipInv, PagingTypeOK
<1>0. fetch = "ask" /\ got' = got \cup Page /\ feed' = feed /\ known' = known
  BY DEF Receive
<1>1. \A u \in 1..known : feed - u < offset + limit => u \in got'
  BY <1>0, PageCovers
<1>2. BehindIsFetched'
  <2>1. fetch' = "ask" => offset' = offset + limit
    BY DEF Receive
  <2> QED BY <1>0, <1>1, <2>1 DEF BehindIsFetched
<1>3. \A t \in got', u \in 1..known' : t < u => u \in got'
  <2> SUFFICES ASSUME NEW t \in got', NEW u \in 1..known, t < u  PROVE u \in got'
    BY <1>0
  <2>1. CASE t \in got
    BY <1>0, <2>1 DEF NothingSkipped
  <2>2. CASE t \in Page
    BY <1>1, <2>2 DEF Page
  <2> QED BY <1>0, <2>1, <2>2
<1>4. fetch' = "end" => 1..known' \subseteq got'
  <2>1. fetch' = "end" => feed < offset + limit
    BY DEF Receive
  <2> QED BY <1>0, <1>1, <2>1
<1>5. fetch' = "cap" => \A u \in 1..known' : feed' - u <= MaxOffset => u \in got'
  <2>1. fetch' = "cap" => offset + limit > MaxOffset
    BY DEF Receive
  <2> QED BY <1>0, <1>1, <2>1, PagingAssumption
<1> QED BY <1>2, <1>3, <1>4, <1>5 DEF NothingSkipped

LEMMA SkipStep == SkipInv /\ [PagingNext]_pagingVars => SkipInv'
<1> SUFFICES ASSUME SkipInv, [PagingNext]_pagingVars  PROVE SkipInv'
  OBVIOUS
<1>0. PagingTypeOK'
  BY PagingTypeStep DEF SkipInv
<1> SUFFICES BehindIsFetched' /\ NothingSkipped'
  BY <1>0 DEF SkipInv
<1> USE DEF SkipInv, PagingTypeOK, BehindIsFetched, NothingSkipped
<1>1. CASE MakeTrade
  BY <1>1, PagingAssumption DEF MakeTrade
<1>2. CASE BeginFetch
  BY <1>2 DEF BeginFetch
<1>3. CASE Receive
  BY <1>3, SkipReceive
<1>4. CASE ReceiveOdd
  BY <1>4 DEF ReceiveOdd
<1>5. CASE TryAgain
  BY <1>5 DEF TryAgain
<1>6. CASE GiveUp
  BY <1>6 DEF GiveUp
<1>7. CASE UNCHANGED pagingVars
  BY <1>7 DEF pagingVars
<1> QED BY <1>1, <1>2, <1>3, <1>4, <1>5, <1>6, <1>7 DEF PagingNext

\* What is fetched has no hole, and a fetch of everything that ends by itself has
\* everything there was, up to the cap.
THEOREM NothingSkippedCorrect == PagingSpec => []NothingSkipped
<1>1. SkipInv => NothingSkipped
  BY DEF SkipInv
<1> QED BY <1>1, SkipInit, SkipStep, PTL DEF PagingSpec

-----------------------------------------------------------------------------
(* RetentionQueue: the types *)

\* The oldest n of a sequence and the rest are sequences, and together are it.
LEMMA Split ==
  ASSUME NEW S, NEW s \in Seq(S), NEW n \in 0..Len(s)
  PROVE  /\ SubSeq(s, 1, n) \in Seq(S) /\ Len(SubSeq(s, 1, n)) = n
         /\ SubSeq(s, n + 1, Len(s)) \in Seq(S)
         /\ Len(SubSeq(s, n + 1, Len(s))) = Len(s) - n
         /\ SubSeq(s, 1, n) \o SubSeq(s, n + 1, Len(s)) = s
<1>1. Len(s) \in Nat /\ \A i \in 1..Len(s) : s[i] \in S
  BY LenProperties
<1>2. SubSeq(s, 1, n) \in Seq(S) /\ Len(SubSeq(s, 1, n)) = n
  BY <1>1, SubSeqProperties
<1>3. /\ SubSeq(s, n + 1, Len(s)) \in Seq(S)
      /\ Len(SubSeq(s, n + 1, Len(s))) = Len(s) - n
  BY <1>1, SubSeqProperties
<1>4. SubSeq(s, 1, n) \o SubSeq(s, n + 1, Len(s)) = SubSeq(s, 1, Len(s))
  <2>1. 1 \in 1..Len(s) + 1 /\ n \in 1 - 1..Len(s) /\ Len(s) \in n..Len(s)
    BY <1>1
  <2> QED BY <2>1, ConcatAdjacentSubSeq
<1> QED BY <1>2, <1>3, <1>4, SubSeqFull

\* The n oldest of a concatenation, n the length of its first part, are that part.
LEMMA DropFirst ==
  ASSUME NEW S, NEW s \in Seq(S), NEW t \in Seq(S)
  PROVE  /\ SubSeq(s \o t, 1, Len(s)) = s
         /\ SubSeq(s \o t, Len(s) + 1, Len(s \o t)) = t
<1>1. /\ s \o t \in Seq(S) /\ Len(s \o t) = Len(s) + Len(t)
      /\ \A i \in 1..Len(s) + Len(t) :
           (s \o t)[i] = IF i <= Len(s) THEN s[i] ELSE t[i - Len(s)]
  BY ConcatProperties
<1>2. Len(s) \in Nat /\ Len(t) \in Nat /\ Len(s) \in 0..Len(s \o t)
  BY <1>1, LenProperties
<1>3. \A i \in 1..Len(s \o t) : (s \o t)[i] \in S
  BY <1>1, LenProperties
<1> DEFINE first == SubSeq(s \o t, 1, Len(s))
           rest  == SubSeq(s \o t, Len(s) + 1, Len(s \o t))
<1>4. /\ first \in Seq(S) /\ Len(first) = Len(s)
      /\ \A i \in 1..Len(s) : first[i] = (s \o t)[i]
  BY <1>1, <1>2, <1>3, SubSeqProperties
<1>5. /\ rest \in Seq(S) /\ Len(rest) = Len(t)
      /\ \A i \in 1..Len(t) : rest[i] = (s \o t)[Len(s) + i]
  <2>1. \A i \in Len(s) + 1..Len(s \o t) : (s \o t)[i] \in S
    BY <1>2, <1>3
  <2>2. /\ rest \in Seq(S)
        /\ Len(rest) = IF Len(s) + 1 <= Len(s \o t)
                       THEN Len(s \o t) - (Len(s) + 1) + 1 ELSE 0
        /\ \A i \in 1..Len(s \o t) - (Len(s) + 1) + 1 : rest[i] = (s \o t)[Len(s) + 1 + i - 1]
    BY <1>1, <1>2, <2>1, SubSeqProperties
  <2> HIDE DEF rest
  <2>3. Len(rest) = Len(t)
    BY <1>1, <1>2, <2>2
  <2>4. ASSUME NEW i \in 1..Len(t)  PROVE rest[i] = (s \o t)[Len(s) + i]
    <3>1. i \in 1..Len(s \o t) - (Len(s) + 1) + 1 /\ Len(s) + 1 + i - 1 = Len(s) + i
      BY <1>1, <1>2
    <3> QED BY <2>2, <3>1
  <2> QED BY <2>2, <2>3, <2>4
<1> HIDE DEF first, rest
<1>6. first = s
  <2>1. \A i \in 1..Len(first) : first[i] = s[i]
    BY <1>1, <1>2, <1>4
  <2> QED BY <1>4, <2>1, SeqEqual
<1>7. rest = t
  <2>1. \A i \in 1..Len(rest) : rest[i] = t[i]
    BY <1>1, <1>2, <1>5
  <2> QED BY <1>5, <2>1, SeqEqual
<1> QED BY <1>6, <1>7 DEF first, rest
-----------------------------------------------------------------------------
\* Take moves the oldest events of the queue to the batch, at least one.
LEMMA TakeMoves ==
  ASSUME QueueTypeOK, Take
  PROVE  /\ queue' \in Seq(1..puts) /\ batch' \in Seq(1..puts)
         /\ batch' # <<>> /\ Len(batch') <= BatchSize
         /\ Len(queue') <= Len(queue)
         /\ batch' \o queue' = queue
<1> DEFINE n == IF Len(queue) < BatchSize THEN Len(queue) ELSE BatchSize
<1>1. queue \in Seq(1..puts) /\ Len(queue) \in Nat /\ Len(queue) # 0
  <2>1. queue \in Seq(1..puts) /\ queue # <<>>
    BY DEF QueueTypeOK, Take
  <2> QED BY <2>1, EmptySeq, LenProperties
<1>2. n \in 0..Len(queue) /\ n >= 1 /\ n <= BatchSize
  BY <1>1, QueueAssumption
<1>3. batch' = SubSeq(queue, 1, n) /\ queue' = SubSeq(queue, n + 1, Len(queue))
  BY DEF Take
<1> HIDE DEF n
<1>4. /\ batch' \in Seq(1..puts) /\ Len(batch') = n
      /\ queue' \in Seq(1..puts) /\ Len(queue') = Len(queue) - n
      /\ batch' \o queue' = queue
  BY <1>1, <1>2, <1>3, Split
<1>5. batch' # <<>>
  BY <1>2, <1>4
<1> QED BY <1>1, <1>2, <1>4, <1>5

LEMMA PutType ==
  ASSUME QueueTypeOK, Put
  PROVE  /\ queue' \in Seq(1..puts') /\ Len(queue') = Len(queue) + 1
         /\ batch \in Seq(1..puts') /\ eventLog \in Seq(1..puts')
<1>1. puts \in Nat /\ puts' = puts + 1 /\ queue' = Append(queue, puts')
  BY QueueAssumption DEF QueueTypeOK, Put
<1>2. 1..puts \subseteq 1..puts' /\ puts' \in 1..puts'
  BY <1>1
<1>3. queue \in Seq(1..puts') /\ batch \in Seq(1..puts') /\ eventLog \in Seq(1..puts')
  BY <1>2, SeqMonotonic DEF QueueTypeOK
<1> QED BY <1>1, <1>2, <1>3, AppendProperties

\* Threads that have looked count as if they had put, and the task is cancelled
\* at its await.
QueueInv ==
  /\ QueueTypeOK
  /\ puts + Cardinality(putting) <= MaxEvents
  /\ stop = "cancel" => drain = "wait"

LEMMA Threads ==
  ASSUME QueueTypeOK
  PROVE  /\ IsFiniteSet(putting) /\ Cardinality(putting) \in Nat
         /\ Cardinality(Emitters) \in Nat /\ Cardinality(putting) <= Cardinality(Emitters)
  BY QueueAssumption, FS_Subset, FS_CardinalityType DEF QueueAssumption, QueueTypeOK

LEMMA QueueInvInit == QueueInit => QueueInv
  BY QueueAssumption, FS_EmptySet DEF QueueInit, QueueInv, QueueTypeOK

LEMMA QueueInvStep == QueueInv /\ [QueueNext]_queueVars => QueueInv'
<1> SUFFICES ASSUME QueueInv, [QueueNext]_queueVars  PROVE QueueInv'
  OBVIOUS
<1> USE QueueAssumption
<1>0. QueueTypeOK /\ puts \in Nat
  BY DEF QueueInv, QueueTypeOK
<1>1. CASE Emit
  <2>1. puts' + Cardinality(putting') <= MaxEvents /\ puts' \in 0..MaxEvents
    BY <1>0, <1>1, Threads DEF Emit, MayPut, Put
  <2> QED BY <1>0, <1>1, <2>1, PutType DEF Emit, QueueTypeOK, QueueInv
<1>2. CASE StartDrain
  BY <1>2 DEF StartDrain, QueueTypeOK, QueueInv
<1>3. CASE TakeBatch
  <2>1. drain' = "save"
    BY <1>3 DEF TakeBatch, Take
  <2> QED BY <1>0, <1>3, <2>1, TakeMoves DEF TakeBatch, QueueTypeOK, QueueInv
<1>4. CASE SaveBatch
  <2>1. batch \in Seq(1..puts) /\ eventLog \in Seq(1..puts)
    BY <1>0 DEF QueueTypeOK
  <2>2. eventLog' = eventLog \/ eventLog' = eventLog \o batch
    BY <1>4 DEF SaveBatch
  <2>3. eventLog' \in Seq(1..puts)
    BY <2>1, <2>2, ConcatProperties
  <2>4. batch' = <<>> /\ drain' = "wait" /\ UNCHANGED <<queue, putting, puts, stop>>
    BY <1>4 DEF SaveBatch
  <2>5. batch' \in Seq(1..puts) /\ Len(batch') <= BatchSize
    BY <2>4
  <2> QED BY <2>3, <2>4, <2>5 DEF QueueTypeOK, QueueInv
<1>5. CASE Cancelled
  BY <1>5 DEF Cancelled, QueueTypeOK, QueueInv
<1>6. CASE CancelForgotten
  <2>1. drain' = "save"
    BY <1>6 DEF CancelForgotten, Take
  <2> QED BY <1>0, <1>6, <2>1, TakeMoves DEF CancelForgotten, QueueTypeOK, QueueInv
<1>7. CASE StopDrain
  BY <1>7 DEF StopDrain, QueueTypeOK, QueueInv
<1>8. CASE EndProcess
  BY <1>0, <1>8, FS_EmptySet DEF EndProcess, QueueTypeOK, QueueInv
<1>9. ASSUME NEW t \in Emitters, CheckFull(t)  PROVE QueueInv'
  <2>1. Cardinality(putting') = Cardinality(putting) + 1
    BY <1>0, <1>9, Threads, FS_AddElement DEF CheckFull
  <2>2. puts + Cardinality(putting') <= MaxEvents
    BY <1>0, <1>9, <2>1, Threads DEF CheckFull, MayPut
  <2> QED BY <1>9, <2>2 DEF CheckFull, QueueTypeOK, QueueInv
<1>10. ASSUME NEW t \in Emitters, PutUnchecked(t)  PROVE QueueInv'
  <2>1. Cardinality(putting') = Cardinality(putting) - 1 /\ Cardinality(putting') \in Nat
    BY <1>0, <1>10, Threads, FS_RemoveElement, FS_CardinalityType DEF PutUnchecked
  <2>2. puts' + Cardinality(putting') <= MaxEvents /\ puts' \in 0..MaxEvents
    BY <1>0, <1>10, <2>1, Threads DEF PutUnchecked, Put, QueueInv
  <2> QED BY <1>0, <1>10, <2>2, PutType DEF PutUnchecked, QueueTypeOK, QueueInv
<1>11. CASE UNCHANGED queueVars
  BY <1>11 DEF queueVars, QueueTypeOK, QueueInv
<1> QED BY <1>1, <1>2, <1>3, <1>4, <1>5, <1>6, <1>7, <1>8, <1>9, <1>10, <1>11
        DEF QueueNext, DrainStep

\* Every variable has its type in every reachable state of the queue.
THEOREM QueueTypeCorrect == QueueSpec => []QueueTypeOK
<1>1. QueueInv => QueueTypeOK
  BY DEF QueueInv
<1> QED BY <1>1, QueueInvInit, QueueInvStep, PTL DEF QueueSpec
-----------------------------------------------------------------------------
LEMMA OverfullStep == QueueInv /\ OverfullByThreads /\ [QueueNext]_queueVars => OverfullByThreads'
<1> SUFFICES ASSUME QueueInv, OverfullByThreads, [QueueNext]_queueVars
             PROVE  OverfullByThreads'
  OBVIOUS
<1> USE QueueAssumption
<1>0. /\ QueueTypeOK /\ QueueTypeOK'
      /\ queue \in Seq(1..puts) /\ Len(queue) \in Nat /\ Len(queue') \in Nat
  BY QueueInvStep, LenProperties DEF QueueInv, QueueTypeOK
<1>1. CASE Emit
  BY <1>0, <1>1, Threads, PutType DEF Emit, OverfullByThreads
<1>2. ASSUME queue' = queue, putting' = putting  PROVE OverfullByThreads'
  BY <1>2 DEF OverfullByThreads
<1>3. CASE TakeBatch \/ CancelForgotten
  BY <1>0, <1>3, Threads, TakeMoves DEF TakeBatch, CancelForgotten, OverfullByThreads
<1>4. CASE EndProcess
  BY <1>0, <1>4, Threads, FS_EmptySet DEF EndProcess, OverfullByThreads
<1>5. ASSUME NEW t \in Emitters, CheckFull(t)  PROVE OverfullByThreads'
  <2>1. Cardinality(putting') <= Cardinality(Emitters) /\ Cardinality(putting') \in Nat
    BY <1>0, QueueAssumption, FS_Subset, FS_CardinalityType DEF QueueAssumption, QueueTypeOK
  <2> QED BY <1>0, <1>5, <2>1, Threads DEF CheckFull, OverfullByThreads
<1>6. ASSUME NEW t \in Emitters, PutUnchecked(t)  PROVE OverfullByThreads'
  <2>1. Cardinality(putting') = Cardinality(putting) - 1
    BY <1>0, <1>6, Threads, FS_RemoveElement DEF PutUnchecked
  <2> QED BY <1>0, <1>6, <2>1, Threads, PutType DEF PutUnchecked, OverfullByThreads
<1> QED BY <1>1, <1>2, <1>3, <1>4, <1>5, <1>6
        DEF QueueNext, DrainStep, StartDrain, SaveBatch, Cancelled, StopDrain, queueVars

\* The queue exceeds its size by no more than the threads that emit.
THEOREM OverfullCorrect == QueueSpec => []OverfullByThreads
<1>1. QueueInit => OverfullByThreads
  BY QueueAssumption, FS_EmptySet, FS_CardinalityType
     DEF QueueAssumption, QueueInit, OverfullByThreads
<1> QED BY <1>1, QueueInvInit, QueueInvStep, OverfullStep, PTL DEF QueueSpec
-----------------------------------------------------------------------------
\* What waits for the table: the batch, then the queue.
Pending == batch \o queue

LEMMA PendingType ==
  ASSUME QueueTypeOK
  PROVE  /\ batch \in Seq(1..puts) /\ queue \in Seq(1..puts) /\ Pending \in Seq(1..puts)
         /\ Len(Pending) = Len(batch) + Len(queue)
         /\ Len(batch) \in Nat /\ Len(queue) \in Nat
<1>1. batch \in Seq(1..puts) /\ queue \in Seq(1..puts)
  BY DEF QueueTypeOK
<1> QED BY <1>1, ConcatProperties, LenProperties DEF Pending

\* Putting an event accepts it.
LEMMA PutAccepts ==
  ASSUME QueueTypeOK, Put, UNCHANGED <<batch, eventLog>>
  PROVE  Fifo!Accept
<1>1. Pending' = Append(Pending, puts + 1)
  <2>1. puts' = puts + 1 /\ puts \in Nat /\ queue' = Append(queue, puts')
    BY QueueAssumption DEF Put, QueueTypeOK
  <2>2. puts' \in 1..puts' /\ <<puts'>> \in Seq(1..puts')
    BY <2>1
  <2>3. /\ batch \in Seq(1..puts') /\ queue \in Seq(1..puts')
    <3>1. 1..puts \subseteq 1..puts'
      BY <2>1
    <3> QED BY <3>1, SeqMonotonic DEF QueueTypeOK
  <2>4. queue' = queue \o <<puts'>>
    BY <2>1, <2>2, <2>3, AppendIsConcat
  <2>5. batch \o queue' = (batch \o queue) \o <<puts'>>
    BY <2>2, <2>3, <2>4, ConcatAssociative
  <2>6. batch \o queue \in Seq(1..puts')
    BY <2>3, ConcatProperties
  <2>7. (batch \o queue) \o <<puts'>> = Append(batch \o queue, puts')
    BY <2>2, <2>6, AppendIsConcat
  <2> QED BY <2>1, <2>5, <2>7 DEF Pending
<1> QED BY <1>1 DEF Put, Fifo!Accept, Pending

\* Taking a batch is not seen from outside.
LEMMA TakeStutters ==
  ASSUME QueueTypeOK, Take, batch = <<>>, UNCHANGED <<puts, eventLog>>
  PROVE  UNCHANGED Fifo!fifo
<1>1. Pending = queue
  BY ConcatEmptySeq DEF Pending, QueueTypeOK
<1> QED BY <1>1, TakeMoves DEF Fifo!fifo, Pending

\* The batch leaves, stored or lost.
LEMMA SaveLeaves ==
  ASSUME QueueTypeOK, SaveBatch
  PROVE  Fifo!Store \/ Fifo!Lose
<1>1. /\ SubSeq(Pending, 1, Len(batch)) = batch
      /\ SubSeq(Pending, Len(batch) + 1, Len(Pending)) = queue
  BY DropFirst DEF Pending, QueueTypeOK
<1>2. Len(batch) \in 1..Len(Pending)
  <2>1. Len(batch) # 0
    BY EmptySeq DEF SaveBatch, QueueTypeOK
  <2> QED BY <2>1, PendingType
<1>3. Pending' = queue /\ puts' = puts
  BY ConcatEmptySeq DEF Pending, SaveBatch, QueueTypeOK
<1>4. Fifo!Leave(Len(batch))
  BY <1>1, <1>3 DEF Fifo!Leave, Pending
<1>5. CASE eventLog' = eventLog \o batch
  BY <1>1, <1>2, <1>4, <1>5 DEF Fifo!Store, Pending
<1>6. CASE UNCHANGED eventLog
  BY <1>2, <1>4, <1>6 DEF Fifo!Lose, Pending
<1> QED BY <1>5, <1>6 DEF SaveBatch

\* The end of the process loses whatever waits.
LEMMA EndLoses ==
  ASSUME QueueTypeOK, EndProcess
  PROVE  Fifo!Lose \/ UNCHANGED Fifo!fifo
<1>1. Pending' = <<>> /\ puts' = puts /\ eventLog' = eventLog
  BY DEF EndProcess, Pending
<1>2. CASE Pending = <<>>
  BY <1>1, <1>2 DEF Fifo!fifo, Pending
<1>3. CASE Pending # <<>>
  <2>1. Len(Pending) \in 1..Len(Pending)
    <3>1. Len(Pending) # 0 /\ Len(Pending) \in Nat
      BY <1>3, PendingType, EmptySeq
    <3> QED BY <3>1
  <2>2. SubSeq(Pending, Len(Pending) + 1, Len(Pending)) = <<>>
    BY <2>1, SubSeqEmpty
  <2>3. Fifo!Leave(Len(Pending))
    BY <1>1, <2>2 DEF Fifo!Leave, Pending
  <2> QED BY <1>1, <2>1, <2>3 DEF Fifo!Lose, Pending
<1> QED BY <1>2, <1>3

LEMMA FifoStep ==
  QueueInv /\ [QueueNext]_queueVars => [Fifo!Accept \/ Fifo!Store \/ Fifo!Lose]_(Fifo!fifo)
<1> SUFFICES ASSUME QueueInv, [QueueNext]_queueVars
             PROVE  Fifo!Accept \/ Fifo!Store \/ Fifo!Lose \/ UNCHANGED Fifo!fifo
  OBVIOUS
<1>0. QueueTypeOK
  BY DEF QueueInv
<1>1. CASE Emit \/ \E t \in Emitters : PutUnchecked(t)
  BY <1>0, <1>1, PutAccepts DEF Emit, PutUnchecked
<1>2. CASE TakeBatch \/ CancelForgotten
  BY <1>0, <1>2, TakeStutters DEF TakeBatch, CancelForgotten, QueueTypeOK
<1>3. CASE SaveBatch
  BY <1>0, <1>3, SaveLeaves
<1>4. CASE EndProcess
  BY <1>0, <1>4, EndLoses
<1>5. ASSUME UNCHANGED <<queue, batch, eventLog, puts>>  PROVE UNCHANGED Fifo!fifo
  BY <1>5 DEF Fifo!fifo
<1> QED BY <1>1, <1>2, <1>3, <1>4, <1>5
        DEF QueueNext, DrainStep, StartDrain, Cancelled, StopDrain, CheckFull, queueVars

\* Whatever fails, is cancelled or ends, events are stored in the order in which
\* they were put, and once: the queue implements LossyFifo.
THEOREM KeepsOrderCorrect == QueueSpec => KeepsOrder
<1>1. QueueInit => Fifo!Init
  BY DEF QueueInit, Fifo!Init
<1> QED BY <1>1, QueueInvInit, QueueInvStep, FifoStep, PTL DEF QueueSpec, KeepsOrder, Fifo!Spec

-----------------------------------------------------------------------------
(* Startup: what is true of a worker *)

Adds(v) == ToSet(Migrations[v])

\* What is true of a worker at each step of its initialisation.
Local(w) ==
  LET r == worker[w]
      sees == objects \cup r.own
  IN
    /\ r.step # "down" => dialect # NoOne
    /\ r.step = "create" => ModelTables \subseteq objects \cup r.todo
    /\ r.step \in {"list", "look", "alter", "adding", "commit"} => ModelTables \subseteq objects
    /\ \A v \in r.ownVersions : Adds(v) \subseteq sees
    /\ r.step \in {"look", "alter", "adding"} => r.applied \subseteq versions
    /\ Sqlite =>
         /\ r.step # "adding"
         /\ r.step \in {"look", "alter", "commit"} =>
              \A v \in Versions : v < r.at => Adds(v) \subseteq sees
         /\ r.step = "alter" => r.at \in Versions /\ Adds(r.at) \subseteq sees \cup r.todo
         /\ r.step = "commit" => r.at = Len(Migrations) + 1
    /\ ~Sqlite =>
         /\ r.step \in {"alter", "adding"} => ToSet(CompatColumns) \subseteq sees \cup r.todo
         /\ r.step = "commit" => ToSet(CompatColumns) \subseteq sees
         /\ r.step # "look"
    /\ r.step \in {"maintain", "up"} => objects = Objects
    /\ request[w] = "served" => objects = Objects

StartInv ==
  /\ StartupTypeOK
  /\ dialect = NoOne => worker = [w \in Workers |-> Idle] /\ request = [w \in Workers |-> NoOne]
  /\ \A v \in versions : Adds(v) \subseteq objects
  /\ \A w \in Workers : Local(w)
-----------------------------------------------------------------------------
LEMMA TheSchema ==
  /\ ModelTables = {"wallets", "market_resolutions"}
  /\ Objects = {"wallets", "market_resolutions", "tags", "notes", "ai_summary"}
  /\ Len(Migrations) = 3 /\ Versions = 1..3
  /\ Adds(1) = {"tags", "notes"} /\ Adds(2) = {"market_resolutions"} /\ Adds(3) = {"ai_summary"}
  /\ ToSet(CompatColumns) = {"tags", "notes", "ai_summary"}
<1>1. ModelTables = {"wallets", "market_resolutions"}
  BY DEF ModelTables
<1>2. Objects = {"wallets", "market_resolutions", "tags", "notes", "ai_summary"}
  <2>1. Objects = Create("wallets") \cup Create("market_resolutions")
    BY <1>1 DEF Objects
  <2>2. Create("wallets") = {"wallets", "tags", "notes", "ai_summary"}
    BY DEF Create
  <2>3. Create("market_resolutions") = {"market_resolutions"}
    BY DEF Create
  <2> QED BY <2>1, <2>2, <2>3
<1>3. Len(Migrations) = 3 /\ Versions = 1..3
  BY DEF Migrations, Versions
<1>4. Adds(1) = {"tags", "notes"}
  BY DEF Adds, ToSet, Migrations
<1>5. Adds(2) = {"market_resolutions"}
  BY DEF Adds, ToSet, Migrations
<1>6. Adds(3) = {"ai_summary"}
  BY DEF Adds, ToSet, Migrations
<1>7. ToSet(CompatColumns) = {"tags", "notes", "ai_summary"}
  BY DEF ToSet, CompatColumns
<1> QED BY <1>1, <1>2, <1>3, <1>4, <1>5, <1>6, <1>7

\* Nothing but tables and columns is created or added.
LEMMA Parts ==
  /\ ModelTables \subseteq Objects /\ ToSet(CompatColumns) \subseteq Objects
  /\ \A v \in Versions : Adds(v) \subseteq Objects
  /\ \A t \in ModelTables : t \in Create(t) /\ Create(t) \subseteq Objects
<1>1. \A t \in ModelTables : t \in Create(t) /\ Create(t) \subseteq Objects
  BY DEF Create, Objects
<1> QED BY TheSchema, <1>1

\* The tables and either list of columns make up the whole schema.
LEMMA WholeSchema ==
  ASSUME NEW X \in SUBSET Objects, ModelTables \subseteq X,
         (\A v \in Versions : Adds(v) \subseteq X) \/ ToSet(CompatColumns) \subseteq X
  PROVE  X = Objects
<1>1. {"tags", "notes", "ai_summary"} \subseteq X
  BY TheSchema
<1> QED BY <1>1, TheSchema
-----------------------------------------------------------------------------
Row == [step : Steps, attempt : 0..MaxAttempts, at : 1..(Len(Migrations) + 1),
        todo : SUBSET Objects, applied : SUBSET Versions,
        own : SUBSET Objects, ownVersions : SUBSET Versions]

LEMMA FreshRow ==
  ASSUME NEW n \in 0..MaxAttempts, NEW st \in Steps,
         NEW x, x = [Idle EXCEPT !.attempt = n, !.step = st]
  PROVE  x \in Row /\ x.own = {} /\ x.ownVersions = {} /\ x.step = st
<1>1. Idle \in Row /\ Idle.own = {} /\ Idle.ownVersions = {}
  <2>1. 1 \in 1..(Len(Migrations) + 1) /\ 0 \in 0..MaxAttempts /\ "down" \in Steps
    BY TheSchema, StartupAssumption DEF StartupAssumption, Steps
  <2> QED BY <2>1 DEF Idle, Row
<1> QED BY <1>1 DEF Row

\* What holds of another worker goes on to hold.
LEMMA OtherLocal ==
  ASSUME StartInv, NEW u \in Workers, worker'[u] = worker[u], request'[u] = request[u],
         dialect' = dialect, objects \subseteq objects', objects' \subseteq Objects,
         versions \subseteq versions'
  PROVE  Local(u)'
<1>1. Local(u)
  BY DEF StartInv
<1>2. objects = Objects => objects' = Objects
  OBVIOUS
<1>3. Sqlite' <=> Sqlite
  BY DEF Sqlite
<1> QED BY <1>1, <1>2, <1>3 DEF Local

\* A step of w may put x in its place, add to the schema and the versions, and
\* take or leave the place of the writer.
LEMMA StepKeeps ==
  ASSUME StartInv, NEW w \in Workers, NEW x \in Row,
         dialect # NoOne, dialect' = dialect, worker' = [worker EXCEPT ![w] = x],
         objects \subseteq objects', objects' \subseteq Objects,
         versions \subseteq versions', versions' \subseteq Versions,
         \A v \in versions' : Adds(v) \subseteq objects',
         writer' \in Workers \cup {NoOne}, writer' = writer \/ writer \in {NoOne, w},
         x.own # {} \/ x.ownVersions # {} => writer' = w,
         NEW a \in {NoOne, "waiting", "served"}, request' = [request EXCEPT ![w] = a],
         mishaps' \in 0..MaxMishaps,
         Local(w)'
  PROVE  StartInv'
<1>1. /\ worker \in [Workers -> Row] /\ worker' \in [Workers -> Row]
      /\ worker'[w] = x /\ \A u \in Workers \ {w} : worker'[u] = worker[u]
  BY DEF StartInv, StartupTypeOK, Row
<1>2. /\ request' \in [Workers -> {NoOne, "waiting", "served"}]
      /\ \A u \in Workers \ {w} : request'[u] = request[u]
  BY DEF StartInv, StartupTypeOK
<1>3. ASSUME NEW u \in Workers, worker'[u].own # {} \/ worker'[u].ownVersions # {}
      PROVE  writer' = u
  <2>1. CASE u = w
    BY <1>1, <1>3, <2>1
  <2>2. CASE u # w
    <3>1. writer = u
      BY <1>1, <1>3, <2>2 DEF StartInv, StartupTypeOK
    <3> QED BY <2>2, <3>1, StartupAssumption DEF StartupAssumption, NoOne
  <2> QED BY <2>1, <2>2
<1>4. StartupTypeOK'
  BY <1>1, <1>2, <1>3 DEF StartInv, StartupTypeOK, Row
<1>5. \A u \in Workers : Local(u)'
  BY <1>1, <1>2, OtherLocal
<1> QED BY <1>4, <1>5 DEF StartInv

\* A failed attempt leaves nothing behind but what was committed.
LEMMA FailKeeps ==
  ASSUME StartInv, NEW w \in Workers, Fail(w), worker[w].step # "down",
         UNCHANGED <<dialect, request>>, mishaps' \in 0..MaxMishaps
  PROVE  StartInv'
<1> DEFINE x == IF worker[w].attempt < MaxAttempts
                THEN [Idle EXCEPT !.attempt = worker[w].attempt + 1, !.step = "check"]
                ELSE [Idle EXCEPT !.attempt = MaxAttempts, !.step = "degraded"]
<1>1. /\ worker[w] \in Row /\ Local(w) /\ dialect # NoOne
      /\ request \in [Workers -> {NoOne, "waiting", "served"}]
  BY DEF StartInv, StartupTypeOK, Row, Local
<1>2. worker' = [worker EXCEPT ![w] = x]
  BY DEF Fail
<1>3. /\ x \in Row /\ x.own = {} /\ x.ownVersions = {}
      /\ x.step \in {"check", "degraded"}
  <2>1. CASE worker[w].attempt < MaxAttempts
    <3> DEFINE n == worker[w].attempt + 1
    <3>1. n \in 0..MaxAttempts
      BY <1>1, <2>1, StartupAssumption DEF StartupAssumption, Row
    <3>2. x = [Idle EXCEPT !.attempt = n, !.step = "check"]
      BY <2>1
    <3>3. "check" \in Steps
      BY DEF Steps
    <3> HIDE DEF x, n
    <3> QED BY <3>1, <3>2, <3>3, FreshRow
  <2>2. CASE ~(worker[w].attempt < MaxAttempts)
    <3>1. MaxAttempts \in 0..MaxAttempts
      BY StartupAssumption DEF StartupAssumption
    <3>2. x = [Idle EXCEPT !.attempt = MaxAttempts, !.step = "degraded"]
      BY <2>2
    <3>3. "degraded" \in Steps
      BY DEF Steps
    <3> HIDE DEF x
    <3> QED BY <3>1, <3>2, <3>3, FreshRow
  <2> QED BY <2>1, <2>2
<1> HIDE DEF x
<1>4. worker'[w] = x
  BY <1>2 DEF StartInv, StartupTypeOK
<1>5. objects' = objects /\ versions' = versions
  BY DEF Fail
<1>6. Local(w)'
  BY <1>1, <1>3, <1>4, <1>5 DEF Local
<1>7. /\ objects' \subseteq Objects /\ versions' \subseteq Versions
      /\ \A v \in versions' : Adds(v) \subseteq objects'
  BY <1>5 DEF StartInv, StartupTypeOK
<1>8. /\ writer' \in Workers \cup {NoOne}
      /\ writer' = writer \/ writer \in {NoOne, w}
  BY DEF Fail, StartInv, StartupTypeOK
<1>9. request[w] \in {NoOne, "waiting", "served"} /\ request' = [request EXCEPT ![w] = request[w]]
  BY <1>1
<1> QED BY <1>1, <1>2, <1>3, <1>5, <1>6, <1>7, <1>8, <1>9, StepKeeps

\* A step of w that reads: only what it is at changes.
LEMMA ReadKeeps ==
  ASSUME StartInv, NEW w \in Workers, NEW x \in Row, dialect # NoOne,
         worker' = [worker EXCEPT ![w] = x],
         UNCHANGED <<dialect, objects, versions, writer, request, mishaps>>,
         x.own \subseteq worker[w].own, x.ownVersions \subseteq worker[w].ownVersions,
         Local(w)'
  PROVE  StartInv'
<1>1. x.own # {} \/ x.ownVersions # {} => writer' = w
  BY DEF StartInv, StartupTypeOK
<1>2. request[w] \in {NoOne, "waiting", "served"} /\ request' = [request EXCEPT ![w] = request[w]]
  BY DEF StartInv, StartupTypeOK
<1>3. /\ objects \subseteq objects' /\ versions \subseteq versions'
      /\ objects' \subseteq Objects /\ versions' \subseteq Versions
      /\ \A v \in versions' : Adds(v) \subseteq objects'
      /\ writer' \in Workers \cup {NoOne} /\ mishaps' \in 0..MaxMishaps
  BY DEF StartInv, StartupTypeOK
<1> QED BY <1>1, <1>2, <1>3, StepKeeps
-----------------------------------------------------------------------------
LEMMA StartFacts ==
  ASSUME StartInv, NEW w \in Workers
  PROVE  /\ worker[w] \in Row /\ Local(w)
         /\ objects \subseteq Objects /\ versions \subseteq Versions
         /\ \A v \in versions : Adds(v) \subseteq objects
         /\ worker \in [Workers -> Row]
         /\ request \in [Workers -> {NoOne, "waiting", "served"}]
         /\ writer \in Workers \cup {NoOne} /\ mishaps \in 0..MaxMishaps
         /\ worker[w].own # {} \/ worker[w].ownVersions # {} => writer = w
  BY DEF StartInv, StartupTypeOK, Row

LEMMA BootKeeps ==
  ASSUME StartInv, NEW w \in Workers, Boot(w)
  PROVE  StartInv'
<1> DEFINE x == [worker[w] EXCEPT !.step = "check", !.attempt = 1]
<1>1. worker' = [worker EXCEPT ![w] = x] /\ worker'[w] = x
  BY StartFacts DEF Boot
<1>2. x \in Row
  <2>1. 1 \in 0..MaxAttempts /\ "check" \in Steps /\ worker[w] \in Row
    BY StartFacts, StartupAssumption DEF StartupAssumption, Steps
  <2> QED BY <2>1 DEF Row
<1>3. /\ x.step = "check" /\ x.own = worker[w].own /\ x.ownVersions = worker[w].ownVersions
  BY StartFacts DEF Row
<1>4. /\ dialect # NoOne
      /\ UNCHANGED <<dialect, objects, versions, writer, request, mishaps>>
  BY DEF Boot
<1> HIDE DEF x
<1>5. Local(w)'
  BY StartFacts, <1>1, <1>3, <1>4 DEF Local
<1> QED BY <1>1, <1>2, <1>3, <1>4, <1>5, ReadKeeps

LEMMA CheckTablesKeeps ==
  ASSUME StartInv, NEW w \in Workers, CheckTables(w)
  PROVE  StartInv'
<1> DEFINE x == [worker[w] EXCEPT !.todo = ModelTables \ objects,
                   !.step = IF ModelTables \subseteq objects THEN "list" ELSE "create"]
<1>1. worker' = [worker EXCEPT ![w] = x] /\ worker'[w] = x
  BY StartFacts DEF CheckTables
<1>2. x \in Row
  BY StartFacts, Parts DEF Row, Steps
<1>3. /\ x.own = worker[w].own /\ x.ownVersions = worker[w].ownVersions
      /\ x.todo = ModelTables \ objects
      /\ x.step = IF ModelTables \subseteq objects THEN "list" ELSE "create"
  BY StartFacts DEF Row
<1>4. /\ worker[w].step = "check"
      /\ UNCHANGED <<dialect, objects, versions, writer, request, mishaps>>
  BY DEF CheckTables, IsAt
<1>5. dialect # NoOne
  BY StartFacts, <1>4 DEF Local
<1> HIDE DEF x
<1>6. Local(w)'
  BY StartFacts, <1>1, <1>3, <1>4, <1>5 DEF Local
<1> QED BY <1>1, <1>2, <1>3, <1>4, <1>5, <1>6, ReadKeeps

LEMMA ListVersionsKeeps ==
  ASSUME StartInv, NEW w \in Workers, ListVersions(w)
  PROVE  StartInv'
<1> DEFINE x == [worker[w] EXCEPT !.applied = versions, !.at = 1,
                   !.step = IF Sqlite THEN "look" ELSE "alter",
                   !.todo = IF Sqlite THEN {} ELSE ToSet(CompatColumns)]
<1>1. worker' = [worker EXCEPT ![w] = x] /\ worker'[w] = x
  BY StartFacts DEF ListVersions
<1>2. x \in Row
  <2>1. /\ 1 \in 1..(Len(Migrations) + 1) /\ {"look", "alter"} \subseteq Steps
        /\ worker[w] \in Row /\ versions \subseteq Versions
        /\ ToSet(CompatColumns) \subseteq Objects
    BY StartFacts, Parts, TheSchema DEF Steps
  <2>2. x.step \in Steps /\ x.todo \subseteq Objects
    BY <2>1 DEF Row
  <2> QED BY <2>1, <2>2 DEF Row
<1>3. /\ x.own = worker[w].own /\ x.ownVersions = worker[w].ownVersions
      /\ x.applied = versions /\ x.at = 1
      /\ x.step = IF Sqlite THEN "look" ELSE "alter"
      /\ ~Sqlite => x.todo = ToSet(CompatColumns)
  BY StartFacts DEF Row
<1>4. /\ worker[w].step = "list"
      /\ UNCHANGED <<dialect, objects, versions, writer, request, mishaps>>
  BY DEF ListVersions, IsAt
<1>5. dialect # NoOne /\ ModelTables \subseteq objects
  BY StartFacts, <1>4 DEF Local
<1>6. \A v \in Versions : ~(v < 1)
  BY TheSchema
<1> HIDE DEF x
<1>7. Local(w)'
  BY StartFacts, <1>1, <1>3, <1>4, <1>5, <1>6 DEF Local, Sqlite
<1> QED BY <1>1, <1>2, <1>3, <1>4, <1>5, <1>7, ReadKeeps

LEMMA LookUpKeeps ==
  ASSUME StartInv, NEW w \in Workers, LookUp(w)
  PROVE  StartInv'
<1> DEFINE at == worker[w].at
           x == IF at > Len(Migrations) THEN [worker[w] EXCEPT !.step = "commit"]
                ELSE IF at \in worker[w].applied THEN [worker[w] EXCEPT !.at = at + 1]
                ELSE [worker[w] EXCEPT !.step = "alter", !.todo = Adds(at) \ Sees(w)]
<1>1. worker' = [worker EXCEPT ![w] = x]
  BY DEF LookUp, Adds
<1>2. worker'[w] = x
  BY <1>1, StartFacts
<1>3. /\ worker[w].step = "look"
      /\ UNCHANGED <<dialect, objects, versions, writer, request, mishaps>>
  BY DEF LookUp, IsAt
<1>4. Sqlite /\ Sqlite' /\ dialect # NoOne
  BY StartFacts, <1>3 DEF Local, Sqlite
<1>5. /\ at \in 1..4 /\ worker[w] \in Row /\ ModelTables \subseteq objects
      /\ worker[w].applied \subseteq versions
      /\ \A v \in Versions : v < at => Adds(v) \subseteq Sees(w)
  BY StartFacts, <1>3, <1>4, TheSchema DEF Local, Row, Sees
<1> HIDE DEF at
<1>6. CASE at > Len(Migrations)
  <2>1. x = [worker[w] EXCEPT !.step = "commit"]
    BY <1>6
  <2> HIDE DEF x
  <2>2. x \in Row /\ x.own = worker[w].own /\ x.ownVersions = worker[w].ownVersions
    BY <1>5, <2>1 DEF Row, Steps
  <2>3. x.step = "commit" /\ x.at = 4 /\ at = 4
    BY <1>5, <1>6, <2>1, TheSchema DEF Row, at
  <2>4. Local(w)'
    BY StartFacts, TheSchema, <1>2, <1>3, <1>4, <1>5, <2>2, <2>3 DEF Local, Sees
  <2> QED BY <1>1, <1>3, <1>4, <2>2, <2>4, ReadKeeps
<1>7. CASE ~(at > Len(Migrations)) /\ at \in worker[w].applied
  <2>1. x = [worker[w] EXCEPT !.at = at + 1]
    BY <1>7
  <2> HIDE DEF x
  <2>2. at \in Versions /\ at + 1 \in 1..4 /\ Adds(at) \subseteq objects
    BY StartFacts, <1>5, <1>7, TheSchema
  <2>3. /\ x \in Row /\ x.own = worker[w].own /\ x.ownVersions = worker[w].ownVersions
        /\ x.step = "look" /\ x.at = at + 1 /\ x.applied = worker[w].applied
    BY <1>3, <1>5, <2>1, <2>2, TheSchema DEF Row
  <2>4. \A v \in Versions : v < x.at => Adds(v) \subseteq Sees(w)
    <3>1. ASSUME NEW v \in Versions, v < at + 1  PROVE v < at \/ v = at
      BY <3>1, <1>5, TheSchema
    <3> QED BY <1>5, <2>2, <2>3, <3>1 DEF Sees
  <2>5. Local(w)'
    BY StartFacts, <1>2, <1>3, <1>4, <1>5, <2>3, <2>4 DEF Local, Sees
  <2> QED BY <1>1, <1>3, <1>4, <2>3, <2>5, ReadKeeps
<1>8. CASE ~(at > Len(Migrations)) /\ at \notin worker[w].applied
  <2>1. x = [worker[w] EXCEPT !.step = "alter", !.todo = Adds(at) \ Sees(w)]
    BY <1>8
  <2> HIDE DEF x
  <2>2. at \in Versions /\ Adds(at) \subseteq Objects
    BY <1>5, <1>8, TheSchema, Parts
  <2>3. /\ x \in Row /\ x.own = worker[w].own /\ x.ownVersions = worker[w].ownVersions
        /\ x.step = "alter" /\ x.at = at /\ x.applied = worker[w].applied
        /\ x.todo = Adds(at) \ Sees(w)
    BY <1>5, <2>1, <2>2 DEF Row, Steps, at
  <2>4. Local(w)'
    BY StartFacts, <1>2, <1>3, <1>4, <1>5, <2>2, <2>3 DEF Local, Sees
  <2> QED BY <1>1, <1>3, <1>4, <2>3, <2>4, ReadKeeps
<1> QED BY <1>6, <1>7, <1>8

LEMMA CreateTablesKeeps ==
  ASSUME StartInv, NEW w \in Workers, CreateTables(w)
  PROVE  StartInv'
<1>1. PICK these \in SUBSET worker[w].todo :
        /\ IF these \cap objects # {} \/ writer # NoOne
           THEN Fail(w)
           ELSE /\ objects' = objects \cup UNION {Create(t) : t \in these}
                /\ worker' = [worker EXCEPT
                     ![w].todo = @ \ these,
                     ![w].step = IF these = worker[w].todo THEN "list" ELSE "create"]
                /\ UNCHANGED <<versions, writer>>
        /\ worker[w].step = "create" /\ UNCHANGED <<dialect, request, mishaps>>
  BY DEF CreateTables, IsAt
<1>2. CASE Fail(w)
  BY StartFacts, FailKeeps, <1>1, <1>2
<1>3. CASE ~(these \cap objects # {} \/ writer # NoOne)
  <2> DEFINE x == [worker[w] EXCEPT !.todo = @ \ these,
                     !.step = IF these = worker[w].todo THEN "list" ELSE "create"]
  <2>1. worker' = [worker EXCEPT ![w] = x] /\ worker'[w] = x
    BY StartFacts, <1>1, <1>3
  <2>2. worker[w] \in Row /\ {"list", "create"} \subseteq Steps
    BY StartFacts DEF Steps
  <2>3. x \in Row
    BY <2>2 DEF Row
  <2>4. /\ x.own = worker[w].own /\ x.ownVersions = worker[w].ownVersions
        /\ x.todo = worker[w].todo \ these
        /\ x.step = IF these = worker[w].todo THEN "list" ELSE "create"
    BY <2>2 DEF Row
  <2> HIDE DEF x
  <2>5. /\ UNCHANGED <<dialect, versions, writer, request, mishaps>>
        /\ objects' = objects \cup UNION {Create(t) : t \in these}
    BY <1>1, <1>3
  <2>6. objects \subseteq objects' /\ objects' \subseteq Objects
    <3>1. worker[w].todo \subseteq Objects
      BY <2>2 DEF Row
    <3>2. \A t \in Objects : Create(t) \subseteq Objects
      BY TheSchema DEF Create
    <3> QED BY StartFacts, <2>5, <3>1, <3>2
  <2>7. \A t \in these : t \in objects'
    BY <2>5 DEF Create
  <2>8. dialect # NoOne /\ ModelTables \subseteq objects \cup worker[w].todo
    BY StartFacts, <1>1 DEF Local
  <2>9. Local(w)'
    <3>1. x.step = "create" => ModelTables \subseteq objects' \cup x.todo
      BY <2>4, <2>6, <2>7, <2>8
    <3>2. x.step = "list" => ModelTables \subseteq objects'
      BY <2>4, <2>6, <2>7, <2>8
    <3>3. x.step \in {"list", "create"} /\ x.own = worker[w].own
      BY <2>4
    <3>4. \A v \in x.ownVersions : Adds(v) \subseteq objects' \cup x.own
      BY StartFacts, <2>4, <2>6 DEF Local
    <3>5. request'[w] = "served" => objects' = Objects
      BY StartFacts, <2>5, <2>6 DEF Local
    <3> QED BY <2>1, <2>5, <2>8, <3>1, <3>2, <3>3, <3>4, <3>5 DEF Local
  <2>10. \A v \in versions' : Adds(v) \subseteq objects'
    BY StartFacts, <2>5, <2>6
  <2>11. request[w] \in {NoOne, "waiting", "served"} /\ request' = [request EXCEPT ![w] = request[w]]
    BY StartFacts, <2>5
  <2>12. /\ versions \subseteq versions' /\ versions' \subseteq Versions
         /\ writer' \in Workers \cup {NoOne} /\ writer' = writer /\ mishaps' \in 0..MaxMishaps
         /\ x.own # {} \/ x.ownVersions # {} => writer' = w
    BY StartFacts, <2>4, <2>5
  <2> QED BY <2>1, <2>3, <2>5, <2>6, <2>8, <2>9, <2>10, <2>11, <2>12, StepKeeps
<1> QED BY <1>1, <1>2, <1>3
\* A step of w that adds to the schema, or writes.
LEMMA AddKeeps ==
  ASSUME StartInv, NEW w \in Workers, NEW x \in Row, dialect # NoOne,
         worker' = [worker EXCEPT ![w] = x],
         UNCHANGED <<dialect, versions, request, mishaps>>,
         objects \subseteq objects', objects' \subseteq Objects,
         writer \in {NoOne, w}, writer' \in {NoOne, w},
         x.own # {} \/ x.ownVersions # {} => writer' = w,
         Local(w)'
  PROVE  StartInv'
<1>1. request[w] \in {NoOne, "waiting", "served"} /\ request' = [request EXCEPT ![w] = request[w]]
  BY StartFacts
<1>2. /\ versions \subseteq versions' /\ versions' \subseteq Versions
      /\ \A v \in versions' : Adds(v) \subseteq objects'
      /\ writer' \in Workers \cup {NoOne} /\ mishaps' \in 0..MaxMishaps
  BY StartFacts
<1> QED BY <1>1, <1>2, StepKeeps

LEMMA AlterKeeps ==
  ASSUME StartInv, NEW w \in Workers, Alter(w)
  PROVE  StartInv'
<1>1. PICK c \in worker[w].todo :
        /\ \/ Locked(w)
           \/ /\ writer \in {NoOne, w}
              /\ IF c \in Sees(w) /\ c \notin IfNotExists
                 THEN Fail(w)
                 ELSE /\ worker' = [worker EXCEPT ![w].todo = @ \ {c},
                           ![w].own = IF writer = w /\ c \notin Sees(w) THEN @ \cup {c} ELSE @]
                      /\ objects' = IF writer = w THEN objects ELSE objects \cup {c}
                      /\ UNCHANGED <<versions, writer>>
        /\ Sqlite /\ worker[w].step = "alter" /\ UNCHANGED <<dialect, request, mishaps>>
  BY DEF Alter, IsAt
<1>2. CASE Fail(w) \/ Locked(w)
  BY StartFacts, FailKeeps, <1>1, <1>2 DEF Locked
<1>3. CASE /\ writer \in {NoOne, w}
           /\ worker' = [worker EXCEPT ![w].todo = @ \ {c},
                  ![w].own = IF writer = w /\ c \notin Sees(w) THEN @ \cup {c} ELSE @]
           /\ objects' = IF writer = w THEN objects ELSE objects \cup {c}
           /\ UNCHANGED <<versions, writer>>
  <2> DEFINE x == [worker[w] EXCEPT !.todo = @ \ {c},
                     !.own = IF writer = w /\ c \notin Sees(w) THEN @ \cup {c} ELSE @]
  <2>1. worker' = [worker EXCEPT ![w] = x] /\ worker'[w] = x
    BY StartFacts, <1>3
  <2>2. worker[w] \in Row /\ c \in Objects
    BY StartFacts DEF Row
  <2>3. x \in Row
    BY <2>2 DEF Row
  <2>4. /\ x.own = (IF writer = w /\ c \notin Sees(w) THEN worker[w].own \cup {c} ELSE worker[w].own)
        /\ x.ownVersions = worker[w].ownVersions /\ x.step = "alter" /\ x.at = worker[w].at
        /\ x.applied = worker[w].applied /\ x.todo = worker[w].todo \ {c}
    BY <1>1, <2>2 DEF Row
  <2> HIDE DEF x
  <2>5. objects \subseteq objects' /\ objects' \subseteq Objects
    BY StartFacts, <1>3, <2>2
  <2>6. dialect # NoOne /\ Sqlite' /\ Sqlite
    BY StartFacts, <1>1 DEF Local, Sqlite
  <2>7. objects \cup worker[w].own \cup {c} \subseteq objects' \cup x.own
    <3>1. CASE writer = w
      BY <1>3, <2>4, <3>1 DEF Sees
    <3>2. CASE writer # w
      BY <1>3, <2>4, <3>2
    <3> QED BY <3>1, <3>2
  <2>8. Local(w)'
    <3>1. Adds(x.at) \subseteq objects' \cup x.own \cup x.todo /\ x.at \in Versions
      BY StartFacts, <1>1, <2>4, <2>6, <2>7 DEF Local
    <3>2. \A v \in Versions : v < x.at => Adds(v) \subseteq objects' \cup x.own
      BY StartFacts, <1>1, <2>4, <2>6, <2>7 DEF Local
    <3>3. \A v \in x.ownVersions : Adds(v) \subseteq objects' \cup x.own
      BY StartFacts, <2>4, <2>7 DEF Local
    <3>4. /\ ModelTables \subseteq objects' /\ x.applied \subseteq versions'
          /\ request'[w] = "served" => objects' = Objects
      BY StartFacts, <1>1, <1>3, <2>4, <2>5 DEF Local
    <3>5. dialect' # NoOne
      BY <1>1, <2>6
    <3> QED BY <2>1, <2>4, <2>6, <3>1, <3>2, <3>3, <3>4, <3>5 DEF Local
  <2>9. x.own # {} \/ x.ownVersions # {} => writer' = w
    BY StartFacts, <1>3, <2>4
  <2> QED BY <1>1, <1>3, <2>1, <2>3, <2>5, <2>6, <2>8, <2>9, AddKeeps
<1> QED BY <1>1, <1>2, <1>3

LEMMA RecordKeeps ==
  ASSUME StartInv, NEW w \in Workers, Record(w)
  PROVE  StartInv'
<1>1. /\ Sqlite /\ worker[w].step = "alter" /\ worker[w].todo = {}
      /\ UNCHANGED <<dialect, request, mishaps>>
      /\ \/ Fail(w)
         \/ /\ writer \in {NoOne, w} /\ writer' = w
            /\ worker' = [worker EXCEPT ![w].ownVersions = @ \cup {worker[w].at},
                     ![w].at = @ + 1, ![w].step = "look"]
            /\ UNCHANGED <<objects, versions>>
  BY DEF Record, IsAt, Locked
<1>2. CASE Fail(w)
  BY StartFacts, FailKeeps, <1>1, <1>2
<1>3. CASE ~Fail(w)
  <2> DEFINE at == worker[w].at
             x == [worker[w] EXCEPT !.ownVersions = @ \cup {at}, !.at = @ + 1, !.step = "look"]
  <2>1. worker' = [worker EXCEPT ![w] = x] /\ worker'[w] = x
    BY StartFacts, <1>1, <1>3
  <2>2. /\ worker[w] \in Row /\ at \in Versions /\ at + 1 \in 1..(Len(Migrations) + 1)
        /\ "look" \in Steps
    BY StartFacts, <1>1, TheSchema DEF Local, Steps
  <2>3. x \in Row
    BY <2>2 DEF Row
  <2>4. /\ x.own = worker[w].own /\ x.ownVersions = worker[w].ownVersions \cup {at}
        /\ x.step = "look" /\ x.at = at + 1 /\ x.applied = worker[w].applied
    BY <2>2 DEF Row
  <2> HIDE DEF x
  <2>5. /\ objects' = objects /\ versions' = versions
        /\ writer \in {NoOne, w} /\ writer' = w
    BY <1>1, <1>3
  <2>6. dialect # NoOne /\ Sqlite /\ Sqlite'
    BY StartFacts, <1>1 DEF Local, Sqlite
  <2>7. /\ Adds(at) \subseteq objects \cup worker[w].own
        /\ \A v \in Versions : v < at => Adds(v) \subseteq objects \cup worker[w].own
        /\ ModelTables \subseteq objects /\ worker[w].applied \subseteq versions
        /\ \A v \in worker[w].ownVersions : Adds(v) \subseteq objects \cup worker[w].own
        /\ request[w] = "served" => objects = Objects
    BY StartFacts, <1>1 DEF Local
  <2>8. \A v \in Versions : v < x.at => v < at \/ v = at
    BY <2>2, <2>4, TheSchema
  <2> HIDE DEF at
  <2>9. Local(w)'
    BY <1>1, <2>1, <2>4, <2>5, <2>6, <2>7, <2>8 DEF Local
  <2> QED BY StartFacts, <1>1, <2>1, <2>3, <2>5, <2>6, <2>9, AddKeeps
<1> QED BY <1>2, <1>3

LEMMA CompatKeeps ==
  ASSUME StartInv, NEW w \in Workers, Compat(w)
  PROVE  StartInv'
<1> DEFINE left == worker[w].todo
<1>1. /\ ~Sqlite /\ worker[w].step = "alter"
      /\ UNCHANGED <<dialect, objects, versions, writer, request, mishaps>>
      /\ \/ left = {} /\ Goto(w, "commit")
         \/ \E c \in left : worker' = IF c \in Sees(w)
                                    THEN [worker EXCEPT ![w].todo = @ \ {c}]
                                    ELSE [worker EXCEPT ![w].step = "adding"]
  BY DEF Compat, IsAt
<1>2. /\ worker[w] \in Row /\ dialect # NoOne /\ ~Sqlite' /\ {"commit", "adding"} \subseteq Steps
      /\ ToSet(CompatColumns) \subseteq Sees(w) \cup left
  BY StartFacts, <1>1 DEF Local, Sqlite, Sees, Steps
<1>3. CASE left = {} /\ Goto(w, "commit")
  <2> DEFINE x == [worker[w] EXCEPT !.step = "commit"]
  <2>1. worker' = [worker EXCEPT ![w] = x] /\ worker'[w] = x
    BY StartFacts, <1>3 DEF Goto
  <2>2. /\ x \in Row /\ x.own = worker[w].own /\ x.ownVersions = worker[w].ownVersions
        /\ x.step = "commit"
    BY <1>2 DEF Row
  <2> HIDE DEF x
  <2>3. Local(w)'
    BY StartFacts, <1>1, <1>2, <1>3, <2>1, <2>2 DEF Local, Sees
  <2> QED BY <1>1, <1>2, <2>1, <2>2, <2>3, ReadKeeps
<1>4. ASSUME NEW c \in left, c \in Sees(w), worker' = [worker EXCEPT ![w].todo = @ \ {c}]
      PROVE  StartInv'
  <2> DEFINE x == [worker[w] EXCEPT !.todo = @ \ {c}]
  <2>1. worker' = [worker EXCEPT ![w] = x] /\ worker'[w] = x
    BY StartFacts, <1>4
  <2>2. /\ x \in Row /\ x.own = worker[w].own /\ x.ownVersions = worker[w].ownVersions
        /\ x.step = "alter" /\ x.todo = left \ {c} /\ x.applied = worker[w].applied
    BY <1>1, <1>2 DEF Row
  <2> HIDE DEF x
  <2>3. Local(w)'
    BY StartFacts, <1>1, <1>2, <1>4, <2>1, <2>2 DEF Local, Sees
  <2> QED BY <1>1, <1>2, <2>1, <2>2, <2>3, ReadKeeps
<1>5. CASE worker' = [worker EXCEPT ![w].step = "adding"]
  <2> DEFINE x == [worker[w] EXCEPT !.step = "adding"]
  <2>1. worker' = [worker EXCEPT ![w] = x] /\ worker'[w] = x
    BY StartFacts, <1>5
  <2>2. /\ x \in Row /\ x.own = worker[w].own /\ x.ownVersions = worker[w].ownVersions
        /\ x.step = "adding" /\ x.todo = left /\ x.applied = worker[w].applied
    BY <1>2 DEF Row
  <2> HIDE DEF x
  <2>3. Local(w)'
    BY StartFacts, <1>1, <1>2, <2>1, <2>2 DEF Local, Sees
  <2> QED BY <1>1, <1>2, <2>1, <2>2, <2>3, ReadKeeps
<1> QED BY <1>1, <1>3, <1>4, <1>5

LEMMA CompatAddKeeps ==
  ASSUME StartInv, NEW w \in Workers, CompatAdd(w)
  PROVE  StartInv'
<1>1. PICK c \in worker[w].todo :
        /\ worker[w].step = "adding" /\ writer \in {NoOne, w}
        /\ IF c \in objects
           THEN Fail(w)
           ELSE /\ writer' = w
                /\ worker' = [worker EXCEPT ![w].todo = @ \ {c}, ![w].own = @ \cup {c},
                                            ![w].step = "alter"]
                /\ UNCHANGED <<objects, versions>>
        /\ UNCHANGED <<dialect, request, mishaps>>
  BY DEF CompatAdd, IsAt
<1>2. CASE Fail(w)
  BY StartFacts, FailKeeps, <1>1, <1>2
<1>3. CASE c \notin objects
  <2> DEFINE x == [worker[w] EXCEPT !.todo = @ \ {c}, !.own = @ \cup {c}, !.step = "alter"]
  <2>1. worker' = [worker EXCEPT ![w] = x] /\ worker'[w] = x
    BY StartFacts, <1>1, <1>3
  <2>2. worker[w] \in Row /\ c \in Objects /\ "alter" \in Steps
    BY StartFacts DEF Row, Steps
  <2>3. /\ x \in Row /\ x.own = worker[w].own \cup {c}
        /\ x.ownVersions = worker[w].ownVersions /\ x.step = "alter"
        /\ x.todo = worker[w].todo \ {c} /\ x.applied = worker[w].applied
    BY <2>2 DEF Row
  <2> HIDE DEF x
  <2>4. ~Sqlite /\ ~Sqlite' /\ dialect # NoOne
    BY StartFacts, <1>1 DEF Local, Sqlite
  <2>5. /\ UNCHANGED <<dialect, objects, versions, request, mishaps>> /\ writer' = w
    BY <1>1, <1>3
  <2>6. x.applied \subseteq versions
    BY StartFacts, <1>1, <2>3 DEF Local
  <2>7. Local(w)'
    BY StartFacts, <1>1, <2>1, <2>3, <2>4, <2>5, <2>6 DEF Local
  <2> QED BY StartFacts, <1>1, <2>1, <2>3, <2>4, <2>5, <2>7, AddKeeps
<1> QED BY <1>1, <1>2, <1>3

LEMMA CommitKeeps ==
  ASSUME StartInv, NEW w \in Workers, Commit(w)
  PROVE  StartInv'
<1> DEFINE x == [Idle EXCEPT !.step = "maintain", !.attempt = worker[w].attempt]
<1>1. /\ worker[w].step = "commit"
      /\ objects' = objects \cup worker[w].own
      /\ versions' = versions \cup worker[w].ownVersions
      /\ worker' = [worker EXCEPT ![w] = x]
      /\ writer' = (IF writer = w THEN NoOne ELSE writer)
      /\ UNCHANGED <<dialect, request, mishaps>>
  BY DEF Commit, IsAt
<1>2. x \in Row /\ x.own = {} /\ x.ownVersions = {} /\ x.step = "maintain"
  <2> DEFINE n == worker[w].attempt
  <2>1. n \in 0..MaxAttempts /\ "maintain" \in Steps
    BY StartFacts DEF Row, Steps
  <2>2. x = [Idle EXCEPT !.attempt = n, !.step = "maintain"]
    BY DEF Idle
  <2> HIDE DEF n, x
  <2> QED BY <2>1, <2>2, FreshRow
<1> HIDE DEF x
<1>3. worker'[w] = x
  BY StartFacts, <1>1
<1>4. /\ objects \subseteq objects' /\ objects' \subseteq Objects
      /\ versions \subseteq versions' /\ versions' \subseteq Versions
  BY StartFacts, <1>1 DEF Row
<1>5. \A v \in versions' : Adds(v) \subseteq objects'
  BY StartFacts, <1>1 DEF Local
<1>6. dialect # NoOne /\ dialect' = dialect
  BY StartFacts, <1>1 DEF Local
<1>7. objects' = Objects
  <2>1. ModelTables \subseteq objects'
    BY StartFacts, <1>1 DEF Local
  <2>2. CASE Sqlite
    <3>1. worker[w].at = Len(Migrations) + 1
      BY StartFacts, <1>1, <2>2 DEF Local
    <3>2. \A v \in Versions : v < worker[w].at
      BY <3>1, TheSchema
    <3>3. \A v \in Versions : Adds(v) \subseteq objects'
      BY StartFacts, <1>1, <2>2, <3>2 DEF Local
    <3> QED BY <1>4, <2>1, <3>3, WholeSchema
  <2>3. CASE ~Sqlite
    <3>1. ToSet(CompatColumns) \subseteq objects'
      BY StartFacts, <1>1, <2>3 DEF Local
    <3> QED BY <1>4, <2>1, <3>1, WholeSchema
  <2> QED BY <2>2, <2>3
<1>8. Local(w)'
  BY <1>2, <1>3, <1>6, <1>7 DEF Local
<1>9. request[w] \in {NoOne, "waiting", "served"} /\ request' = [request EXCEPT ![w] = request[w]]
  BY StartFacts, <1>1
<1>10. /\ writer' \in Workers \cup {NoOne} /\ (writer' = writer \/ writer \in {NoOne, w})
       /\ mishaps' \in 0..MaxMishaps
  BY StartFacts, <1>1
<1> QED BY <1>1, <1>2, <1>4, <1>5, <1>6, <1>8, <1>9, <1>10, StepKeeps

LEMMA MaintainKeeps ==
  ASSUME StartInv, NEW w \in Workers, Maintain(w)
  PROVE  StartInv'
<1> DEFINE x == [worker[w] EXCEPT !.step = "up"]
<1>1. /\ worker' = [worker EXCEPT ![w] = x] /\ worker'[w] = x
      /\ worker[w].step = "maintain"
      /\ UNCHANGED <<dialect, objects, versions, writer, request, mishaps>>
  BY StartFacts DEF Maintain, Goto, IsAt
<1>2. /\ x \in Row /\ x.own = worker[w].own /\ x.ownVersions = worker[w].ownVersions
      /\ x.step = "up"
  <2>1. worker[w] \in Row /\ "up" \in Steps
    BY StartFacts DEF Steps
  <2> QED BY <2>1 DEF Row
<1> HIDE DEF x
<1>3. dialect # NoOne
  BY StartFacts, <1>1 DEF Local
<1>4. Local(w)'
  BY StartFacts, <1>1, <1>2, <1>3 DEF Local
<1> QED BY <1>1, <1>2, <1>3, <1>4, ReadKeeps

LEMMA KillKeeps ==
  ASSUME StartInv, NEW w \in Workers, Kill(w)
  PROVE  StartInv'
<1>1. /\ worker' = [worker EXCEPT ![w] = Idle] /\ request' = [request EXCEPT ![w] = NoOne]
      /\ writer' = (IF writer = w THEN NoOne ELSE writer)
      /\ mishaps' = mishaps + 1 /\ mishaps < MaxMishaps /\ worker[w].step # "down"
      /\ UNCHANGED <<dialect, objects, versions>>
  BY DEF Kill, IsAt
<1>2. Idle \in Row /\ Idle.own = {} /\ Idle.ownVersions = {} /\ Idle.step = "down"
  <2>1. 1 \in 1..(Len(Migrations) + 1) /\ 0 \in 0..MaxAttempts /\ "down" \in Steps
    BY TheSchema, StartupAssumption DEF StartupAssumption, Steps
  <2> QED BY <2>1 DEF Idle, Row
<1>3. worker'[w] = Idle /\ request'[w] = NoOne
  BY StartFacts, <1>1
<1>4. dialect # NoOne
  BY StartFacts, <1>1 DEF Local
<1>5. Local(w)'
  BY <1>2, <1>3 DEF Local, NoOne
<1>6. mishaps' \in 0..MaxMishaps
  BY StartFacts, <1>1, StartupAssumption DEF StartupAssumption
<1>7. /\ objects \subseteq objects' /\ objects' \subseteq Objects
      /\ versions \subseteq versions' /\ versions' \subseteq Versions
      /\ \A v \in versions' : Adds(v) \subseteq objects'
      /\ writer' \in Workers \cup {NoOne} /\ (writer' = writer \/ writer \in {NoOne, w})
      /\ dialect' = dialect
  BY StartFacts, <1>1
<1> QED BY <1>1, <1>2, <1>4, <1>5, <1>6, <1>7, StepKeeps

\* A request at w arrives, is answered or sent.
LEMMA RequestKeeps ==
  ASSUME StartInv, NEW w \in Workers, Arrive(w) \/ Wait(w) \/ Answered(w)
  PROVE  StartInv'
<1>1. PICK a \in {NoOne, "waiting", "served"} :
        /\ request' = [request EXCEPT ![w] = a]
        /\ a = "served" => worker[w].step = "up"
        /\ request[w] # NoOne \/ worker[w].step # "down"
        /\ UNCHANGED <<dialect, objects, versions, writer, worker, mishaps>>
  BY DEF Arrive, Wait, Answered, IsAt, NoOne
<1>2. CASE dialect = NoOne
  <2>1. request[w] = NoOne /\ worker[w].step = "down"
    BY <1>2 DEF StartInv, Idle
  <2> QED BY <1>1, <2>1
<1>3. CASE dialect # NoOne
  <2>1. /\ worker' = [worker EXCEPT ![w] = worker[w]] /\ worker[w] \in Row
        /\ worker'[w] = worker[w] /\ request'[w] = a
    BY StartFacts, <1>1
  <2>2. Local(w)'
    BY StartFacts, <1>1, <1>3, <2>1 DEF Local, Sqlite
  <2>3. /\ objects \subseteq objects' /\ objects' \subseteq Objects
        /\ versions \subseteq versions' /\ versions' \subseteq Versions
        /\ \A v \in versions' : Adds(v) \subseteq objects'
        /\ writer' \in Workers \cup {NoOne} /\ writer' = writer /\ dialect' = dialect
        /\ mishaps' \in 0..MaxMishaps
        /\ worker[w].own # {} \/ worker[w].ownVersions # {} => writer' = w
    BY StartFacts, <1>1
  <2> QED BY <1>1, <1>3, <2>1, <2>2, <2>3, StepKeeps
<1> QED BY <1>2, <1>3
-----------------------------------------------------------------------------
LEMMA DeployKeeps ==
  ASSUME StartInv, Deploy
  PROVE  StartInv'
<1>1. /\ dialect = NoOne /\ dialect' \in {"sqlite", "postgresql"}
      /\ UNCHANGED <<writer, worker, request, mishaps>>
      /\ worker = [w \in Workers |-> Idle] /\ request = [w \in Workers |-> NoOne]
  BY DEF Deploy, StartInv
<1>2. dialect' # NoOne
  BY <1>1 DEF NoOne
<1>3. /\ objects' \subseteq Objects /\ versions' \subseteq Versions
      /\ \A v \in versions' : Adds(v) \subseteq objects'
  <2>1. CASE UNCHANGED <<objects, versions>>
    BY <2>1 DEF StartInv, StartupTypeOK
  <2>2. ASSUME NEW n \in 0..2, versions' = (IF dialect' = "sqlite" THEN 1..n ELSE {}),
               objects' = {"wallets"} \cup UNION {Adds(v) : v \in 1..n}
        PROVE  /\ objects' \subseteq Objects /\ versions' \subseteq Versions
               /\ \A v \in versions' : Adds(v) \subseteq objects'
    <3>1. 1..n \subseteq Versions
      BY TheSchema
    <3>2. versions' \subseteq 1..n
      BY <2>2
    <3>3. \A v \in 1..n : Adds(v) \subseteq Objects
      BY <3>1, Parts
    <3>4. objects' \subseteq Objects
      BY <2>2, <3>3, TheSchema
    <3>5. \A v \in 1..n : Adds(v) \subseteq objects'
      BY <2>2
    <3> QED BY <3>1, <3>2, <3>4, <3>5
  <2>3. CASE objects' = {"wallets", "notes"} /\ versions' = {}
    BY <2>3, TheSchema
  <2> QED BY <2>1, <2>2, <2>3 DEF Deploy, Adds
<1>4. StartupTypeOK'
  BY <1>1, <1>3 DEF StartInv, StartupTypeOK
<1>5. \A w \in Workers : Local(w)'
  BY <1>1, <1>2 DEF Local, Idle, NoOne
<1> QED BY <1>2, <1>3, <1>4, <1>5 DEF StartInv

LEMMA StartInvInit == StartupInit => StartInv
<1> SUFFICES ASSUME StartupInit  PROVE StartInv
  OBVIOUS
<1>1. Idle \in Row
  <2>1. 1 \in 1..(Len(Migrations) + 1) /\ 0 \in 0..MaxAttempts /\ "down" \in Steps
    BY TheSchema, StartupAssumption DEF StartupAssumption, Steps
  <2> QED BY <2>1 DEF Idle, Row
<1>2. StartupTypeOK
  <2>1. mishaps \in 0..MaxMishaps
    BY StartupAssumption DEF StartupInit, StartupAssumption
  <2>2. worker \in [Workers -> Row] /\ \A w \in Workers : worker[w] = Idle
    BY <1>1 DEF StartupInit
  <2>3. Idle.own = {} /\ Idle.ownVersions = {}
    BY DEF Idle
  <2> QED BY <2>1, <2>2, <2>3 DEF StartupInit, StartupTypeOK, Row
<1>3. \A w \in Workers : Local(w)
  BY DEF StartupInit, Local, Idle, NoOne
<1> QED BY <1>2, <1>3 DEF StartInv, StartupInit

LEMMA StartInvStep == StartInv /\ [StartupNext]_startupVars => StartInv'
<1> SUFFICES ASSUME StartInv, [StartupNext]_startupVars  PROVE StartInv'
  OBVIOUS
<1>1. CASE Deploy
  BY <1>1, DeployKeeps
<1>2. ASSUME NEW w \in Workers, Initialise(w)  PROVE StartInv'
  BY <1>2, BootKeeps, CheckTablesKeeps, CreateTablesKeeps, ListVersionsKeeps, LookUpKeeps,
     AlterKeeps, RecordKeeps, CompatKeeps, CompatAddKeeps, CommitKeeps, MaintainKeeps
     DEF Initialise
<1>3. ASSUME NEW w \in Workers, Unreachable(w)  PROVE StartInv'
  <2>1. /\ Fail(w) /\ worker[w].step # "down" /\ UNCHANGED <<dialect, request>>
        /\ mishaps' = mishaps + 1 /\ mishaps < MaxMishaps
    BY <1>3 DEF Unreachable, IsAt
  <2>2. mishaps' \in 0..MaxMishaps
    BY <2>1, StartFacts, StartupAssumption DEF StartupAssumption
  <2> QED BY <2>1, <2>2, FailKeeps
<1>4. ASSUME NEW w \in Workers, Kill(w)  PROVE StartInv'
  BY <1>4, KillKeeps
<1>5. ASSUME NEW w \in Workers, Arrive(w) \/ Wait(w) \/ Answered(w)  PROVE StartInv'
  BY <1>5, RequestKeeps
<1>6. CASE UNCHANGED startupVars
  BY <1>6 DEF startupVars, StartInv, StartupTypeOK, Local, Sqlite
<1> QED BY <1>1, <1>2, <1>3, <1>4, <1>5, <1>6 DEF StartupNext

\* Every variable has its type in every reachable state of the startup.
THEOREM StartupTypeCorrect == StartupSpec => []StartupTypeOK
<1>1. StartInv => StartupTypeOK
  BY DEF StartInv
<1> QED BY <1>1, StartInvInit, StartInvStep, PTL DEF StartupSpec

\* A version is recorded only when what it adds is there, and a worker becomes
\* ready only with the whole schema, for any number of workers and mishaps.
THEOREM MigratedCorrect == StartupSpec => []MigratedTruthfully
<1>1. StartInv => MigratedTruthfully
  BY DEF StartInv, Local, MigratedTruthfully, Adds
<1> QED BY <1>1, StartInvInit, StartInvStep, PTL DEF StartupSpec

\* No worker serves a page on an incomplete schema.
THEOREM ServedCorrect == StartupSpec => []ServedComplete
<1>1. StartInv => ServedComplete
  BY DEF StartInv, Local, ServedComplete
<1> QED BY <1>1, StartInvInit, StartInvStep, PTL DEF StartupSpec
-----------------------------------------------------------------------------
(* AutoRefresh *)

\* A set of positions has a k-th one.
LEMMA RankTaken ==
  ASSUME NEW A, IsFiniteSet(A), A \subseteq Nat, NEW k \in Nat \ {0}, k <= Cardinality(A)
  PROVE  \E i \in A : Cardinality({j \in A : j <= i}) = k
<1> DEFINE low == [i \in A |-> -i]
<1>1. \A i \in A : low[i] \in Int
  OBVIOUS
<1>2. k \in 0..Cardinality(A)
  BY FS_CardinalityType
<1>3. PICK P \in SUBSET A : Cardinality(P) = k /\ \A x \in P, y \in A \ P : low[x] >= low[y]
  <2> HIDE DEF low
  <2>1. \E P \in SUBSET A : Cardinality(P) = k /\ \A x \in P, y \in A \ P : low[x] >= low[y]
    BY <1>1, <1>2, HighestPart
  <2> QED BY <2>1
<1>4. IsFiniteSet(P) /\ P # {} /\ P \in SUBSET Int
  <2>1. IsFiniteSet(P)
    BY <1>3, FS_Subset
  <2>2. Cardinality({}) = 0 /\ Cardinality(P) # 0
    BY <1>2, <1>3, FS_EmptySet
  <2>3. P # {}
    BY <2>2
  <2> QED BY <1>3, <2>1, <2>3
<1>5. PICK m \in P : \A x \in P : m >= x
  BY <1>4, FiniteExtremes
<1>6. ASSUME NEW y \in A \ P  PROVE ~(y <= m)
  <2>1. low[m] >= low[y] /\ y # m /\ y \in Nat /\ m \in Nat
    BY <1>3, <1>5
  <2> QED BY <2>1
<1>7. {j \in A : j <= m} = P
  BY <1>5, <1>6
<1> QED BY <1>3, <1>5, <1>7

\* The batch: active wallets, not more than the limit.
LEMMA DueType ==
  ASSUME JobTypeOK
  PROVE  /\ Due \in Seq(Wallets) /\ Len(Due) <= MaxWallets
         /\ \A k \in 1..Len(Due) : Active(Due[k])
<1> DEFINE n == Cardinality(Wallets)
           active == {i \in DOMAIN order : Active(order[i])}
           size == IF Cardinality(active) < MaxWallets THEN Cardinality(active) ELSE MaxWallets
           kth(k) == CHOOSE i \in active : Cardinality({j \in active : j <= i}) = k
<1>1. order \in [1..n -> Wallets] /\ n \in Nat
  BY AutoRefreshAssumption, FS_CardinalityType DEF JobTypeOK, Sorted
<1>2. active \in SUBSET Nat /\ IsFiniteSet(active)
  <2>1. active \subseteq 1..n
    BY <1>1
  <2>2. IsFiniteSet(1..n)
    <3>1. 1 \in Int /\ n \in Int
      BY <1>1
    <3> QED BY <3>1, FS_Interval
  <2> HIDE DEF active
  <2>3. IsFiniteSet(active)
    BY <2>1, <2>2, FS_Subset
  <2> QED BY <1>1, <2>1, <2>3
<1>3. Cardinality(active) \in Nat
  BY <1>2, FS_CardinalityType
<1>4. size \in Nat /\ size <= Cardinality(active) /\ size <= MaxWallets
  BY <1>3, AutoRefreshAssumption
<1>5. Due = [k \in 1..size |-> order[kth(k)]]
  BY DEF Due
<1>6. ASSUME NEW k \in 1..size  PROVE kth(k) \in active
  <2>1. k \in Nat \ {0} /\ k <= Cardinality(active)
    BY <1>3, <1>4
  <2> HIDE DEF active
  <2>2. \E i \in active : Cardinality({j \in active : j <= i}) = k
    BY <1>2, <2>1, RankTaken
  <2> QED BY <2>2
<1>7. \A i \in active : order[i] \in Wallets /\ Active(order[i])
  BY <1>1
<1> HIDE DEF active, size, kth
<1>8. \A k \in 1..size : order[kth(k)] \in Wallets /\ Active(order[kth(k)])
  BY <1>6, <1>7
<1>9. Due \in [1..size -> Wallets]
  BY <1>5, <1>8
<1>10. Due \in Seq(Wallets) /\ Len(Due) = size
  BY <1>4, <1>9
<1> QED BY <1>4, <1>5, <1>8, <1>10

\* A wallet that was checked is last and no other is lost.
LEMMA CheckedNowSorted ==
  ASSUME JobTypeOK, NEW w \in Wallets
  PROVE  CheckedNow(w) \in Sorted
<1> DEFINE n == Cardinality(Wallets)
           new == CheckedNow(w)
           behind(i) == ~ \A j \in 1..i : order[j] # w
<1>1. order \in [1..n -> Wallets] /\ n \in Nat /\ \A v \in Wallets : \E i \in 1..n : order[i] = v
  BY AutoRefreshAssumption, FS_CardinalityType DEF JobTypeOK, Sorted, ToSet
<1>2. Len(order) = n /\ DOMAIN order = 1..n
  BY <1>1
<1>3. new = [i \in 1..n |-> IF ~behind(i) THEN order[i] ELSE IF i < n THEN order[i + 1] ELSE w]
  BY <1>2 DEF CheckedNow
<1>4. new \in [1..n -> Wallets]
  BY <1>1, <1>3
<1>5. ASSUME NEW v \in Wallets  PROVE \E i \in 1..n : new[i] = v
  <2>1. PICK i \in 1..n : order[i] = v
    BY <1>1
  <2>2. CASE v = w
    <3>1. n \in 1..n /\ behind(n)
      BY <1>1, <2>1, <2>2
    <3> QED BY <1>3, <2>2, <3>1
  <2>3. CASE v # w /\ ~behind(i)
    BY <1>3, <2>1, <2>3
  <2>4. CASE v # w /\ behind(i)
    <3>1. i - 1 \in 1..n /\ behind(i - 1)
      <4>1. PICK j \in 1..i : order[j] = w
        BY <2>4
      <4>2. j \in 1..(i - 1)
        BY <2>1, <2>4, <4>1
      <4> QED BY <1>1, <4>1, <4>2
    <3>2. i - 1 < n /\ (i - 1) + 1 = i
      BY <1>1
    <3>3. new[i - 1] = order[i]
      BY <1>3, <3>1, <3>2
    <3> QED BY <2>1, <3>1, <3>3
  <2> QED BY <2>2, <2>3, <2>4
<1> HIDE DEF new
<1>6. ToSet(new) = Wallets
  BY <1>4, <1>5 DEF ToSet
<1> QED BY <1>4, <1>6 DEF Sorted, new

LEMMA JobTypeInit == JobInit => JobTypeOK
<1> SUFFICES ASSUME JobInit  PROVE JobTypeOK
  OBVIOUS
<1>1. jobBatch = <<>> /\ jobBatch \in Seq(Wallets) /\ Len(jobBatch) <= MaxWallets
  BY AutoRefreshAssumption DEF JobInit
<1>2. /\ order \in Sorted /\ archived \subseteq Wallets /\ ready \in BOOLEAN
      /\ job \in {"idle", "run"} /\ latest \in Wallets \cup {NoWallet}
  BY DEF JobInit
<1> QED BY <1>1, <1>2 DEF JobTypeOK

LEMMA JobTypeStep == JobTypeOK /\ [JobNext]_jobVars => JobTypeOK'
<1> SUFFICES ASSUME JobTypeOK, [JobNext]_jobVars  PROVE JobTypeOK'
  OBVIOUS
<1>1. CASE Ready
  BY <1>1 DEF Ready, JobTypeOK
<1>2. CASE StartJob
  BY <1>2, DueType DEF StartJob, JobTypeOK
<1>3. CASE RefreshNext
  <2>1. Tail(jobBatch) \in Seq(Wallets) /\ Head(jobBatch) \in Wallets /\ Len(Tail(jobBatch)) = Len(jobBatch) - 1
        /\ Len(jobBatch) \in Nat /\ Len(jobBatch) <= MaxWallets
    BY <1>3 DEF RefreshNext, JobTypeOK
  <2>2. Len(Tail(jobBatch)) <= MaxWallets
    BY <2>1, AutoRefreshAssumption
  <2> QED BY <1>3, <2>1, <2>2 DEF RefreshNext, JobTypeOK
<1>4. CASE EndJob
  BY <1>4 DEF EndJob, JobTypeOK
<1>5. ASSUME NEW w \in Wallets, ManualRefresh(w)  PROVE JobTypeOK'
  BY <1>5, CheckedNowSorted DEF ManualRefresh, JobTypeOK
<1>6. ASSUME NEW w \in Wallets, SetArchived(w)  PROVE JobTypeOK'
  BY <1>6 DEF SetArchived, JobTypeOK
<1>7. CASE UNCHANGED jobVars
  BY <1>7 DEF jobVars, JobTypeOK, Sorted
<1> QED BY <1>1, <1>2, <1>3, <1>4, <1>5, <1>6, <1>7 DEF JobNext

\* The order always has every wallet once, also when refreshes move them, and the batch
\* never exceeds the limit (_auto_refresh_wallets in app/main.py).
THEOREM JobTypeCorrect == JobSpec => []JobTypeOK
  BY JobTypeInit, JobTypeStep, PTL DEF JobSpec
-----------------------------------------------------------------------------
(* All of them *)

\* Every variable of the four parts has its type, whatever the parts do.
THEOREM ProcessTypeCorrect == Spec => []TypesOK
<1> DEFINE Inv == JobTypeOK /\ PagingTypeOK /\ QueueInv /\ StartInv
<1>1. Init => Inv
  BY JobTypeInit, PagingTypeInit, QueueInvInit, StartInvInit DEF Init
<1>2. Inv /\ [Next]_allVars => Inv'
  <2>1. [Next]_allVars => /\ [JobNext]_jobVars /\ [PagingNext]_pagingVars
                          /\ [QueueNext]_queueVars /\ [StartupNext]_startupVars
    BY DEF Next, allVars
  <2> QED BY <2>1, JobTypeStep, PagingTypeStep, QueueInvStep, StartInvStep
<1>3. Inv => TypesOK
  BY DEF TypesOK, QueueInv, StartInv
<1> QED BY <1>1, <1>2, <1>3, PTL DEF Spec
=============================================================================
