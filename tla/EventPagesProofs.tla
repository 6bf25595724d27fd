------------------------- MODULE EventPagesProofs -------------------------
(***************************************************************************)
(* For any parts, pages, retries, answers and faults: a fight whose events *)
(* count has every page once, and one that was fetched whole is not asked  *)
(* for again.                                                              *)
(*                                                                         *)
(* There are two reasons for the first, and the code needs one of them.    *)
(* Where answers have all that was asked for, the parts move on together:  *)
(* where they are says which are done and what any file for these pages    *)
(* contains, so it does not matter which files are lost.  Where parts may  *)
(* be null in an answer, but no file was ever lost, the files are in line: *)
(* each leads to the next, none has a part that one before it has ended,   *)
(* and a query is asked from the end of the line only.  A line that ends   *)
(* in a file that leads nowhere is the end of all questions: a replay ends *)
(* there, with all parts or never.                                         *)
(***************************************************************************)
EXTENDS EventPages, SequenceTheorems, FiniteSetTheorems, TLAPS

\* The first n pages.
First(n) == [i \in 1 .. n |-> i - 1]

\* Each part has the pages before the one it is asked from, and that one if it was
\* the last.
GotSoFar ==
    \A p \in Parts : got[p] = First(IF p \in partDone THEN start[p] + 1 ELSE start[p])

\* What holds in every world.
Progress ==
    /\ pc \in {"replay", "call"} => ~done
    /\ \A p \in partDone : IsLast(p)
    /\ doneEvents => done /\ partDone = Parts
    /\ whole => faults = 0

-----------------------------------------------------------------------------
(* Answers that have all that was asked for: the k-th asks all parts that have a     *)
(* k-th page for it.                                                                 *)

At(k)   == [p \in Parts |-> IF k < Pages[p] THEN k ELSE Pages[p] - 1]
Over(k) == {p \in Parts : Pages[p] <= k}
Due(k)  == k = 0 \/ Over(k) # Parts

InStep ==
    /\ \E k \in Nat : start = At(k) /\ partDone = Over(k) /\ (done \/ Due(k))
    /\ \A file \in DOMAIN cache :
         \E k \in Nat : file = At(k) /\ Due(k) /\ cache[file] = Parts \ Over(k)
    /\ GotSoFar

-----------------------------------------------------------------------------
(* Files that were never lost. *)

Files == DOMAIN cache

UpTo(j, k) == \A p \in Parts : j[p] <= k[p]

\* Where a file leads, and the parts that it ends.
After(k) ==
    [p \in Parts |-> IF p \in cache[k] /\ k[p] + 1 # Pages[p] THEN k[p] + 1 ELSE k[p]]
Ends(k) == {p \in cache[k] : k[p] + 1 = Pages[p]}

LeadsTo(j, k) == After(j) # j /\ UpTo(After(j), k)
Behind(j, k)  == j # k /\ UpTo(j, k)

\* Of two files one leads to the other and has ended nothing that the other has.
FilesInLine ==
    /\ \A j, k \in Files : j # k => LeadsTo(j, k) \/ LeadsTo(k, j)
    /\ \A j, k \in Files : Behind(j, k) => Ends(j) \cap cache[k] = {}
    /\ \A k \in Files : After(k) \in Files \/ \A j \in Files : UpTo(After(j), After(k))
    /\ Files # {} => Unfetched \in Files

Reached == start = Unfetched \/ \E j \in Files : start = After(j)

\* A replay that adds a file again that leads nowhere: it never ends.
Turns ==
    /\ pc = "replay" /\ start \in Files /\ After(start) = start
    /\ cache[start] \subseteq partDone /\ partDone # Parts

\* A replay has added the files behind it, and no other.
Replays ==
    pc = "replay" /\ ~Turns =>
        /\ \A j \in Files : LeadsTo(j, start) \/ UpTo(start, j)
        /\ start \in Files \/ \A j \in Files : UpTo(After(j), start)
        /\ \A p \in partDone : \E j \in Files : Behind(j, start) /\ p \in Ends(j)
        /\ \A j \in Files : Behind(j, start) => Ends(j) \subseteq partDone

\* Queries are asked from the end of the line.
AsksAtEnd ==
    pc \in {"round", "call"} /\ ~done =>
        \A j \in Files :
            /\ UpTo(After(j), start)
            /\ After(j) = j => j = start
            /\ j # start => Ends(j) \subseteq partDone

\* A file leads nowhere: it ends the line.
Closed == \E k \in Files : After(k) = k

InLine ==
    /\ FilesInLine /\ Replays /\ AsksAtEnd
    /\ pc \in {"replay", "round", "call"} => Reached
    /\ Turns \/ GotSoFar
    /\ pc = "round" /\ doneEvents => Closed

\* The line of a fight that was fetched whole has its end.
StaysWhole == whole => Closed /\ pc # "call" /\ (pc = "round" => done)

\* Between two pages the retries are counted, so each page that came has paid for
\* MaxRetries calls.
CallsEarned == calls <= MaxRetries * Cardinality(PagesBefore(start)) + retries

EventsInv ==
    /\ EventsTypeOK /\ Progress /\ CallsEarned
    /\ world.nullable = {} => InStep
    /\ faults = 0 => InLine
    /\ StaysWhole

-----------------------------------------------------------------------------
(* Pages in a row, and an answer that adds one to each of its parts. *)

LEMMA FirstPages ==
    ASSUME NEW n \in Nat
    PROVE  /\ First(n) \in Seq(Nat) /\ Len(First(n)) = n
           /\ Append(First(n), n) = First(n + 1)
  <1>1. First(n) \in Seq(Nat) /\ Len(First(n)) = n
    BY DEF First
  <1>2. First(n + 1) \in Seq(Nat) /\ Len(First(n + 1)) = n + 1
    BY DEF First
  <1>3. Append(First(n), n) \in Seq(Nat) /\ Len(Append(First(n), n)) = n + 1
    BY <1>1
  <1>4. ASSUME NEW i \in 1 .. n + 1 PROVE Append(First(n), n)[i] = First(n + 1)[i]
    BY <1>1 DEF First
  <1> QED
    BY <1>1, <1>2, <1>3, <1>4, SeqEqual

LEMMA NoPages == First(0) = << >>
  <1>1. First(0) \in Seq(Nat) /\ Len(First(0)) = 0
    BY FirstPages
  <1> QED
    BY <1>1, EmptySeq

\* What an answer does to the pages of a part.
LEMMA PageAdded ==
    ASSUME EventsTypeOK, NEW p \in Parts
    PROVE  /\ WithPage(p) \in Seq(Nat)
           /\ got[p] = First(start[p]) => WithPage(p) = First(start[p] + 1)
  <1> USE EventsAssumption
  <1>1. start[p] \in Nat /\ start[p] < Pages[p] /\ Pages[p] \in Nat /\ got[p] \in Seq(Nat)
    BY DEF EventsTypeOK
  <1>2. Append(got[p], start[p]) \in Seq(Nat)
    BY <1>1
  <1>3. ASSUME Len(got[p]) >= Pages[p] + 2 PROVE SubSeq(got[p], 1, Pages[p] + 1) \in Seq(Nat)
    BY <1>1, <1>3
  <1>4. Len(got[p]) \in Nat
    BY <1>1
  <1>5. ASSUME got[p] = First(start[p]) PROVE WithPage(p) = First(start[p] + 1)
    <2>1. Len(got[p]) = start[p] /\ Append(got[p], start[p]) = First(start[p] + 1)
      BY <1>1, <1>5, FirstPages
    <2>2. Len(got[p]) < Pages[p] + 2
      BY <1>1, <2>1
    <2> QED
      BY <2>1, <2>2 DEF WithPage
  <1> QED
    BY <1>1, <1>2, <1>3, <1>4, <1>5 DEF WithPage

LEMMA AnswerAdded ==
    ASSUME EventsTypeOK, Progress, NEW A, A \subseteq Parts, AddPages(A)
    PROVE  /\ start' = [p \in Parts |-> IF p \in A /\ ~IsLast(p) THEN start[p] + 1 ELSE start[p]]
           /\ start' \in [Parts -> Nat] /\ \A p \in Parts : start'[p] < Pages[p]
           /\ partDone' = partDone \cup {p \in A : IsLast(p)}
           /\ partDone' \subseteq Parts /\ \A p \in partDone' : IsLast(p)'
           /\ got' \in [Parts -> Seq(Nat)]
           /\ retries' \in {0, retries}
           /\ done' = (done \/ partDone' = Parts)
           /\ doneEvents' = (doneEvents \/ (~done /\ partDone' = Parts))
           /\ GotSoFar /\ A \cap partDone = {} => GotSoFar'
  <1> USE EventsAssumption
  <1>1. /\ start' = [p \in Parts |-> IF p \in A /\ ~IsLast(p) THEN start[p] + 1 ELSE start[p]]
        /\ partDone' = partDone \cup {p \in A : IsLast(p)}
        /\ got' = [p \in Parts |-> IF p \in A THEN WithPage(p) ELSE got[p]]
        /\ retries' \in {0, retries}
        /\ done' = (done \/ partDone' = Parts)
        /\ doneEvents' = (doneEvents \/ (~done /\ partDone' = Parts))
    BY DEF AddPages, Renewed
  <1>2. start' \in [Parts -> Nat] /\ \A p \in Parts : start'[p] < Pages[p]
    BY <1>1 DEF EventsTypeOK, IsLast
  <1>3. partDone' \subseteq Parts /\ \A p \in partDone' : IsLast(p)'
    BY <1>1 DEF EventsTypeOK, Progress, IsLast
  <1>4. got' \in [Parts -> Seq(Nat)]
    BY <1>1, PageAdded DEF EventsTypeOK
  <1>5. ASSUME GotSoFar, A \cap partDone = {} PROVE GotSoFar'
    <2> SUFFICES ASSUME NEW p \in Parts
                 PROVE  got'[p] = First(IF p \in partDone' THEN start'[p] + 1 ELSE start'[p])
      BY DEF GotSoFar
    <2>1. CASE p \in A
      <3>1. got'[p] = First(start[p] + 1)
        BY <1>1, <1>5, <2>1, PageAdded DEF GotSoFar
      <3> QED
        BY <1>1, <1>5, <2>1, <3>1
    <2>2. CASE p \notin A
      BY <1>1, <1>5, <2>2 DEF GotSoFar
    <2> QED
      BY <2>1, <2>2
  <1> QED
    BY <1>1, <1>2, <1>3, <1>4, <1>5

LEMMA AnswerTyped ==
    ASSUME EventsTypeOK, Progress, NEW A, A \subseteq Parts, AddPages(A)
    PROVE  retries' \in 0 .. MaxRetries /\ done' \in BOOLEAN /\ doneEvents' \in BOOLEAN
  <1>1. retries' \in 0 .. MaxRetries
    <2>1. retries' \in {0, retries}
      BY AnswerAdded
    <2> QED
      BY <2>1, EventsAssumption DEF EventsTypeOK
  <1>2. /\ done' = (done \/ partDone' = Parts)
        /\ doneEvents' = (doneEvents \/ (~done /\ partDone' = Parts))
    BY AnswerAdded
  <1> QED
    BY <1>1, <1>2, Zenon

LEMMA FilesTyped ==
    ASSUME EventsTypeOK
    PROVE  /\ start \in [Parts -> Nat] /\ Unfetched \in [Parts -> Nat]
           /\ \A k \in Files : k \in [Parts -> Nat] /\ cache[k] \subseteq Parts
  BY DEF EventsTypeOK, Files, Unfetched

\* What a fault, or none, does to its count and to the history.
LEMMA Counting ==
    ASSUME EventsTypeOK, Progress, UNCHANGED <<faults, whole>> \/ Fault
    PROVE  /\ faults' \in 0 .. world.faults /\ whole' \in BOOLEAN
           /\ whole' => whole /\ faults' = 0 /\ UNCHANGED <<faults, whole>>
           /\ faults' = 0 => faults = 0 /\ ~Fault
  <1>1. world.faults \in Nat /\ faults \in 0 .. world.faults
    BY EventsAssumption DEF EventsTypeOK
  <1>2. CASE UNCHANGED <<faults, whole>> /\ ~Fault
    <2>1. faults' \in 0 .. world.faults
      BY <1>1, <1>2
    <2>2. whole' \in BOOLEAN
      BY <1>2 DEF EventsTypeOK
    <2> QED
      BY <1>2, <2>1, <2>2 DEF Progress
  <1>3. CASE Fault
    <2>1. whole' = FALSE
      BY <1>3 DEF Fault
    <2>2. faults' \in 0 .. world.faults /\ faults' # 0
      BY <1>1, <1>3 DEF Fault
    <2> QED
      BY <2>1, <2>2
  <1> QED
    BY <1>2, <1>3

\* What saving an answer may do to the files.
LEMMA Saved ==
    ASSUME NEW A, A \subseteq Parts, EventsTypeOK, SaveAnswer(A)
    PROVE  /\ Files' \subseteq Files \cup {start}
           /\ \A k \in Files' : k \in [Parts -> Nat] /\ cache'[k] \subseteq Parts
           /\ \A k \in Files' : \/ k \in Files /\ cache'[k] = cache[k]
                                \/ k = start /\ cache'[k] = A
           /\ UNCHANGED <<faults, whole>> \/ Fault
           /\ ~Fault => cache' = Stored(A)
  <1>1. /\ start \in [Parts -> Nat]
        /\ \A k \in Files : k \in [Parts -> Nat] /\ cache[k] \subseteq Parts
    BY FilesTyped
  <1>2. CASE cache' = Stored(A)
    <2>1. /\ Files' = Files \cup {start}
          /\ \A k \in Files' : cache'[k] = IF k = start THEN A ELSE cache[k]
      BY <1>2 DEF Stored, Key, Files
    <2>2. \A k \in Files' : k \in [Parts -> Nat] /\ cache'[k] \subseteq Parts
      BY <1>1, <2>1
    <2>3. UNCHANGED <<faults, whole>> \/ Fault
      BY Zenon DEF SaveAnswer
    <2>4. \A k \in Files' : (k \in Files /\ cache'[k] = cache[k]) \/ (k = start /\ cache'[k] = A)
      BY <2>1
    <2> QED
      BY <1>2, <2>1, <2>2, <2>3, <2>4, Zenon
  <1>3. CASE cache' \in {cache, WithoutKey} /\ Fault
    <2>1. Files' \subseteq Files /\ \A k \in Files' : cache'[k] = cache[k]
      BY <1>3 DEF WithoutKey, Restrict, Files
    <2>2. \A k \in Files' : k \in [Parts -> Nat] /\ cache'[k] \subseteq Parts
      BY <1>1, <2>1
    <2>3. /\ Files' \subseteq Files \cup {start}
          /\ \A k \in Files' : (k \in Files /\ cache'[k] = cache[k]) \/ (k = start /\ cache'[k] = A)
      BY <2>1
    <2> QED
      BY <1>3, <2>2, <2>3, Zenon
  <1> QED
    BY <1>2, <1>3 DEF SaveAnswer

-----------------------------------------------------------------------------
(* Types, and what holds in every world. *)

LEMMA EventsStart == Init => EventsTypeOK /\ Progress
  <1> SUFFICES ASSUME Init PROVE EventsTypeOK /\ Progress
    OBVIOUS
  <1> USE EventsAssumption
  <1>1. start \in [Parts -> Nat] /\ \A p \in Parts : start[p] < Pages[p]
    BY DEF Init, Unfetched
  <1>2. DOMAIN cache = {}
    BY DEF Init
  <1>3. retries \in 0 .. MaxRetries /\ faults \in 0 .. world.faults /\ world \in Worlds
    BY DEF Init
  <1>4. EventsTypeOK
    <2>1. /\ pc = "idle" /\ partDone = {} /\ done = FALSE /\ doneEvents = FALSE /\ whole = FALSE
          /\ calls = 0
      BY DEF Init
    <2>2. got \in [Parts -> Seq(Nat)]
      BY DEF Init
    <2> QED
      BY <1>1, <1>2, <1>3, <2>1, <2>2 DEF EventsTypeOK
  <1>5. Progress
    BY DEF Init, Progress
  <1> QED
    BY <1>4, <1>5

LEMMA HitKeepsTypes ==
    ASSUME EventsTypeOK, Progress, ReplayHit PROVE EventsTypeOK' /\ Progress'
  <1> USE EventsAssumption
  <1>1. start \in DOMAIN cache /\ cache[start] \subseteq Parts /\ AddPages(cache[start])
    BY DEF ReplayHit, Key, EventsTypeOK
  <1>2. /\ pc = "replay" /\ pc' \in {"round", "replay"} /\ (pc' = "replay" => ~done')
        /\ UNCHANGED <<world, cache, faults, calls, whole>>
    BY DEF ReplayHit
  <1>3. retries' \in 0 .. MaxRetries /\ done' \in BOOLEAN /\ doneEvents' \in BOOLEAN
    BY <1>1, AnswerTyped
  <1>4. EventsTypeOK'
    BY <1>1, <1>2, <1>3, AnswerAdded DEF EventsTypeOK
  <1>5. Progress'
    BY <1>1, <1>2, AnswerAdded DEF Progress
  <1> QED
    BY <1>4, <1>5

LEMMA AnswerKeepsTypes ==
    ASSUME EventsTypeOK, Progress, Answer PROVE EventsTypeOK' /\ Progress'
  <1> USE EventsAssumption
  <1>1. PICK missing \in SUBSET (world.nullable \ partDone) :
           SaveAnswer((Parts \ partDone) \ missing) /\ AddPages((Parts \ partDone) \ missing)
    BY DEF Answer
  <1> DEFINE A == (Parts \ partDone) \ missing
  <1>2. A \subseteq Parts /\ SaveAnswer(A) /\ AddPages(A)
    BY <1>1
  <1> HIDE DEF A
  <1>3. pc = "call" /\ pc' = "round" /\ world' = world /\ calls' = calls
    BY DEF Answer
  <1>4. retries' \in 0 .. MaxRetries /\ done' \in BOOLEAN /\ doneEvents' \in BOOLEAN
    BY <1>2, AnswerTyped
  <1>5. EventsTypeOK'
    <2>1. \A k \in DOMAIN cache' : k \in [Parts -> Nat] /\ cache'[k] \subseteq Parts
      BY <1>2, Saved DEF Files
    <2>2. faults' \in 0 .. world.faults /\ whole' \in BOOLEAN
      BY <1>2, Saved, Counting
    <2> QED
      BY <1>2, <1>3, <1>4, <2>1, <2>2, AnswerAdded DEF EventsTypeOK
  <1>6. Progress'
    <2>1. whole' => faults' = 0
      BY <1>2, Saved, Counting
    <2> QED
      BY <1>2, <1>3, <2>1, AnswerAdded DEF Progress
  <1> QED
    BY <1>5, <1>6

LEMMA OtherKeepTypes ==
    ASSUME EventsTypeOK, Progress,
           \/ Begin \/ ReplayMiss \/ Ask \/ AnswerNull \/ NoAnswer \/ CallFails \/ Settle
           \/ UNCHANGED vars
    PROVE  EventsTypeOK' /\ Progress'
  <1> USE EventsAssumption
  <1>1. CASE Begin
    <2>1. start' \in [Parts -> Nat] /\ \A p \in Parts : start'[p] < Pages[p]
      BY <1>1 DEF Begin, Unfetched
    <2>2. retries' \in 0 .. MaxRetries /\ calls' \in Nat /\ got' \in [Parts -> Seq(Nat)]
      BY <1>1 DEF Begin
    <2>3. UNCHANGED <<world, cache, faults, whole>> /\ partDone' = {} /\ ~done' /\ ~doneEvents'
          /\ done' \in BOOLEAN /\ doneEvents' \in BOOLEAN /\ pc' = "replay"
      BY <1>1 DEF Begin
    <2>4. EventsTypeOK'
      BY <2>1, <2>2, <2>3 DEF EventsTypeOK
    <2> QED
      BY <2>3, <2>4 DEF Progress
  <1>2. CASE ReplayMiss
    <2>1. /\ pc' = "round" /\ UNCHANGED <<world, fight, cache, calls>>
          /\ UNCHANGED <<faults, whole>> \/ Fault
      BY <1>2 DEF ReplayMiss
    <2>2. faults' \in 0 .. world.faults /\ whole' \in BOOLEAN /\ (whole' => faults' = 0)
      BY <2>1, Counting
    <2> QED
      BY <2>1, <2>2 DEF EventsTypeOK, Progress, fight, IsLast
  <1>3. CASE Ask
    BY <1>3 DEF Ask, Counted, MayAsk, EventsTypeOK, Progress, IsLast
  <1>4. CASE AnswerNull
    BY <1>4 DEF AnswerNull, GiveUpReport, EventsTypeOK, Progress, IsLast
  <1>7. CASE NoAnswer \/ CallFails
    BY <1>7 DEF NoAnswer, CallFails, EventsTypeOK, Progress, IsLast, fight
  <1>5. CASE Settle
    BY <1>5 DEF Settle, Outcome, EventsTypeOK, Progress, IsLast, fight
  <1>6. CASE UNCHANGED vars
    BY <1>6 DEF vars, fight, EventsTypeOK, Progress, IsLast
  <1> QED
    BY <1>1, <1>2, <1>3, <1>4, <1>5, <1>6, <1>7

LEMMA TypesKept ==
    ASSUME EventsTypeOK, Progress, [Next]_vars PROVE EventsTypeOK' /\ Progress'
  BY HitKeepsTypes, AnswerKeepsTypes, OtherKeepTypes DEF Next, Step

-----------------------------------------------------------------------------
(* Where answers have all that was asked for. *)

LEMMA OneRound ==
    ASSUME NEW j \in Nat, NEW k \in Nat, Due(j), Due(k), At(j) = At(k) PROVE j = k
  <1> USE EventsAssumption
  <1>1. ASSUME NEW m \in Nat, NEW n \in Nat, m < n, Due(n) PROVE At(m) # At(n)
    <2>1. PICK p \in Parts : Pages[p] > n
      BY <1>1 DEF Due, Over
    <2>2. At(m)[p] = m /\ At(n)[p] = n
      BY <1>1, <2>1 DEF At
    <2> QED
      BY <1>1, <2>2
  <1> QED
    BY <1>1

LEMMA AllAnswered ==
    ASSUME EventsTypeOK, Progress, GotSoFar, ~done, NEW k \in Nat,
           start = At(k), partDone = Over(k),
           AddPages(Parts \ Over(k))
    PROVE  start' = At(k + 1) /\ partDone' = Over(k + 1) /\ (done' \/ Due(k + 1)) /\ GotSoFar'
  <1> USE EventsAssumption
  <1>1. \A p \in Parts : p \notin Over(k) => At(k)[p] = k
    BY DEF At, Over
  <1>2. start' = At(k + 1)
    <2>1. start' = [p \in Parts |-> IF p \in Parts \ Over(k) /\ ~IsLast(p)
                                      THEN start[p] + 1 ELSE start[p]]
      BY AnswerAdded
    <2> SUFFICES ASSUME NEW p \in Parts PROVE start'[p] = At(k + 1)[p]
      BY <2>1 DEF At
    <2> QED
      BY <1>1, <2>1 DEF At, Over, IsLast
  <1>3. partDone' = Over(k + 1)
    <2>1. partDone' = Over(k) \cup {p \in Parts \ Over(k) : IsLast(p)}
      BY AnswerAdded
    <2>2. \A p \in Parts \ Over(k) : IsLast(p) <=> k + 1 = Pages[p]
      BY <1>1 DEF IsLast
    <2> QED
      BY <2>1, <2>2 DEF Over
  <1>4. done' \/ Due(k + 1)
    <2>1. partDone' = Parts => done'
      BY AnswerAdded
    <2> QED
      BY <1>3, <2>1 DEF Due
  <1>5. GotSoFar'
    BY AnswerAdded
  <1> QED
    BY <1>2, <1>3, <1>4, <1>5

LEMMA StepStart == Init => InStep
  <1> SUFFICES ASSUME Init PROVE InStep
    OBVIOUS
  <1>1. start = At(0) /\ partDone = Over(0) /\ Due(0)
    BY EventsAssumption DEF Init, Unfetched, At, Over, Due
  <1>2. GotSoFar
    BY NoPages DEF Init, Unfetched, GotSoFar
  <1> QED
    BY <1>1, <1>2 DEF Init, InStep

LEMMA StepKept ==
    ASSUME EventsTypeOK, Progress, world.nullable = {}, InStep, [Next]_vars
    PROVE  InStep'
  <1>1. PICK k \in Nat : start = At(k) /\ partDone = Over(k) /\ (done \/ Due(k))
    BY DEF InStep
  <1>2. CASE Begin
    <2>1. start' = At(0) /\ partDone' = Over(0) /\ Due(0) /\ cache' = cache
      BY <1>2, EventsAssumption DEF Begin, Unfetched, At, Over, Due
    <2>2. GotSoFar'
      BY <1>2, NoPages DEF Begin, Unfetched, GotSoFar
    <2> QED
      BY <2>1, <2>2 DEF InStep
  <1>3. CASE ReplayHit
    <2>1. /\ start \in DOMAIN cache /\ AddPages(cache[start]) /\ ~done /\ cache' = cache
      BY <1>3 DEF ReplayHit, Key, Progress
    <2>2. cache[start] = Parts \ Over(k)
      BY <1>1, <2>1, OneRound DEF InStep
    <2>3. /\ start' = At(k + 1) /\ partDone' = Over(k + 1) /\ (done' \/ Due(k + 1)) /\ GotSoFar'
      BY <1>1, <2>1, <2>2, AllAnswered DEF InStep
    <2> QED
      BY <2>1, <2>3 DEF InStep
  <1>4. CASE Answer
    <2>1. ~done /\ SaveAnswer(Parts \ Over(k)) /\ AddPages(Parts \ Over(k))
      BY <1>1, <1>4 DEF Answer, Progress
    <2>2. /\ start' = At(k + 1) /\ partDone' = Over(k + 1) /\ (done' \/ Due(k + 1)) /\ GotSoFar'
      BY <1>1, <2>1, AllAnswered DEF InStep
    <2>3. \A file \in DOMAIN cache' :
            \/ file \in DOMAIN cache /\ cache'[file] = cache[file]
            \/ file = start /\ cache'[file] = Parts \ Over(k)
      BY <2>1, Saved DEF Files
    <2>4. \A file \in DOMAIN cache' :
            \E n \in Nat : file = At(n) /\ Due(n) /\ cache'[file] = Parts \ Over(n)
      BY <1>1, <2>1, <2>3 DEF InStep
    <2> QED
      BY <2>2, <2>4 DEF InStep
  <1>5. CASE \/ ReplayMiss \/ Ask \/ AnswerNull \/ NoAnswer \/ CallFails \/ Settle
             \/ UNCHANGED vars
    <2>1. UNCHANGED <<start, partDone, got, cache>> /\ (done => done')
      BY <1>5
      DEF ReplayMiss, Ask, AnswerNull, GiveUpReport, NoAnswer, CallFails, Settle, vars, fight
    <2> QED
      BY <1>1, <2>1 DEF InStep, GotSoFar
  <1> QED
    BY <1>2, <1>3, <1>4, <1>5 DEF Next, Step

-----------------------------------------------------------------------------
(* Where no file was lost. *)

LEMMA UpToOrder ==
    ASSUME NEW i \in [Parts -> Nat], NEW j \in [Parts -> Nat], NEW k \in [Parts -> Nat]
    PROVE  /\ UpTo(i, i) /\ UpTo(Unfetched, i)
           /\ UpTo(i, j) /\ UpTo(j, k) => UpTo(i, k)
           /\ UpTo(i, j) /\ UpTo(j, i) => i = j
  BY DEF UpTo, Unfetched

LEMMA AfterTyped ==
    ASSUME EventsTypeOK
    PROVE  \A k \in Files : After(k) \in [Parts -> Nat] /\ UpTo(k, After(k))
  BY FilesTyped DEF After, UpTo

LEMMA LineStart == Init => InLine /\ StaysWhole
  <1> SUFFICES ASSUME Init PROVE InLine /\ StaysWhole
    OBVIOUS
  <1>1. GotSoFar
    BY NoPages DEF Init, Unfetched, GotSoFar
  <1> QED
    BY <1>1
    DEF Init, InLine, FilesInLine, Replays, AsksAtEnd, StaysWhole, Files

LEMMA LineBegins ==
    ASSUME EventsTypeOK, InLine, Begin PROVE InLine'
  <1>1. /\ pc' = "replay" /\ start' = Unfetched /\ partDone' = {} /\ cache' = cache
        /\ got' = [p \in Parts |-> << >>]
    BY DEF Begin
  <1>2. GotSoFar'
    BY <1>1, NoPages DEF Unfetched, GotSoFar
  <1>3. FilesInLine'
    BY <1>1 DEF InLine, FilesInLine, LeadsTo, Behind, UpTo, After, Ends, Files
  <1>4. Replays'
    <2>1. \A j \in Files : UpTo(Unfetched, j) /\ ~Behind(j, Unfetched)
      BY FilesTyped, UpToOrder DEF Behind
    <2>2. Unfetched \in Files \/ Files = {}
      BY DEF InLine, FilesInLine
    <2> QED
      BY <1>1, <2>1, <2>2 DEF Replays, LeadsTo, Behind, UpTo, After, Ends, Files
  <1> QED
    BY <1>1, <1>2, <1>3, <1>4 DEF InLine, AsksAtEnd, Reached

\* A replay adds the file where it is.
LEMMA LineReplayed ==
    ASSUME EventsTypeOK, Progress, InLine, ReplayHit PROVE InLine'
  <1>1. /\ pc = "replay" /\ start \in Files
        /\ cache[start] \subseteq Parts /\ AddPages(cache[start])
        /\ pc' = (IF done' THEN "round" ELSE "replay") /\ cache' = cache /\ ~done /\ ~doneEvents
    BY FilesTyped DEF ReplayHit, Key, Files, Progress
  <1>2. start' = After(start) /\ partDone' = partDone \cup Ends(start)
    BY <1>1, AnswerAdded DEF After, Ends, IsLast
  <1>3. /\ done' = (partDone' = Parts) /\ doneEvents' = (partDone' = Parts)
    BY <1>1, AnswerAdded
  <1>4. /\ FilesInLine' /\ Reached'
        /\ \A k \in Files : After(k)' = After(k) /\ Ends(k)' = Ends(k)
        /\ Files' = Files
    BY <1>1, <1>2 DEF InLine, FilesInLine, Reached, LeadsTo, Behind, UpTo, After, Ends, Files
  <1>5. CASE Turns
    <2>1. start' = start /\ partDone' = partDone /\ ~done'
      BY <1>2, <1>3, <1>5 DEF Turns, Ends
    <2>2. Turns'
      BY <1>1, <1>4, <1>5, <2>1 DEF Turns
    <2> QED
      BY <1>1, <1>4, <2>1, <2>2 DEF InLine, Replays, AsksAtEnd
  <1>6. CASE ~Turns
    <2> USE <1>6
    <2>1. cache[start] \cap partDone = {}
      BY <1>1 DEF InLine, FilesInLine, Replays
    <2>2. GotSoFar'
      BY <1>1, <2>1, AnswerAdded DEF InLine
    <2>3. CASE done'
      <3>1. partDone' = Parts
        BY <1>3, <2>3
      <3>2. \A p \in Parts : p \in partDone \/ p \in Ends(start)
        BY <1>2, <3>1
      <3>3. \A p \in cache[start] : start[p] + 1 = Pages[p]
        BY <1>1, <3>2 DEF Ends, Progress, IsLast
      <3>4. After(start) = start
        BY <3>3, FilesTyped DEF After
      <3>5. Closed'
        BY <1>1, <1>4, <3>4 DEF Closed
      <3> QED
        BY <1>1, <1>4, <2>2, <2>3, <3>5 DEF InLine, Replays, AsksAtEnd
    <2>4. CASE ~done' /\ After(start) = start
      <3>1. Turns'
        <4>1. cache[start] \subseteq partDone'
          <5>1. start \in [Parts -> Nat] /\ cache[start] \subseteq Parts
            BY <1>1, FilesTyped
          <5>2. \A p \in cache[start] : start[p] + 1 = Pages[p]
            BY <2>4, <5>1 DEF After
          <5> QED
            BY <1>2, <5>2 DEF Ends
        <4> QED
          BY <1>1, <1>2, <1>3, <1>4, <2>4, <4>1 DEF Turns
      <3> QED
        BY <1>1, <1>4, <2>2, <2>4, <3>1 DEF InLine, Replays, AsksAtEnd
    <2>5. CASE ~done' /\ After(start) # start
      <3>1. /\ \A j \in Files : LeadsTo(j, start) \/ UpTo(start, j)
            /\ \A p \in partDone : \E j \in Files : Behind(j, start) /\ p \in Ends(j)
            /\ \A j \in Files : Behind(j, start) => Ends(j) \subseteq partDone
        BY <1>1 DEF InLine, Replays
      <3>2. /\ start \in [Parts -> Nat] /\ After(start) \in [Parts -> Nat]
            /\ UpTo(start, After(start))
            /\ \A j \in Files : /\ j \in [Parts -> Nat] /\ After(j) \in [Parts -> Nat]
                                /\ UpTo(j, After(j))
        BY <1>1, FilesTyped, AfterTyped
      <3>3. \A j \in Files : \/ j = start
                             \/ LeadsTo(j, start) /\ Behind(j, start)
                             \/ UpTo(After(start), j) /\ j # start
        <4> SUFFICES ASSUME NEW j \in Files, j # start
                     PROVE  (LeadsTo(j, start) /\ Behind(j, start)) \/ UpTo(After(start), j)
          OBVIOUS
        <4>1. LeadsTo(j, start) => Behind(j, start)
          BY <3>2, UpToOrder DEF LeadsTo, Behind
        <4> QED
          BY <1>1, <4>1 DEF InLine, FilesInLine, LeadsTo
      <3>4. \A j \in Files : LeadsTo(j, After(start)) \/ UpTo(After(start), j)
        <4> SUFFICES ASSUME NEW j \in Files PROVE LeadsTo(j, After(start)) \/ UpTo(After(start), j)
          OBVIOUS
        <4>1. CASE j = start
          BY <2>5, <3>2, <4>1, UpToOrder DEF LeadsTo
        <4>2. CASE LeadsTo(j, start)
          BY <3>2, <4>2, UpToOrder DEF LeadsTo
        <4> QED
          BY <3>3, <4>1, <4>2
      <3>5. \A j \in Files : Behind(j, After(start)) <=> Behind(j, start) \/ j = start
        <4> SUFFICES ASSUME NEW j \in Files
                     PROVE  Behind(j, After(start)) <=> Behind(j, start) \/ j = start
          OBVIOUS
        <4>1. CASE j = start
          BY <2>5, <3>2, <4>1 DEF Behind
        <4>2. CASE Behind(j, start)
          BY <2>5, <3>2, <4>2, UpToOrder DEF Behind
        <4>3. CASE UpTo(After(start), j) /\ j # start
          BY <2>5, <3>2, <4>3, UpToOrder DEF Behind
        <4> QED
          BY <3>3, <4>1, <4>2, <4>3
      <3>6. \/ After(start) \in Files
            \/ \A j \in Files : UpTo(After(j), After(start))
        BY <1>1 DEF InLine, FilesInLine
      <3>7. \A p \in partDone' : \E j \in Files : Behind(j, After(start)) /\ p \in Ends(j)
        BY <1>1, <1>2, <3>1, <3>5
      <3>8. \A j \in Files : Behind(j, After(start)) => Ends(j) \subseteq partDone'
        BY <1>2, <3>1, <3>5
      <3>9. Replays'
        BY <1>2, <1>4, <3>4, <3>6, <3>7, <3>8 DEF Replays, LeadsTo, Behind, UpTo
      <3> QED
        BY <1>1, <1>4, <2>2, <2>5, <3>9 DEF InLine, AsksAtEnd
    <2> QED
      BY <2>3, <2>4, <2>5
  <1> QED
    BY <1>5, <1>6

\* It ends where there is no file.
LEMMA LineLeft ==
    ASSUME EventsTypeOK, Progress, InLine, ReplayMiss, start \notin Files PROVE InLine'
  <1>1. /\ pc = "replay" /\ pc' = "round" /\ ~done /\ ~doneEvents
        /\ UNCHANGED <<start, partDone, done, doneEvents, got, cache>>
    BY DEF ReplayMiss, fight, Progress
  <1>2. FilesInLine' /\ Reached' /\ GotSoFar'
    BY <1>1 DEF InLine, Turns, FilesInLine, Reached, GotSoFar, LeadsTo, Behind, UpTo, After,
           Ends, Files
  <1>3. ASSUME NEW j \in Files
        PROVE  UpTo(After(j), start) /\ After(j) # j /\ Ends(j) \subseteq partDone
    <2>1. /\ LeadsTo(j, start) \/ UpTo(start, j)
          /\ UpTo(After(j), start) /\ (Behind(j, start) => Ends(j) \subseteq partDone)
      BY <1>1 DEF InLine, Replays, Turns
    <2>2. /\ j \in [Parts -> Nat] /\ start \in [Parts -> Nat] /\ After(j) \in [Parts -> Nat]
          /\ UpTo(j, After(j)) /\ j # start
      BY FilesTyped, AfterTyped
    <2>3. UpTo(j, start)
      BY <2>1, <2>2, UpToOrder
    <2>4. After(j) # j
      BY <2>1, <2>2, <2>3, UpToOrder DEF LeadsTo
    <2> QED
      BY <2>1, <2>2, <2>3, <2>4 DEF Behind
  <1>4. AsksAtEnd'
    BY <1>1, <1>3 DEF AsksAtEnd, UpTo, After, Ends, Files
  <1> QED
    BY <1>1, <1>2, <1>4 DEF InLine, Replays

\* An answer goes to the end of the line, or takes the place of the file that ended it.
LEMMA LineGrows ==
    ASSUME EventsTypeOK, Progress, InLine, pc = "call", pc' = "round",
           NEW A, A \subseteq Parts \ partDone, AddPages(A), cache' = Stored(A)
    PROVE  InLine'
  <1>1. ~done /\ ~doneEvents /\ A \subseteq Parts /\ A \cap partDone = {}
    BY DEF Progress
  <1>2. PICK s \in [Parts -> Nat] : s = start
    BY FilesTyped
  <1>3. /\ Files' = Files \cup {s} /\ cache'[s] = A
        /\ \A k \in Files \ {s} : cache'[k] = cache[k]
    BY <1>2 DEF Stored, Key, Files
  <1>4. /\ start' = [p \in Parts |-> IF p \in A /\ s[p] + 1 # Pages[p] THEN s[p] + 1 ELSE s[p]]
        /\ partDone' = partDone \cup {p \in A : s[p] + 1 = Pages[p]}
        /\ start' \in [Parts -> Nat]
    BY <1>1, <1>2, AnswerAdded DEF IsLast
  <1>5. /\ \A k \in Files \ {s} : After(k)' = After(k) /\ Ends(k)' = Ends(k)
        /\ start' = After(s)' /\ Ends(s)' = {p \in A : s[p] + 1 = Pages[p]}
    BY <1>3, <1>4 DEF After, Ends
  <1>6. \A j \in Files : /\ UpTo(After(j), s) /\ (After(j) = j => j = s)
                         /\ j # s => Ends(j) \subseteq partDone
    BY <1>1, <1>2 DEF InLine, AsksAtEnd
  <1>7. /\ UpTo(s, start')
        /\ \A j \in Files : j \in [Parts -> Nat] /\ After(j) \in [Parts -> Nat] /\ UpTo(j, After(j))
        /\ \A j \in Files : UpTo(j, s)
    <2>1. UpTo(s, start')
      BY <1>4 DEF UpTo
    <2>2. \A j \in Files : j \in [Parts -> Nat] /\ After(j) \in [Parts -> Nat] /\ UpTo(j, After(j))
      BY FilesTyped, AfterTyped
    <2> QED
      BY <1>6, <2>1, <2>2, UpToOrder
  <1>8. \A j \in Files \ {s} : UpTo(After(j), start')
    BY <1>4, <1>6, <1>7, UpToOrder
  <1>9. FilesInLine'
    <2>1. ASSUME NEW j \in Files', NEW k \in Files', j # k PROVE (LeadsTo(j, k) \/ LeadsTo(k, j))'
      <3>1. CASE j # s /\ k # s
        BY <1>3, <1>5, <2>1, <3>1 DEF InLine, FilesInLine, LeadsTo, UpTo
      <3>2. ASSUME NEW i \in Files \ {s} PROVE LeadsTo(i, s)'
        BY <1>5, <1>6, <3>2 DEF LeadsTo, UpTo
      <3> QED
        BY <1>3, <2>1, <3>1, <3>2
    <2>2. ASSUME NEW j \in Files', NEW k \in Files', Behind(j, k) PROVE Ends(j)' \cap cache'[k] = {}
      <3>1. CASE j # s /\ k # s
        BY <1>3, <1>5, <2>2, <3>1 DEF InLine, FilesInLine
      <3>2. CASE k = s
        BY <1>1, <1>3, <1>5, <1>6, <2>2, <3>2 DEF Behind
      <3>3. CASE j = s /\ k # s
        BY <1>3, <1>7, <2>2, <3>3, UpToOrder DEF Behind
      <3> QED
        BY <3>1, <3>2, <3>3
    <2>3. ASSUME NEW k \in Files'
          PROVE  After(k)' \in Files' \/ \A j \in Files' : UpTo(After(j)', After(k)')
      <3>1. CASE k = s
        BY <1>3, <1>4, <1>5, <1>8, <3>1, UpToOrder
      <3>2. CASE k # s /\ After(k) \in Files
        BY <1>3, <1>5, <3>2
      <3>3. CASE k # s /\ \A j \in Files : UpTo(After(j), After(k))
        <4>1. UpTo(s, After(k))
          BY <1>2, <1>3, <1>7, <3>3, UpToOrder DEF InLine, Reached
        <4>2. After(k) = s
          BY <1>3, <1>6, <1>7, <3>3, <4>1, UpToOrder
        <4> QED
          BY <1>3, <1>5, <3>3, <4>2
      <3> QED
        BY <1>3, <3>1, <3>2, <3>3 DEF InLine, FilesInLine
    <2>4. Unfetched \in Files'
      BY <1>2, <1>3 DEF InLine, FilesInLine, Reached
    <2> QED
      BY <2>1, <2>2, <2>3, <2>4 DEF FilesInLine, Behind, UpTo, Unfetched
  <1>10. Reached'
    BY <1>3, <1>5 DEF Reached
  <1>11. AsksAtEnd'
    <2> SUFFICES ASSUME NEW j \in Files'
                 PROVE  /\ UpTo(After(j)', start') /\ (After(j)' = j => j = start')
                        /\ j # start' => Ends(j)' \subseteq partDone'
      BY DEF AsksAtEnd, UpTo
    <2>1. CASE j = s
      <3>1. UpTo(start', start')
        BY <1>4, UpToOrder
      <3> QED
        BY <1>4, <1>5, <2>1, <3>1
    <2>2. CASE j # s
      BY <1>3, <1>4, <1>5, <1>6, <1>8, <2>2
    <2> QED
      BY <2>1, <2>2
  <1>12. GotSoFar'
    BY <1>1, AnswerAdded DEF InLine, Turns
  <1>13. doneEvents' => Closed'
    <2> SUFFICES ASSUME doneEvents' PROVE Closed'
      OBVIOUS
    <2>1. partDone' = Parts
      BY <1>1, AnswerAdded
    <2>2. \A p \in A : s[p] + 1 = Pages[p]
      BY <1>1, <1>4, <2>1
    <2>3. start' = s
      BY <1>4, <2>2
    <2> QED
      BY <1>3, <1>5, <2>3 DEF Closed
  <1> QED
    BY <1>9, <1>10, <1>11, <1>12, <1>13 DEF InLine, Replays

LEMMA LineKept ==
    ASSUME EventsTypeOK, Progress, faults = 0 => InLine, [Next]_vars, faults' = 0
    PROVE  InLine'
  <1>1. CASE Begin
    BY <1>1, LineBegins DEF Begin
  <1>2. CASE ReplayHit
    BY <1>2, LineReplayed DEF ReplayHit
  <1>3. CASE ReplayMiss
    <2>1. faults = 0 /\ start \notin Files
      BY <1>3, Counting DEF ReplayMiss, Key, Files
    <2> QED
      BY <1>3, <2>1, LineLeft
  <1>4. CASE Answer
    <2>1. PICK missing \in SUBSET (world.nullable \ partDone) :
             SaveAnswer((Parts \ partDone) \ missing) /\ AddPages((Parts \ partDone) \ missing)
      BY <1>4 DEF Answer
    <2> DEFINE A == (Parts \ partDone) \ missing
    <2>2. A \subseteq Parts \ partDone /\ A \subseteq Parts /\ SaveAnswer(A) /\ AddPages(A)
      BY <2>1
    <2> HIDE DEF A
    <2>3. faults = 0 /\ cache' = Stored(A)
      BY <2>2, Saved, Counting
    <2>4. pc = "call" /\ pc' = "round"
      BY <1>4 DEF Answer
    <2> QED
      BY <2>2, <2>3, <2>4, LineGrows
  <1>5. CASE Ask \/ AnswerNull \/ NoAnswer \/ CallFails \/ Settle \/ UNCHANGED vars
    <2>1. UNCHANGED <<start, partDone, got, cache, faults, doneEvents>> /\ (done => done')
      BY <1>5
      DEF Ask, AnswerNull, GiveUpReport, NoAnswer, CallFails, Settle, vars, fight
    <2>2. \/ pc' = pc /\ done' = done
          \/ /\ pc \in {"round", "call"} /\ pc' # "replay"
             /\ pc' \in {"round", "call"} /\ ~done' => ~done
             /\ pc' = "round" => ~doneEvents
      BY <1>5
      DEF Ask, AnswerNull, GiveUpReport, NoAnswer, CallFails, Settle, Outcome, vars, fight, Progress
    <2>3. InLine
      BY <2>1
    <2>4. FilesInLine' /\ (Reached => Reached') /\ (GotSoFar => GotSoFar') /\ (Closed => Closed')
      BY <2>1, <2>3
      DEF InLine, FilesInLine, Reached, GotSoFar, Closed, LeadsTo, Behind, UpTo, After, Ends, Files
    <2>5. CASE pc' = pc /\ done' = done
      <3>1. (Turns => Turns') /\ Replays' /\ AsksAtEnd'
        BY <2>1, <2>3, <2>5
        DEF InLine, Turns, Replays, AsksAtEnd, LeadsTo, Behind, UpTo, After, Ends, Files
      <3> QED
        BY <2>1, <2>3, <2>4, <2>5, <3>1 DEF InLine
    <2>6. CASE /\ pc \in {"round", "call"} /\ pc' # "replay"
               /\ pc' \in {"round", "call"} /\ ~done' => ~done
               /\ pc' = "round" => ~doneEvents
      <3>1. ~Turns /\ Replays' /\ AsksAtEnd'
        BY <2>1, <2>3, <2>6 DEF InLine, Turns, Replays, AsksAtEnd, UpTo, After, Ends, Files
      <3> QED
        BY <2>1, <2>3, <2>4, <2>6, <3>1 DEF InLine
    <2> QED
      BY <2>2, <2>5, <2>6
  <1> QED
    BY <1>1, <1>2, <1>3, <1>4, <1>5 DEF Next, Step

\* A replay over the files of a fight that was fetched whole finds a file everywhere.
LEMMA WholeReplayHits ==
    ASSUME EventsTypeOK, InLine, pc = "replay", Closed PROVE start \in Files
  <1>1. CASE Turns
    BY <1>1 DEF Turns
  <1>2. CASE ~Turns
    <2>1. PICK k \in Files : After(k) = k
      BY DEF Closed
    <2>2. UpTo(start, k)
      BY <1>2, <2>1 DEF InLine, Replays, LeadsTo
    <2>3. start \in Files \/ UpTo(k, start)
      BY <1>2, <2>1 DEF InLine, Replays
    <2> QED
      BY <2>1, <2>2, <2>3, FilesTyped, UpToOrder
  <1> QED
    BY <1>1, <1>2

LEMMA WholeKept ==
    ASSUME EventsTypeOK, Progress, faults = 0 => InLine, StaysWhole, [Next]_vars
    PROVE  StaysWhole'
  <1> SUFFICES ASSUME whole' PROVE Closed' /\ pc' # "call" /\ (pc' = "round" => done')
    BY DEF StaysWhole
  <1> USE DEF Progress, StaysWhole
  <1>1. CASE Begin
    BY <1>1 DEF Begin, Closed, After, Files
  <1>2. CASE ReplayHit
    BY <1>2 DEF ReplayHit, Closed, After, Files
  <1>3. CASE ReplayMiss
    <2>1. whole /\ faults = 0 /\ ~Fault
      BY <1>3, Counting DEF ReplayMiss
    <2>2. start \in Files
      BY <1>3, <2>1, WholeReplayHits DEF ReplayMiss
    <2> QED
      BY <1>3, <2>1, <2>2 DEF ReplayMiss, Key, Files
  <1>4. CASE Answer
    <2>1. PICK A : A \subseteq Parts /\ SaveAnswer(A)
      BY <1>4 DEF Answer
    <2>2. whole
      BY <2>1, Saved, Counting
    <2> QED
      BY <1>4, <2>2 DEF Answer
  <1>5. CASE Ask \/ AnswerNull \/ NoAnswer \/ CallFails
    BY <1>5 DEF Ask, AnswerNull, NoAnswer, CallFails
  <1>6. CASE Settle
    <2>1. pc = "round" /\ pc' \in {"true", "false"} /\ cache' = cache
      BY <1>6 DEF Settle, Outcome
    <2>2. whole \/ (doneEvents /\ faults = 0)
      BY <1>6 DEF Settle
    <2>3. Closed
      BY <2>1, <2>2 DEF InLine
    <2> QED
      BY <2>1, <2>3 DEF Closed, After, Files
  <1>7. CASE UNCHANGED vars
    BY <1>7 DEF vars, fight, Closed, After, Files
  <1> QED
    BY <1>1, <1>2, <1>3, <1>4, <1>5, <1>6, <1>7 DEF Next, Step

-----------------------------------------------------------------------------
(* The pages that came, and the calls they paid for. *)

LEMMA PagesCounted ==
    ASSUME NEW k \in [Parts -> Nat]
    PROVE  IsFiniteSet(PagesBefore(k)) /\ Cardinality(PagesBefore(k)) \in Nat
  <1> DEFINE f == [p \in Parts |-> {p} \X (1 .. k[p])]
             Rows == {f[p] : p \in Parts}
  <1>1. IsFiniteSet(Rows)
    <2>1. f \in Surjection(Parts, Rows)
      BY DEF Surjection
    <2> QED
      BY <2>1, FS_Surjection, EventsAssumption
  <1>2. \A row \in Rows : IsFiniteSet(row)
    <2> SUFFICES ASSUME NEW p \in Parts PROVE IsFiniteSet({p} \X (1 .. k[p]))
      OBVIOUS
    <2>1. IsFiniteSet({p})
      BY FS_Singleton
    <2>2. k[p] \in Int /\ 1 \in Int
      OBVIOUS
    <2>3. IsFiniteSet(1 .. k[p])
      BY <2>2, FS_Interval
    <2> QED
      BY <2>1, <2>3, FS_Product
  <1>3. IsFiniteSet(UNION Rows)
    BY <1>1, <1>2, FS_UNION
  <1>4. PagesBefore(k) = UNION Rows
    BY DEF PagesBefore
  <1> QED
    BY <1>3, <1>4, FS_CardinalityType

\* Parts that move on leave more pages behind.
LEMMA PagesGrow ==
    ASSUME NEW j \in [Parts -> Nat], NEW k \in [Parts -> Nat], UpTo(j, k)
    PROVE  /\ Cardinality(PagesBefore(j)) <= Cardinality(PagesBefore(k))
           /\ j # k => Cardinality(PagesBefore(j)) < Cardinality(PagesBefore(k))
  <1>1. \A i \in [Parts -> Nat] : \A p, n :
           <<p, n>> \in PagesBefore(i) <=> p \in Parts /\ n \in 1 .. i[p]
    BY DEF PagesBefore
  <1>2. PagesBefore(j) \subseteq PagesBefore(k)
    BY DEF PagesBefore, UpTo
  <1>3. /\ IsFiniteSet(PagesBefore(k))
        /\ Cardinality(PagesBefore(j)) \in Nat /\ Cardinality(PagesBefore(k)) \in Nat
    BY PagesCounted
  <1>4. /\ Cardinality(PagesBefore(j)) <= Cardinality(PagesBefore(k))
        /\ Cardinality(PagesBefore(j)) = Cardinality(PagesBefore(k))
             => PagesBefore(j) = PagesBefore(k)
    BY <1>2, <1>3, FS_Subset
  <1>5. ASSUME j # k PROVE PagesBefore(j) # PagesBefore(k)
    <2>1. PICK p \in Parts : j[p] < k[p]
      BY <1>5 DEF UpTo
    <2>2. <<p, k[p]>> \in PagesBefore(k) /\ <<p, k[p]>> \notin PagesBefore(j)
      BY <1>1, <2>1
    <2> QED
      BY <2>2
  <1> QED
    BY <1>3, <1>4, <1>5

\* An answer takes no part back, and renews the retries only if it moves one on.
LEMMA AnswerMoves ==
    ASSUME EventsTypeOK, Progress, NEW A, A \subseteq Parts, AddPages(A)
    PROVE  UpTo(start, start') /\ (start' # start \/ retries' = retries)
  <1>1. start \in [Parts -> Nat]
    BY FilesTyped
  <1>2. start' = [p \in Parts |-> IF p \in A /\ ~IsLast(p) THEN start[p] + 1 ELSE start[p]]
    BY AnswerAdded
  <1>3. UpTo(start, start')
    BY <1>1, <1>2 DEF UpTo
  <1>4. ASSUME NEW p \in A, ~IsLast(p) PROVE start' # start
    BY <1>1, <1>2, <1>4
  <1>5. CASE {p \in A : ~IsLast(p)} = {}
    <2>1. retries' = Renewed({p \in A : ~IsLast(p)})
      BY DEF AddPages
    <2> QED
      BY <1>3, <1>5, <2>1 DEF Renewed
  <1> QED
    BY <1>3, <1>4, <1>5

\* n calls at m for each of c pages and r of another one are paid for by more pages.
LEMMA PaidFor ==
    ASSUME NEW m \in Nat, NEW c \in Nat, NEW d \in Nat, c < d,
           NEW n \in Nat, NEW r \in 0 .. m, n <= m * c + r
    PROVE  n <= m * d
  <1>1. PICK e \in Nat : d = c + 1 + e
    <2>1. d - (c + 1) \in Nat /\ d = c + 1 + (d - (c + 1))
      OBVIOUS
    <2> QED
      BY <2>1
  <1>2. m * d = m * c + m + m * e /\ m * e \in Nat /\ m * c \in Nat
    BY <1>1
  <1> QED
    BY <1>2

LEMMA CallsStart == Init => CallsEarned
  <1> SUFFICES ASSUME Init PROVE CallsEarned
    OBVIOUS
  <1>1. start \in [Parts -> Nat] /\ calls = 0 /\ retries = 0
    BY DEF Init, Unfetched
  <1> QED
    BY <1>1, PagesCounted, EventsAssumption DEF CallsEarned

\* A page that came in the middle of a round.
LEMMA AnswerPays ==
    ASSUME EventsTypeOK, Progress, CallsEarned,
           NEW A, A \subseteq Parts, AddPages(A), calls' = calls
    PROVE  CallsEarned'
  <1>1. /\ start \in [Parts -> Nat] /\ start' \in [Parts -> Nat]
        /\ retries \in 0 .. MaxRetries /\ calls \in Nat /\ MaxRetries \in Nat
        /\ retries' \in {0, retries}
    BY FilesTyped, AnswerAdded, EventsAssumption DEF EventsTypeOK
  <1>2. UpTo(start, start') /\ (start' # start \/ retries' = retries)
    BY AnswerMoves
  <1> DEFINE c == Cardinality(PagesBefore(start))
             d == Cardinality(PagesBefore(start'))
  <1>3. c \in Nat /\ d \in Nat /\ MaxRetries * c \in Nat /\ MaxRetries * d \in Nat
    BY <1>1, PagesCounted
  <1>4. calls <= MaxRetries * c + retries
    BY DEF CallsEarned
  <1>5. CASE start' = start
    BY <1>2, <1>5 DEF CallsEarned
  <1>6. CASE start' # start
    <2>1. c < d
      BY <1>1, <1>2, <1>6, PagesGrow
    <2>2. calls' <= MaxRetries * d
      BY <1>1, <1>3, <1>4, <2>1, PaidFor
    <2>3. retries' \in Nat /\ MaxRetries * d \in Nat /\ calls' \in Nat
      BY <1>1, <1>3
    <2> QED
      BY <2>2, <2>3 DEF CallsEarned
  <1> QED
    BY <1>5, <1>6

LEMMA CallsKept ==
    ASSUME EventsTypeOK, Progress, CallsEarned, [Next]_vars PROVE CallsEarned'
  <1>1. CASE Begin
    <2>1. start' \in [Parts -> Nat] /\ calls' = 0 /\ retries' = 0
      BY <1>1 DEF Begin, Unfetched
    <2> QED
      BY <2>1, PagesCounted, EventsAssumption DEF CallsEarned
  <1>2. CASE ReplayHit
    <2>1. cache[start] \subseteq Parts /\ AddPages(cache[start]) /\ calls' = calls
      BY <1>2 DEF ReplayHit, Key, EventsTypeOK
    <2> QED
      BY <2>1, AnswerPays
  <1>3. CASE Answer
    <2>1. PICK missing \in SUBSET (world.nullable \ partDone) :
             AddPages((Parts \ partDone) \ missing)
      BY <1>3 DEF Answer
    <2>2. (Parts \ partDone) \ missing \subseteq Parts /\ calls' = calls
      BY <1>3 DEF Answer
    <2> QED
      BY <2>1, <2>2, AnswerPays
  <1>4. CASE Ask
    <2>1. start' = start /\ calls' = calls + 1 /\ retries' = retries + 1
      BY <1>4 DEF Ask, Counted
    <2>2. calls \in Nat /\ retries \in Nat /\ MaxRetries \in Nat
      BY EventsAssumption DEF EventsTypeOK
    <2>3. Cardinality(PagesBefore(start)) \in Nat
      BY FilesTyped, PagesCounted
    <2>4. MaxRetries * Cardinality(PagesBefore(start)) \in Nat
      BY <2>2, <2>3
    <2> QED
      BY <2>1, <2>2, <2>4 DEF CallsEarned
  <1>5. CASE ReplayMiss \/ AnswerNull \/ NoAnswer \/ CallFails \/ Settle \/ UNCHANGED vars
    <2>1. UNCHANGED <<start, calls, retries>>
      BY <1>5 DEF ReplayMiss, AnswerNull, GiveUpReport, NoAnswer, CallFails, Settle, vars, fight
    <2> QED
      BY <2>1 DEF CallsEarned
  <1> QED
    BY <1>1, <1>2, <1>3, <1>4, <1>5 DEF Next, Step

-----------------------------------------------------------------------------
(* The steps that an analysis can take. *)

LastPages == [p \in Parts |-> Pages[p] - 1]

\* The calls that all pages together pay for.
Budget == MaxRetries * (1 + Cardinality(PagesBefore(LastPages)))

PagesLeft == Cardinality(PagesBefore(LastPages)) - Cardinality(PagesBefore(start))

Phase == CASE pc \in {"replay", "call"} -> 2 [] pc = "round" -> 1 [] OTHER -> 0

StepsLeft == 2 * (Budget - calls) + PagesLeft + Phase

\* A cached page is added, no part moves on, and the replay goes on.
ReplaysInPlace == ReplayHit /\ start' = start /\ pc' = "replay"

LEMMA BudgetKept ==
    ASSUME EventsTypeOK, CallsEarned
    PROVE  /\ PagesLeft \in Nat /\ Budget \in Nat /\ calls <= Budget
           /\ calls <= MaxRetries * (1 + Cardinality(PagesBefore(start)))
  <1> DEFINE c == Cardinality(PagesBefore(start))
             d == Cardinality(PagesBefore(LastPages))
  <1>1. start \in [Parts -> Nat] /\ LastPages \in [Parts -> Nat] /\ UpTo(start, LastPages)
    BY EventsAssumption DEF EventsTypeOK, LastPages, UpTo
  <1>2. c \in Nat /\ d \in Nat /\ c <= d
    BY <1>1, PagesCounted, PagesGrow
  <1>3. calls \in Nat /\ MaxRetries \in Nat /\ retries \in 0 .. MaxRetries
    BY EventsAssumption DEF EventsTypeOK
  <1>4. calls <= MaxRetries * c + retries
    BY DEF CallsEarned
  <1> HIDE DEF c, d
  <1>5. c < d + 1 /\ c < c + 1 /\ d + 1 \in Nat /\ c + 1 \in Nat
    BY <1>2
  <1>6. calls <= MaxRetries * (d + 1) /\ calls <= MaxRetries * (c + 1)
    BY <1>2, <1>3, <1>4, <1>5, PaidFor
  <1>7. 1 + d = d + 1 /\ 1 + c = c + 1 /\ d - c \in Nat /\ MaxRetries * (d + 1) \in Nat
    BY <1>2, <1>3
  <1> QED
    BY <1>6, <1>7 DEF PagesLeft, Budget, c, d

\* Pages that came are no longer left.
LEMMA PagesLeftFall ==
    ASSUME EventsTypeOK, EventsTypeOK', UpTo(start, start')
    PROVE  /\ PagesLeft \in Int /\ PagesLeft' \in Int /\ PagesLeft' <= PagesLeft
           /\ start' # start => PagesLeft' < PagesLeft
  <1>1. start \in [Parts -> Nat] /\ start' \in [Parts -> Nat] /\ LastPages \in [Parts -> Nat]
    BY EventsAssumption DEF EventsTypeOK, LastPages
  <1>2. /\ Cardinality(PagesBefore(start)) \in Nat /\ Cardinality(PagesBefore(start')) \in Nat
        /\ Cardinality(PagesBefore(LastPages)) \in Nat
    BY <1>1, PagesCounted
  <1>3. /\ Cardinality(PagesBefore(start)) <= Cardinality(PagesBefore(start'))
        /\ start' # start => Cardinality(PagesBefore(start)) < Cardinality(PagesBefore(start'))
    BY <1>1, PagesGrow
  <1>4. /\ PagesLeft = Cardinality(PagesBefore(LastPages)) - Cardinality(PagesBefore(start))
        /\ PagesLeft' = Cardinality(PagesBefore(LastPages)) - Cardinality(PagesBefore(start'))
    BY DEF PagesLeft
  <1> QED
    BY <1>2, <1>3, <1>4

LEMMA StepCounts ==
    ASSUME EventsTypeOK, Progress, CallsEarned, EventsTypeOK', Step, ~ReplaysInPlace
    PROVE  StepsLeft' < StepsLeft
  <1>1. UpTo(start, start')
    <2>1. CASE ReplayHit
      BY <2>1, AnswerMoves DEF ReplayHit, Key, EventsTypeOK
    <2>2. CASE Answer
      <3>1. PICK missing \in SUBSET (world.nullable \ partDone) :
               AddPages((Parts \ partDone) \ missing)
        BY <2>2 DEF Answer
      <3> QED
        BY <3>1, AnswerMoves
    <2>3. CASE ReplayMiss \/ Ask \/ AnswerNull \/ NoAnswer \/ CallFails \/ Settle
      <3>1. start' = start /\ start \in [Parts -> Nat]
        BY <2>3, FilesTyped
        DEF ReplayMiss, Ask, AnswerNull, GiveUpReport, NoAnswer, CallFails, Settle, fight
      <3> QED
        BY <3>1 DEF UpTo
    <2> QED
      BY <2>1, <2>2, <2>3 DEF Step
  <1>2. /\ PagesLeft \in Int /\ PagesLeft' \in Int /\ PagesLeft' <= PagesLeft
        /\ start' # start => PagesLeft' < PagesLeft
    BY <1>1, PagesLeftFall
  <1>3. Budget \in Nat /\ calls \in Nat /\ Budget' = Budget
    BY BudgetKept DEF EventsTypeOK, Budget, LastPages, PagesBefore
  <1>4. CASE ReplayHit
    <2>1. pc = "replay" /\ calls' = calls
          /\ (pc' = "round" \/ (pc' = "replay" /\ start' # start))
      BY <1>4 DEF ReplayHit, ReplaysInPlace
    <2> QED
      BY <1>2, <1>3, <2>1 DEF StepsLeft, Phase
  <1>5. CASE Ask
    <2>1. pc = "round" /\ pc' = "call" /\ calls' = calls + 1
      BY <1>5 DEF Ask
    <2> QED
      BY <1>2, <1>3, <2>1 DEF StepsLeft, Phase
  <1>6. CASE ReplayMiss \/ Answer \/ AnswerNull \/ NoAnswer
    <2>1. pc \in {"replay", "call"} /\ pc' = "round" /\ calls' = calls
      BY <1>6 DEF ReplayMiss, Answer, AnswerNull, NoAnswer
    <2> QED
      BY <1>2, <1>3, <2>1 DEF StepsLeft, Phase
  <1>7. CASE CallFails \/ Settle
    <2>1. pc \in {"round", "call"} /\ pc' \in {"true", "false"} /\ calls' = calls
      BY <1>7 DEF CallFails, Settle, Outcome
    <2> QED
      BY <1>2, <1>3, <2>1 DEF StepsLeft, Phase
  <1> QED
    BY <1>4, <1>5, <1>6, <1>7 DEF Step

\* Files that have all that was asked for move the parts on until they are done.
LEMMA ReplayMoves ==
    ASSUME EventsTypeOK, Progress, InStep, ReplayHit PROVE ~ReplaysInPlace
  <1>1. start \in Files /\ AddPages(cache[start]) /\ ~done /\ (pc' = "replay" => ~done')
    BY DEF ReplayHit, Key, Files, Progress
  <1>2. PICK k \in Nat : start = At(k) /\ partDone = Over(k) /\ Due(k)
    BY <1>1 DEF InStep
  <1>3. PICK i \in Nat : start = At(i) /\ Due(i) /\ cache[start] = Parts \ Over(i)
    BY <1>1 DEF InStep, Files
  <1>4. i = k
    BY <1>2, <1>3, OneRound
  <1>5. start' = At(k + 1) /\ (done' \/ Due(k + 1))
    BY <1>1, <1>2, <1>3, <1>4, AllAnswered DEF InStep
  <1>6. Due(k + 1) => At(k + 1) # At(k)
    BY <1>2, OneRound
  <1> QED
    BY <1>1, <1>2, <1>5, <1>6 DEF ReplaysInPlace

-----------------------------------------------------------------------------
(* The theorems. *)

\* Parts that move on together, or files in line (fflogs_3_event.go:133-395).
THEOREM EventsInvariance == Spec => []EventsInv
  <1>1. Init => EventsInv
    BY EventsStart, CallsStart, StepStart, LineStart DEF EventsInv
  <1>2. EventsInv /\ [Next]_vars => EventsInv'
    <2> SUFFICES ASSUME EventsInv, [Next]_vars PROVE EventsInv'
      OBVIOUS
    <2>1. EventsTypeOK' /\ Progress'
      BY TypesKept DEF EventsInv
    <2>2. world' = world
      BY DEF Next, Step, Begin, ReplayHit, ReplayMiss, Ask, Answer, AnswerNull, NoAnswer, CallFails,
             Settle, vars
    <2>3. world'.nullable = {} => InStep'
      BY <2>2, StepKept DEF EventsInv
    <2>4. faults' = 0 => InLine'
      BY LineKept DEF EventsInv
    <2>5. StaysWhole'
      BY WholeKept DEF EventsInv
    <2>6. CallsEarned'
      BY CallsKept DEF EventsInv
    <2> QED
      BY <2>1, <2>3, <2>4, <2>5, <2>6 DEF EventsInv
  <1> QED
    BY <1>1, <1>2, PTL DEF Spec

\* The range of every variable; parts are asked from pages that exist
\* (fflogs_3_event.go:159-284).
THEOREM EventsTypes == Spec => []EventsTypeOK
  <1>1. EventsInv => EventsTypeOK
    BY DEF EventsInv
  <1> QED
    BY <1>1, EventsInvariance, PTL

\* A fight whose events count has every page once, if answers have all that was asked
\* for, whatever files are lost, and whatever answers have, as long as no file was
\* (fflogs_3_event.go:133-284).
THEOREM EventsAreExact == Spec => [](world.nullable = {} \/ faults = 0 => EventsExact)
  <1>1. EventsInv => (world.nullable = {} \/ faults = 0 => EventsExact)
    <2> SUFFICES ASSUME EventsInv, world.nullable = {} \/ faults = 0, pc = "true", doneEvents,
                        NEW p \in Parts
                 PROVE  got[p] = AllPages(p)
      BY DEF EventsExact
    <2>1. GotSoFar
      BY DEF EventsInv, InStep, InLine, Turns
    <2>2. p \in partDone /\ start[p] + 1 = Pages[p]
      BY DEF EventsInv, Progress, IsLast
    <2> QED
      BY <2>1, <2>2 DEF GotSoFar, First, AllPages
  <1> QED
    BY <1>1, EventsInvariance, PTL

\* So it has in worlds where only one of the two goes wrong.
THEOREM EventsAreExactInSoundWorlds ==
    ASSUME \A w \in Worlds : w.nullable = {} \/ w.faults = 0
    PROVE  Spec => []EventsExact
  <1>1. EventsInv => world.nullable = {} \/ faults = 0
    BY EventsAssumption DEF EventsInv, EventsTypeOK
  <1> QED
    BY <1>1, EventsInvariance, EventsAreExact, PTL

\* A fight that was fetched whole is never asked for again, in any world
\* (fflogs_3_event.go:298-317).
THEOREM NeverFetchedAgain == Spec => []FetchedOnce
  <1>1. EventsInv => FetchedOnce
    BY DEF EventsInv, StaysWhole, FetchedOnce
  <1> QED
    BY <1>1, EventsInvariance, PTL

\* FFLogs is asked for the same pages MaxRetries times at most, and so only so often in
\* all (fflogs_3_event.go:159-160, 355-395).
THEOREM CallsAreBounded == Spec => [](CallsBounded /\ calls <= Budget)
  <1>1. EventsInv => CallsBounded /\ calls <= Budget
    BY BudgetKept DEF EventsInv, CallsBounded
  <1> QED
    BY <1>1, EventsInvariance, PTL

\* Each step of an analysis lowers a number, but for one: a cached page that moves no part
\* on and does not end the replay.  That one is what keeps an analysis from its end
\* (fflogs_3_event.go:298-317).
THEOREM StepsCount ==
    Spec => [](StepsLeft \in Nat) /\ [][Step => StepsLeft' < StepsLeft \/ ReplaysInPlace]_vars
  <1>1. EventsInv => StepsLeft \in Nat
    <2> SUFFICES ASSUME EventsInv PROVE StepsLeft \in Nat
      OBVIOUS
    <2>1. PagesLeft \in Nat /\ Budget \in Nat /\ calls <= Budget /\ calls \in Nat
      BY BudgetKept DEF EventsInv, EventsTypeOK
    <2> QED
      BY <2>1 DEF StepsLeft, Phase
  <1>2. EventsInv /\ EventsInv' /\ [Next]_vars
        => [Step => StepsLeft' < StepsLeft \/ ReplaysInPlace]_vars
    BY StepCounts DEF EventsInv
  <1> QED
    BY <1>1, <1>2, EventsInvariance, PTL DEF Spec

\* Where answers have all that was asked for there is no such page, whatever files are
\* lost: an analysis has finitely many steps (fflogs_3_event.go:298-317, 355-395).
THEOREM AnalysesAreFinite ==
    Spec => [][Step /\ world.nullable = {} => StepsLeft' < StepsLeft]_vars
  <1>1. EventsInv /\ EventsInv' /\ [Next]_vars
        => [Step /\ world.nullable = {} => StepsLeft' < StepsLeft]_vars
    <2> SUFFICES ASSUME EventsInv, EventsInv', Step, world.nullable = {}
                 PROVE  StepsLeft' < StepsLeft
      OBVIOUS
    <2>1. ~ReplaysInPlace
      BY ReplayMoves DEF EventsInv, ReplaysInPlace
    <2> QED
      BY <2>1, StepCounts DEF EventsInv
  <1> QED
    BY <1>1, EventsInvariance, PTL DEF Spec
=============================================================================
