---------------------------- MODULE BackgroundProofs ---------------------------
(***************************************************************************)
(* Proofs about what runs behind the requests: JobQueue, for any number of *)
(* e-mail jobs, candidates and attempts, with stops of the process, lost   *)
(* records and changes of the flag at any moment; then EventListeners, for *)
(* any people and occurrences of events; and the loads of MCBackground.    *)
(*                                                                         *)
(* Of the queue two things are carried from step to step.  A job that is   *)
(* still to be tried has attempts left, and one that is being tried has    *)
(* not stalled too often.  And while the digest's loop runs, every         *)
(* candidate it is past has a job in the queue, but for the one whose      *)
(* addJob it waits for.                                                    *)
(*                                                                         *)
(* Of the listeners it is the handler's place in its plan: past the step   *)
(* that tells whom the event is news for, each of them has heard of it;    *)
(* past its first step, what is recorded first is on record or about to    *)
(* be.  A row found under a key with the occurrence's own stamp was told   *)
(* for this occurrence.                                                    *)
(***************************************************************************)
EXTENDS MCBackground, Sequences, FiniteSetTheorems, TLAPS

-----------------------------------------------------------------------------
(* The queue.                                                              *)

\* Where a job ends.
Final == {"completed", "failed", "skipped", "lost", "gone"}

\* A job is tried no more often than it may be.
Counts(j) ==
  /\ mail[j].phase \notin Final => mail[j].made < Attempts
  /\ mail[j].phase \in Active => mail[j].stalls <= MaxStalled

\* The job left the process's memory, and not by the process's end.
Reached(j) == mail[j].phase \notin InMemory \cup {"gone"}

\* The loop is past a candidate when it has called addJob.
Covered(c) ==
  \E j \in Jobs : mail[j].to = c /\ (Reached(j) \/ j = digest.adds)

DigestInv ==
  /\ \A j \in Jobs : Is(j, "none") => mail[j].to = None
  /\ digest.phase = "active" =>
       /\ digest.adds # None => mail[digest.adds].phase \notin {"none", "gone"}
       /\ \A c \in optedIn \ digest.left : Covered(c)
  /\ DigestReachesAll

IInv == TypeOK /\ (\A j \in Jobs : Counts(j)) /\ DigestInv

-----------------------------------------------------------------------------
(* What the steps do to the jobs.                                          *)

LEMMA MoveEffect ==
  ASSUME TypeOK, NEW j \in Jobs, NEW phase \in Phase, Move(j, phase)
  PROVE  /\ mail' \in [Jobs -> Mail]
         /\ \A i \in Jobs \ {j} : mail'[i] = mail[i]
         /\ mail'[j].phase = phase
         /\ mail'[j].to = mail[j].to
         /\ mail'[j].made = mail[j].made
         /\ mail'[j].stalls = mail[j].stalls
<1>1. mail[j] \in Mail /\ mail'[j] = [mail[j] EXCEPT !.phase = phase]
  BY DEF TypeOK, Move
<1>2. mail'[j] \in Mail
  BY <1>1 DEF Mail
<1> QED
  BY <1>1, <1>2 DEF TypeOK, Move, Mail

\* Which phases there are.
LEMMA Phases ==
  /\ InMemory = {"gate", "reading", "adding"}
  /\ Ended = {"accepted", "transient", "permanent"}
  /\ Active = {"active", "accepted", "transient", "permanent"}
  /\ Phase = {"none", "waiting", "delayed", "completed", "failed", "skipped", "lost",
              "gone", "gate", "reading", "adding", "active", "accepted", "transient",
              "permanent"}
BY DEF InMemory, Ended, Active, Phase

\* What a job's own step does: it keeps whose job it is, and once the job has
\* left the memory it does not come back.
Progress(j) ==
  /\ mail' \in [Jobs -> Mail]
  /\ \A i \in Jobs \ {j} : mail'[i] = mail[i]
  /\ mail'[j].to = mail[j].to
  /\ mail[j].phase # "none" /\ mail'[j].phase \notin {"none", "gone"}
  /\ mail[j].phase \notin InMemory => mail'[j].phase \notin InMemory

LEMMA AddProgress ==
  ASSUME IInv, NEW j \in Jobs, AddStep(j) \/ ReadFlagFails(j) \/ EnqueueFails(j)
  PROVE  /\ Progress(j) /\ Counts(j)'
         /\ mail[j].phase \in InMemory
         /\ mail'[j].phase \in {"reading", "adding", "skipped", "waiting", "lost"}
<1>0. mail[j] \in Mail /\ Counts(j) /\ TypeOK
  BY DEF IInv, TypeOK
<1>1. ASSUME NEW phase \in {"adding", "skipped", "waiting", "lost"}, Move(j, phase),
             mail[j].phase \in InMemory
      PROVE  Progress(j) /\ Counts(j)' /\ mail'[j].phase = phase
  <2>1. phase \in Phase
    BY Phases
  <2> QED
    BY <1>0, <1>1, <2>1, MoveEffect, Phases DEF Progress, Counts, Final
<1>2. CASE CacheHit(j) \/ ReadFlagFails(j) \/ Enqueue(j) \/ EnqueueFails(j)
  <2>1. \A on : Verdict(on) \in {"adding", "skipped"}
    BY DEF Verdict
  <2>2. mail[j].phase \in InMemory
    BY <1>2, Phases DEF CacheHit, ReadFlagFails, Enqueue, EnqueueFails, Is
  <2>3. \E phase \in {"adding", "skipped", "waiting", "lost"} : Move(j, phase)
    BY <1>2, <2>1 DEF CacheHit, ReadFlagFails, Enqueue, EnqueueFails
  <2> QED
    BY <1>1, <2>2, <2>3
<1>3. CASE ReadFlag(j)
  <2>1. mail'[j] = [mail[j] EXCEPT !.phase = "reading", !.row = flag] /\ Is(j, "gate")
    BY <1>3 DEF ReadFlag, IInv, TypeOK
  <2>2. mail'[j] \in Mail /\ flag \in BOOLEAN \cup {None}
    BY <1>0, <2>1, Phases DEF Mail, TypeOK
  <2>3. /\ mail'[j].to = mail[j].to /\ mail'[j].made = mail[j].made
        /\ mail'[j].phase = "reading"
    BY <1>0, <2>1 DEF Mail
  <2>4. mail' \in [Jobs -> Mail] /\ \A i \in Jobs \ {j} : mail'[i] = mail[i]
    BY <1>0, <1>3, <2>2 DEF ReadFlag, TypeOK
  <2> QED
    BY <1>0, <2>1, <2>3, <2>4, Phases DEF Progress, Counts, Final, Is
<1>4. CASE StoreFlag(j)
  <2> DEFINE phase == Verdict(Enabled(mail[j].row))
  <2>1. mail'[j] = [mail[j] EXCEPT !.phase = phase, !.row = None] /\ Is(j, "reading")
    BY <1>4 DEF StoreFlag, IInv, TypeOK
  <2>2. phase \in {"adding", "skipped"}
    BY DEF Verdict
  <2> HIDE DEF phase
  <2>3. mail'[j] \in Mail
    BY <1>0, <2>1, <2>2, Phases DEF Mail
  <2>4. /\ mail'[j].to = mail[j].to /\ mail'[j].made = mail[j].made
        /\ mail'[j].phase = phase
    BY <1>0, <2>1 DEF Mail
  <2>5. mail' \in [Jobs -> Mail] /\ \A i \in Jobs \ {j} : mail'[i] = mail[i]
    BY <1>0, <1>4, <2>3 DEF StoreFlag, TypeOK
  <2> QED
    BY <1>0, <2>1, <2>2, <2>4, <2>5, Phases DEF Progress, Counts, Final, Is
<1> QED
  BY <1>2, <1>3, <1>4 DEF AddStep

\* BullMQ's steps about a job; the worker itself is idle but for Pick and Send.
LEMMA WorkProgress ==
  ASSUME IInv, NEW j \in Jobs, WorkStep(j)
  PROVE  /\ Progress(j) /\ Counts(j)'
         /\ \/ Pick(j) /\ mail'[j].phase = "active"
            \/ Send(j) /\ mail[j].phase = "active" /\ mail'[j].phase \in Ended
            \/ /\ UNCHANGED running
               /\ mail[j].phase # "active" /\ mail'[j].phase \notin Active
<1>0. mail[j] \in Mail /\ Counts(j) /\ TypeOK /\ Attempts \in Nat \ {0} /\ MaxStalled \in Nat
  BY QueueAssumption DEF IInv, TypeOK
<1>1. CASE Pick(j)
  <2>1. mail[j].phase = "waiting" /\ mail[j].stalls <= MaxStalled /\ Move(j, "active")
    BY <1>1 DEF Pick, Is
  <2> QED
    BY <1>0, <1>1, <2>1, MoveEffect, Phases DEF Progress, Counts, Final
<1>2. CASE Send(j)
  <2>1. PICK outcome \in Ended : Is(j, "active") /\ Move(j, outcome)
    BY <1>2 DEF Send, Settle
  <2> QED
    BY <1>0, <1>2, <2>1, MoveEffect, Phases DEF Progress, Counts, Final, Is
<1>3. CASE FailStalled(j) \/ Retry(j)
  <2>1. PICK phase \in {"failed", "waiting"} :
          /\ Move(j, phase) /\ mail[j].phase \in {"waiting", "delayed"}
    BY <1>3 DEF FailStalled, Retry, Is
  <2>2. UNCHANGED running
    BY <1>3 DEF FailStalled, Retry
  <2> QED
    BY <1>0, <2>1, <2>2, MoveEffect, Phases DEF Progress, Counts, Final
<1>4. CASE Complete(j) \/ Fail(j)
  <2>1. PICK phase \in {"completed", "failed", "delayed"} :
          /\ mail' = [mail EXCEPT ![j].phase = phase, ![j].made = @ + 1]
          /\ mail[j].phase \in Ended
          /\ phase = "delayed" => mail[j].made + 1 < Attempts
    <3>1. CASE Complete(j)
      BY <3>1 DEF Complete, Is, Ended
    <3>2. CASE Fail(j)
      <4>1. mail[j].phase \in Ended /\ mail[j].made \in Nat
        BY <1>0, <3>2 DEF Fail, Ended, Mail
      <4>2. CASE GivenUp(j)
        BY <3>2, <4>1, <4>2 DEF Fail
      <4>3. CASE ~GivenUp(j)
        <5>1. mail[j].made + 1 < Attempts
          BY <1>0, <4>1, <4>3 DEF GivenUp
        <5> QED
          BY <3>2, <4>1, <4>3, <5>1 DEF Fail
      <4> QED
        BY <4>2, <4>3
    <3> QED
      BY <1>4, <3>1, <3>2
  <2>2. mail'[j] = [mail[j] EXCEPT !.phase = phase, !.made = @ + 1]
    BY <1>0, <2>1 DEF TypeOK
  <2>3. mail[j].made \in 0..Attempts /\ mail[j].made < Attempts
    BY <1>0, <2>1, Phases DEF Counts, Final, Mail
  <2>4. mail'[j] \in Mail
    <3>1. mail[j].made + 1 \in 0..Attempts
      BY <1>0, <2>3
    <3> QED
      BY <1>0, <2>2, <3>1, Phases DEF Mail
  <2>5. /\ mail'[j].to = mail[j].to /\ mail'[j].made = mail[j].made + 1
        /\ mail'[j].phase = phase
    BY <1>0, <2>2 DEF Mail
  <2>6. mail' \in [Jobs -> Mail] /\ \A i \in Jobs \ {j} : mail'[i] = mail[i]
    BY <1>0, <2>1, <2>4 DEF TypeOK
  <2>7. UNCHANGED running
    BY <1>4 DEF Complete, Fail
  <2> QED
    BY <1>0, <2>1, <2>5, <2>6, <2>7, Phases DEF Progress, Counts, Final
<1> QED
  BY <1>1, <1>2, <1>3, <1>4 DEF WorkStep

\* A job the process holds for the first time.
LEMMA NewEffect ==
  ASSUME IInv, NEW j \in Jobs, NEW c \in Candidates \cup {None}, NEW secure \in BOOLEAN,
         New(j, c, secure)
  PROVE  /\ mail' \in [Jobs -> Mail]
         /\ \A i \in Jobs \ {j} : mail'[i] = mail[i]
         /\ mail[j].phase = "none" /\ mail'[j].phase \in {"adding", "gate"}
         /\ mail'[j].to = c
         /\ Counts(j)'
<1>0. mail[j] \in Mail /\ Counts(j) /\ TypeOK
  BY DEF IInv, TypeOK
<1> DEFINE phase == IF secure THEN "adding" ELSE "gate"
<1>1. /\ mail'[j] = [mail[j] EXCEPT !.to = c, !.secure = secure, !.phase = phase]
      /\ mail[j].phase = "none"
  BY <1>0 DEF New, Is, TypeOK
<1>2. phase \in {"adding", "gate"}
  OBVIOUS
<1> HIDE DEF phase
<1>3. mail'[j] \in Mail
  BY <1>0, <1>1, <1>2, Phases DEF Mail
<1>4. mail'[j].phase = phase /\ mail'[j].to = c /\ mail'[j].made = mail[j].made
  BY <1>0, <1>1 DEF Mail
<1>5. mail' \in [Jobs -> Mail] /\ \A i \in Jobs \ {j} : mail'[i] = mail[i]
  BY <1>0, <1>3 DEF TypeOK, New
<1>6. Counts(j)'
  BY <1>0, <1>1, <1>2, <1>4, Phases DEF Counts, Final
<1> QED
  BY <1>1, <1>2, <1>4, <1>5, <1>6

-----------------------------------------------------------------------------
(* Types: one e-mail is being sent at a time, and running counts it.       *)

\* The part of TypeOK about what no job is.
RestTyped ==
  /\ flag \in BOOLEAN \cup {None} /\ cached \in BOOLEAN \cup {None}
  /\ update \in {"idle", "invalidate"}
  /\ optedIn \subseteq Candidates /\ digest \in Digest
  /\ bury \subseteq Jobs /\ report \subseteq Jobs
  /\ buried \subseteq Jobs /\ reported \subseteq Jobs
  /\ rejected \subseteq Jobs

BeingSent == {j \in Jobs : mail[j].phase = "active"}

OneAtWork ==
  \A i, j \in Jobs : mail[i].phase \in Active /\ mail[j].phase \in Active => i = j

WorkTyped ==
  /\ mail \in [Jobs -> Mail] /\ RestTyped /\ OneAtWork
  /\ running = Cardinality(BeingSent) + (IF digest.phase = "active" THEN 1 ELSE 0)

LEMMA TypeParts == (TypeOK => WorkTyped) /\ (WorkTyped' => TypeOK')
BY DEF TypeOK, WorkTyped, RestTyped, OneAtWork, BeingSent

\* A step that neither takes a job up nor ends its sending.
LEMMA WorkerRests ==
  ASSUME TypeOK, mail' \in [Jobs -> Mail], RestTyped', UNCHANGED running,
         (digest.phase = "active") = (digest'.phase = "active"),
         NEW j \in Jobs, \A i \in Jobs \ {j} : mail'[i] = mail[i],
         mail[j].phase # "active", mail'[j].phase \notin Active
  PROVE  TypeOK'
<1>1. BeingSent' = BeingSent
  BY Phases DEF BeingSent
<1>2. OneAtWork'
  BY TypeParts DEF WorkTyped, OneAtWork
<1> QED
  BY <1>1, <1>2, TypeParts DEF WorkTyped

LEMMA PickTyped ==
  ASSUME TypeOK, mail' \in [Jobs -> Mail], NEW j \in Jobs, Pick(j),
         \A i \in Jobs \ {j} : mail'[i] = mail[i], mail'[j].phase = "active"
  PROVE  TypeOK'
<1>1. BeingSent = {} /\ BeingSent' = {j} /\ OneAtWork'
  BY Phases DEF Pick, BeingSent, OneAtWork
<1>2. Cardinality(BeingSent) = 0 /\ Cardinality(BeingSent') = 1
  BY <1>1, FS_EmptySet, FS_Singleton
<1>3. RestTyped' /\ UNCHANGED digest /\ running' = running + 1
  BY DEF Pick, TypeOK, RestTyped, settings, records
<1> QED
  BY <1>1, <1>2, <1>3, TypeParts DEF WorkTyped

LEMMA SendTyped ==
  ASSUME TypeOK, mail' \in [Jobs -> Mail], NEW j \in Jobs, Send(j),
         \A i \in Jobs \ {j} : mail'[i] = mail[i],
         mail[j].phase = "active", mail'[j].phase \in Ended
  PROVE  TypeOK'
<1>1. OneAtWork
  BY TypeParts DEF WorkTyped
<1>2. BeingSent = {j} /\ BeingSent' = {} /\ OneAtWork'
  BY <1>1, Phases DEF BeingSent, OneAtWork
<1>3. Cardinality(BeingSent) = 1 /\ Cardinality(BeingSent') = 0
  BY <1>2, FS_EmptySet, FS_Singleton
<1>4. RestTyped' /\ UNCHANGED digest /\ running' = running - 1
  BY DEF Send, Settle, TypeOK, RestTyped, settings, records
<1> QED
  BY <1>2, <1>3, <1>4, TypeParts DEF WorkTyped

-----------------------------------------------------------------------------
(* The digest.                                                             *)

\* A job goes on; the loop and the candidates stay.
LEMMA ProgressCovers ==
  ASSUME TypeOK, DigestInv, NEW j \in Jobs, Progress(j), UNCHANGED <<optedIn, digest>>
  PROVE  DigestInv'
<1>1. \A i \in Jobs : /\ mail'[i].to = mail[i].to
                      /\ Reached(i) => Reached(i)'
                      /\ mail[i].phase \notin {"none", "gone"} =>
                           mail'[i].phase \notin {"none", "gone"}
                      /\ Is(i, "none")' => Is(i, "none")
  BY Phases DEF Progress, Reached, Is
<1>2. digest.adds \in Jobs \cup {None}
  BY DEF TypeOK, Digest
<1> QED
  BY <1>1, <1>2 DEF DigestInv, DigestReachesAll, Covered, Reached, Is

\* Neither the jobs nor the loop are touched.
LEMMA JobsRest ==
  ASSUME IInv, UNCHANGED <<mail, optedIn, digest, running>>, RestTyped'
  PROVE  IInv'
<1>1. TypeOK'
  BY TypeParts DEF IInv, WorkTyped, OneAtWork, BeingSent
<1> QED
  BY <1>1 DEF IInv, Counts, DigestInv, DigestReachesAll, Covered, Reached, Is

\* A new job is nobody's yet, and the loop does not wait for it.
LEMMA AddKeeps ==
  ASSUME IInv, NEW j \in Jobs, Add(j)
  PROVE  IInv'
<1>1. PICK secure \in BOOLEAN : New(j, None, secure)
  BY DEF Add
<1>2. /\ mail' \in [Jobs -> Mail]
      /\ \A i \in Jobs \ {j} : mail'[i] = mail[i]
      /\ mail[j].phase = "none" /\ mail'[j].phase \in {"adding", "gate"}
      /\ Counts(j)'
  BY <1>1, NewEffect
<1>3. UNCHANGED <<optedIn, digest, running>> /\ RestTyped'
  BY DEF Add, IInv, TypeOK, RestTyped, settings, records
<1>4. TypeOK'
  BY <1>2, <1>3, WorkerRests, Phases DEF IInv
<1>5. DigestInv'
  <2>1. mail[j].to = None /\ None \notin Candidates /\ optedIn \subseteq Candidates
    BY <1>2, QueueAssumption DEF IInv, DigestInv, TypeOK, Is
  <2>2. \A i \in Jobs : /\ Is(i, "none")' => Is(i, "none") /\ i # j
                        /\ mail[i].to # None => i # j
    BY <1>2, <2>1 DEF Is
  <2>3. digest.adds \in Jobs \cup {None}
    BY DEF IInv, TypeOK, Digest
  <2>4. \A c \in optedIn : Covered(c) => Covered(c)'
    BY <1>2, <1>3, <2>1 DEF Covered, Reached
  <2> QED
    BY <1>2, <1>3, <2>1, <2>2, <2>3, <2>4 DEF IInv, DigestInv, DigestReachesAll, Reached, Is
<1> QED
  BY <1>2, <1>4, <1>5 DEF IInv, Counts

LEMMA DigestKeeps ==
  ASSUME IInv, Schedule \/ Compile \/ FinishDigest
  PROVE  IInv'
<1>0. UNCHANGED <<mail, optedIn>> /\ digest \in Digest
  BY DEF Schedule, Compile, FinishDigest, IInv, TypeOK
<1>1. BeingSent' = BeingSent /\ OneAtWork'
  BY <1>0, TypeParts DEF IInv, BeingSent, OneAtWork, WorkTyped
<1>2. digest' \in Digest
  BY <1>0 DEF Schedule, Compile, FinishDigest, Digest, IInv, TypeOK
<1>3. RestTyped'
  BY <1>0, <1>2 DEF Schedule, Compile, FinishDigest, IInv, TypeOK, RestTyped, settings, records
<1>4. running \in Int /\ Cardinality(BeingSent) \in Int
  <2>1. BeingSent = {} \/ \E j \in Jobs : BeingSent = {j}
    BY TypeParts, Phases DEF IInv, WorkTyped, OneAtWork, BeingSent
  <2>2. Cardinality(BeingSent) \in {0, 1}
    BY <2>1, FS_EmptySet, FS_Singleton
  <2> QED
    BY <2>2, TypeParts DEF IInv, WorkTyped
<1>5. running' = Cardinality(BeingSent) + (IF digest'.phase = "active" THEN 1 ELSE 0)
  <2>0. running = Cardinality(BeingSent) + (IF digest.phase = "active" THEN 1 ELSE 0)
    BY TypeParts DEF IInv, WorkTyped
  <2>1. CASE Schedule
    BY <1>0, <1>4, <2>0, <2>1 DEF Schedule, Digest
  <2>2. CASE Compile
    BY <1>0, <1>4, <2>0, <2>2 DEF Compile, Digest
  <2>3. CASE FinishDigest
    BY <1>0, <1>4, <2>0, <2>3 DEF FinishDigest, Digest
  <2> QED
    BY <2>1, <2>2, <2>3
<1>6. TypeOK'
  BY <1>0, <1>1, <1>3, <1>5, TypeParts DEF IInv, WorkTyped
<1>7. DigestInv'
  <2>1. CASE Schedule
    BY <1>0, <2>1 DEF Schedule, Digest, IInv, DigestInv, DigestReachesAll, Is
  <2>2. CASE Compile
    BY <1>0, <2>2 DEF Compile, Digest, IInv, DigestInv, DigestReachesAll, Is
  <2>3. CASE FinishDigest
    <3>1. digest'.phase = "done" /\ digest.phase = "active" /\ digest.left = {} /\ Added
      BY <1>0, <2>3 DEF FinishDigest, Digest
    <3>2. digest.adds \in Jobs \cup {None} /\ None \notin Jobs
      BY <1>0, QueueAssumption DEF Digest
    <3>3. ASSUME NEW c \in optedIn
          PROVE  \E j \in Jobs : mail[j].to = c /\ Reached(j)
      <4>1. PICK j \in Jobs : mail[j].to = c /\ (Reached(j) \/ j = digest.adds)
        BY <3>1 DEF IInv, DigestInv, Covered
      <4>2. CASE j = digest.adds
        BY <3>1, <3>2, <4>1, <4>2 DEF Added, IInv, DigestInv, Reached
      <4> QED
        BY <4>1, <4>2
    <3> QED
      BY <1>0, <3>1, <3>3 DEF IInv, DigestInv, DigestReachesAll, Reached, Is
  <2> QED
    BY <2>1, <2>2, <2>3
<1> QED
  BY <1>0, <1>6, <1>7 DEF IInv, Counts

\* The loop comes to a candidate: the job it waited for so far is in the queue.
LEMMA AddDigestKeeps ==
  ASSUME IInv, NEW j \in Jobs, NEW c \in Candidates, AddDigest(j, c)
  PROVE  IInv'
<1>0. /\ digest \in Digest /\ digest.phase = "active" /\ Added
      /\ digest' = [digest EXCEPT !.left = @ \ {c}, !.adds = j]
      /\ New(j, c, FALSE) /\ None \notin Jobs \cup Candidates
  BY QueueAssumption DEF AddDigest, IInv, TypeOK
<1>1. /\ digest' \in Digest /\ digest'.phase = "active"
      /\ digest'.left = digest.left \ {c} /\ digest'.adds = j
  BY <1>0 DEF Digest
<1>2. /\ mail' \in [Jobs -> Mail]
      /\ \A i \in Jobs \ {j} : mail'[i] = mail[i]
      /\ mail[j].phase = "none" /\ mail'[j].phase \in {"adding", "gate"}
      /\ mail'[j].to = c /\ Counts(j)'
  BY <1>0, NewEffect
<1>3. UNCHANGED <<optedIn, running>> /\ RestTyped'
  BY <1>1 DEF AddDigest, IInv, TypeOK, RestTyped, settings, records
<1>4. TypeOK'
  BY <1>0, <1>1, <1>2, <1>3, WorkerRests, Phases DEF IInv
<1>5. DigestInv'
  <2>1. \A d \in optedIn \ digest'.left : Covered(d)'
    <3> SUFFICES ASSUME NEW d \in optedIn \ digest'.left, d # c PROVE Covered(d)'
      BY <1>1, <1>2 DEF Covered
    <3>1. PICK i \in Jobs : mail[i].to = d /\ (Reached(i) \/ i = digest.adds)
      BY <1>0, <1>1 DEF IInv, DigestInv, Covered
    <3>2. i # j
      <4>1. mail[j].to = None
        BY <1>2 DEF IInv, DigestInv, Is
      <4>2. d \in Candidates
        BY DEF IInv, TypeOK
      <4> QED
        BY <1>0, <3>1, <4>1, <4>2
    <3>3. Reached(i)
      BY <1>0, <3>1 DEF IInv, DigestInv, Added, Reached
    <3> QED
      BY <1>2, <3>1, <3>2, <3>3 DEF Covered, Reached
  <2>2. \A i \in Jobs : Is(i, "none")' => mail'[i].to = None
    BY <1>2 DEF IInv, DigestInv, Is
  <2> QED
    BY <1>1, <1>2, <1>3, <2>1, <2>2 DEF DigestInv, DigestReachesAll
<1> QED
  BY <1>2, <1>4, <1>5 DEF IInv, Counts

-----------------------------------------------------------------------------
(* A stop of the process.                                                  *)

LEMMA StoppedJob ==
  ASSUME IInv, Crash, NEW j \in Jobs
  PROVE  /\ mail'[j] \in Mail /\ Counts(j)'
         /\ mail'[j].to = mail[j].to
         /\ mail'[j].phase \notin Active
         /\ Reached(j) => Reached(j)'
         /\ Is(j, "none")' => Is(j, "none")
<1>0. mail[j] \in Mail /\ Counts(j) /\ MaxStalled \in Nat /\ mail'[j] = AfterStop(mail[j])
  <2>1. mail' = [i \in Jobs |-> AfterStop(mail[i])]
    BY DEF Crash
  <2>2. mail'[j] = AfterStop(mail[j])
    BY <2>1
  <2>3. mail \in [Jobs -> Mail] /\ Counts(j)
    BY DEF IInv, TypeOK
  <2>4. MaxStalled \in Nat
    BY QueueAssumption
  <2> QED
    BY <2>2, <2>3, <2>4
<1>1. CASE mail[j].phase \in InMemory
  <2>1. mail'[j] = [mail[j] EXCEPT !.phase = "gone", !.row = None]
    BY <1>0, <1>1, Phases DEF AfterStop
  <2>2. mail'[j] \in Mail
    BY <1>0, <2>1, Phases DEF Mail
  <2>3. mail'[j].phase = "gone" /\ mail'[j].to = mail[j].to
    BY <1>0, <2>1 DEF Mail
  <2> QED
    BY <1>1, <2>2, <2>3, Phases DEF Counts, Final, Reached, Is
<1>2. CASE mail[j].phase \in Active
  <2>1. mail'[j] = [mail[j] EXCEPT !.phase = "waiting", !.stalls = @ + 1]
    BY <1>0, <1>2, Phases DEF AfterStop
  <2>2. mail[j].stalls + 1 \in 0..(MaxStalled + 1)
    BY <1>0, <1>2 DEF Counts, Mail
  <2>3. mail'[j] \in Mail
    BY <1>0, <2>1, <2>2, Phases DEF Mail
  <2>4. mail'[j].phase = "waiting" /\ mail'[j].to = mail[j].to /\ mail'[j].made = mail[j].made
    BY <1>0, <2>1 DEF Mail
  <2> QED
    BY <1>0, <1>2, <2>3, <2>4, Phases DEF Counts, Final, Reached, Is
<1>3. CASE mail[j].phase \notin InMemory \cup Active
  <2>1. mail'[j] = mail[j]
    BY <1>0, <1>3, Phases DEF AfterStop
  <2> QED
    BY <1>0, <1>3, <2>1 DEF Counts, Reached, Is
<1> QED
  BY <1>1, <1>2, <1>3

LEMMA CrashKeeps ==
  ASSUME IInv, Crash
  PROVE  IInv'
<1>1. mail' \in [Jobs -> Mail]
  <2>1. mail' = [j \in Jobs |-> AfterStop(mail[j])]
    BY DEF Crash
  <2>2. \A j \in Jobs : AfterStop(mail[j]) \in Mail
    BY <2>1, StoppedJob
  <2> QED
    BY <2>1, <2>2
<1>2. BeingSent' = {} /\ OneAtWork'
  BY StoppedJob, Phases DEF BeingSent, OneAtWork
<1>3. digest' \in Digest /\ digest'.phase # "active" /\ (digest'.phase = "done" => digest' = digest)
  <2>1. digest \in Digest /\ MaxStalled \in Nat
    BY QueueAssumption DEF IInv, TypeOK
  <2>2. CASE digest.phase # "active"
    BY <2>1, <2>2 DEF Crash
  <2>3. CASE digest.phase = "active" /\ digest.stalls = MaxStalled
    <3>1. digest' = [NoDigest EXCEPT !.phase = "failed"]
      BY <2>3 DEF Crash
    <3> QED
      BY <2>1, <3>1 DEF NoDigest, Digest
  <2>4. CASE digest.phase = "active" /\ digest.stalls # MaxStalled
    <3>1. digest' = [NoDigest EXCEPT !.phase = "waiting", !.stalls = digest.stalls + 1]
      BY <2>4 DEF Crash
    <3>2. digest.stalls + 1 \in 0..MaxStalled
      BY <2>1, <2>4 DEF Digest
    <3> QED
      BY <3>1, <3>2 DEF NoDigest, Digest
  <2> QED
    BY <2>2, <2>3, <2>4
<1>4. RestTyped' /\ UNCHANGED optedIn /\ running' = 0
  BY <1>3 DEF Crash, IInv, TypeOK, RestTyped
<1>5. TypeOK'
  <2>1. Cardinality(BeingSent') = 0
    BY <1>2, FS_EmptySet
  <2> QED
    BY <1>1, <1>2, <1>3, <1>4, <2>1, TypeParts DEF WorkTyped
<1>6. DigestInv'
  <2>1. \A j \in Jobs : Is(j, "none")' => mail'[j].to = None
    BY StoppedJob DEF IInv, DigestInv
  <2>2. DigestReachesAll'
    BY <1>3, <1>4, StoppedJob DEF IInv, DigestInv, DigestReachesAll, Reached
  <2> QED
    BY <1>3, <2>1, <2>2 DEF DigestInv
<1> QED
  BY <1>5, <1>6, StoppedJob DEF IInv

-----------------------------------------------------------------------------
(* The invariant is inductive.                                             *)

LEMMA InitEstablishes == Init => IInv
<1> SUFFICES ASSUME Init PROVE IInv
  OBVIOUS
<1>1. NoMail \in Mail /\ NoMail.phase = "none" /\ NoMail.made = 0 /\ NoMail.to = None
  BY QueueAssumption, Phases DEF NoMail, Mail
<1>2. NoDigest \in Digest /\ NoDigest.phase = "none"
  BY QueueAssumption DEF NoDigest, Digest
<1>3. Cardinality({j \in Jobs : mail[j].phase = "active"}) = 0
  <2>1. {j \in Jobs : mail[j].phase = "active"} = {}
    BY <1>1 DEF Init
  <2> QED
    BY <2>1, FS_EmptySet
<1>4. TypeOK
  BY <1>1, <1>2, <1>3, Phases DEF Init, TypeOK
<1>5. \A j \in Jobs : Counts(j)
  BY <1>1, QueueAssumption, Phases DEF Init, Counts
<1> QED
  BY <1>1, <1>2, <1>4, <1>5 DEF Init, IInv, DigestInv, DigestReachesAll, Is

LEMMA JobStepKeeps ==
  ASSUME IInv, NEW j \in Jobs,
         AddStep(j) \/ WorkStep(j) \/ ReadFlagFails(j) \/ EnqueueFails(j)
  PROVE  IInv'
<1>1. Progress(j) /\ Counts(j)'
  BY AddProgress, WorkProgress
<1>2. UNCHANGED <<optedIn, digest>>
  BY DEF AddStep, CacheHit, ReadFlag, StoreFlag, Enqueue, WorkStep, Pick, Send, Complete, Fail,
     FailStalled, Retry, ReadFlagFails, EnqueueFails
<1>3. RestTyped'
  <2>1. CASE AddStep(j) \/ ReadFlagFails(j) \/ EnqueueFails(j)
    BY <2>1 DEF AddStep, CacheHit, ReadFlag, StoreFlag, Enqueue, ReadFlagFails, EnqueueFails,
       Enabled, IInv, TypeOK, RestTyped, settings, records
  <2>2. CASE WorkStep(j)
    BY <2>2 DEF WorkStep, Pick, Send, Settle, Complete, Fail, FailStalled, Retry,
       IInv, TypeOK, RestTyped, settings, records
  <2> QED
    BY <2>1, <2>2
<1>4. TypeOK'
  <2>1. CASE AddStep(j) \/ ReadFlagFails(j) \/ EnqueueFails(j)
    <3>1. UNCHANGED running
      BY <2>1 DEF AddStep, CacheHit, ReadFlag, StoreFlag, Enqueue, ReadFlagFails, EnqueueFails
    <3> QED
      BY <1>1, <1>2, <1>3, <2>1, <3>1, AddProgress, WorkerRests, Phases DEF Progress, IInv
  <2>2. CASE WorkStep(j)
    BY <1>1, <1>2, <1>3, <2>2, WorkProgress, PickTyped, SendTyped, WorkerRests
       DEF Progress, IInv
  <2> QED
    BY <2>1, <2>2
<1> QED
  BY <1>1, <1>2, <1>4, ProgressCovers DEF IInv, Progress, Counts

LEMMA NextPreserves == IInv /\ [Next]_vars => IInv'
<1> SUFFICES ASSUME IInv, [Next]_vars PROVE IInv'
  OBVIOUS
<1>1. CASE UNCHANGED vars
  BY <1>1, JobsRest DEF vars, IInv, TypeOK, RestTyped, settings, records
<1>2. ASSUME NEW j \in Jobs, RecordStep(j) \/ BuryFails(j) \/ ReportFails(j) PROVE IInv'
  BY <1>2, JobsRest DEF RecordStep, Bury, Report, BuryFails, ReportFails,
     IInv, TypeOK, RestTyped, settings
<1>3. CASE FlagStep
  BY <1>3, JobsRest DEF FlagStep, WriteFlag, InvalidateFlag, ExpireFlag,
     IInv, TypeOK, RestTyped, records
<1>4. CASE Schedule \/ DigestStep
  BY <1>4, DigestKeeps, AddDigestKeeps DEF DigestStep
<1>5. ASSUME NEW j \in Jobs, Add(j) \/ AddStep(j) \/ WorkStep(j) \/ Faults(j) PROVE IInv'
  BY <1>2, <1>5, AddKeeps, JobStepKeeps DEF Faults
<1> QED
  BY <1>1, <1>2, <1>3, <1>4, <1>5, CrashKeeps DEF Next

-----------------------------------------------------------------------------
(* Dead letters: the instances of MCBackground under the load "steady".    *)

RecordInv == IInv /\ SteadyFailureOnRecord /\ SteadyRejectedNotResent

\* A step that does not end a job as failed, nor touches one SES rejected.
LEMMA RecordsKept ==
  ASSUME FailureOnRecord, RejectedNotResent, UNCHANGED <<records, rejected>>,
         NEW j \in Jobs, \A i \in Jobs \ {j} : mail'[i] = mail[i],
         mail[j].phase \notin {"permanent", "failed"}, mail'[j].phase # "failed",
         rejected \subseteq Jobs
  PROVE  FailureOnRecord' /\ RejectedNotResent'
<1>1. j \notin rejected
  BY DEF RejectedNotResent
<1> QED
  BY <1>1 DEF FailureOnRecord, RejectedNotResent, Is, records

\* What happens to the jobs while the process stays up and records are taken.
SteadyStep ==
  \/ \E j \in Jobs : \/ Add(j) \/ AddStep(j) \/ WorkStep(j) \/ RecordStep(j)
                     \/ ReadFlagFails(j) \/ EnqueueFails(j)
  \/ Schedule \/ DigestStep \/ FlagStep

LEMMA AddsOnRecord ==
  ASSUME IInv, FailureOnRecord, RejectedNotResent, NEW j \in Jobs,
         \/ AddStep(j) \/ ReadFlagFails(j) \/ EnqueueFails(j)
         \/ Add(j) \/ \E c \in Candidates : AddDigest(j, c)
  PROVE  FailureOnRecord' /\ RejectedNotResent'
<1>0. rejected \subseteq Jobs
  BY DEF IInv, TypeOK
<1>1. CASE AddStep(j) \/ ReadFlagFails(j) \/ EnqueueFails(j)
  <2>1. UNCHANGED <<records, rejected>>
    BY <1>1 DEF AddStep, CacheHit, ReadFlag, StoreFlag, Enqueue, ReadFlagFails, EnqueueFails
  <2> QED
    BY <1>0, <1>1, <2>1, AddProgress, RecordsKept, Phases DEF Progress
<1>2. CASE Add(j) \/ \E c \in Candidates : AddDigest(j, c)
  <2>1. \E c \in Candidates \cup {None}, secure \in BOOLEAN : New(j, c, secure)
    BY <1>2 DEF Add, AddDigest
  <2>2. UNCHANGED <<records, rejected>>
    BY <1>2 DEF Add, AddDigest
  <2> QED
    BY <1>0, <2>1, <2>2, NewEffect, RecordsKept
<1> QED
  BY <1>1, <1>2

\* A job is on record from the step that gives it up.
LEMMA WorkOnRecord ==
  ASSUME IInv, FailureOnRecord, RejectedNotResent, NEW j \in Jobs, WorkStep(j)
  PROVE  FailureOnRecord' /\ RejectedNotResent'
<1>0. rejected \subseteq Jobs /\ TypeOK /\ Progress(j)
  BY WorkProgress DEF IInv, TypeOK
<1>1. CASE Pick(j) \/ Complete(j) \/ Retry(j)
  <2>1. UNCHANGED <<records, rejected>> /\ mail[j].phase \notin {"permanent", "failed"}
    BY <1>1 DEF Pick, Complete, Retry, Is
  <2>2. mail'[j].phase # "failed"
    <3>1. CASE Pick(j) \/ Retry(j)
      <4>1. \E phase \in {"active", "waiting"} : Move(j, phase)
        BY <3>1 DEF Pick, Retry
      <4> QED
        BY <1>0, <4>1, MoveEffect, Phases
    <3>2. CASE Complete(j)
      BY <1>0, <3>2 DEF Complete, TypeOK, Mail
    <3> QED
      BY <1>1, <3>1, <3>2
  <2> QED
    BY <1>0, <2>1, <2>2, RecordsKept DEF Progress
<1>2. CASE Send(j)
  <2>1. PICK outcome \in Ended : Settle(j, outcome)
    BY <1>2 DEF Send
  <2>2. /\ mail'[j].phase = outcome /\ mail[j].phase = "active"
        /\ rejected' = IF outcome = "permanent" THEN rejected \cup {j} ELSE rejected
    BY <1>0, <2>1, MoveEffect, Phases DEF Settle, Is
  <2>3. UNCHANGED records /\ outcome # "failed"
    BY <1>2, Phases DEF Send
  <2> QED
    BY <1>0, <2>2, <2>3 DEF Progress, FailureOnRecord, RejectedNotResent, Is, records
<1>3. CASE Fail(j)
  <2>1. /\ mail'[j].phase = IF GivenUp(j) THEN "failed" ELSE "delayed"
        /\ mail[j].phase \in {"transient", "permanent"}
    BY <1>0, <1>3 DEF Fail, TypeOK, Mail
  <2>2. GivenUp(j) = OnRecord(j) /\ (Is(j, "permanent") => GivenUp(j))
    BY DEF GivenUp, OnRecord, Unrecoverable
  <2>3. /\ bury' = IF OnRecord(j) THEN bury \cup {j} ELSE bury
        /\ report' = IF OnRecord(j) THEN report \cup {j} ELSE report
        /\ UNCHANGED <<buried, reported, rejected>>
    BY <1>3 DEF Fail
  <2>4. FailureOnRecord'
    BY <1>0, <2>1, <2>2, <2>3 DEF Progress, FailureOnRecord, Is
  <2>5. RejectedNotResent'
    BY <1>0, <2>1, <2>2, <2>3 DEF Progress, RejectedNotResent, Is
  <2> QED
    BY <2>4, <2>5
<1>4. CASE FailStalled(j)
  <2>1. mail'[j].phase = "failed"
    BY <1>0, <1>4, MoveEffect, Phases DEF FailStalled
  <2>2. bury' = bury \cup {j} /\ report' = report \cup {j} /\ UNCHANGED <<buried, reported, rejected>>
    BY <1>4 DEF FailStalled
  <2> QED
    BY <1>0, <2>1, <2>2 DEF Progress, FailureOnRecord, RejectedNotResent, Is
<1> QED
  BY <1>1, <1>2, <1>3, <1>4 DEF WorkStep

LEMMA SteadyKeeps ==
  ASSUME IInv, FailureOnRecord, RejectedNotResent, SteadyStep
  PROVE  FailureOnRecord' /\ RejectedNotResent'
<1>1. ASSUME NEW j \in Jobs, RecordStep(j)
      PROVE  FailureOnRecord' /\ RejectedNotResent'
  BY <1>1 DEF RecordStep, Bury, Report, FailureOnRecord, RejectedNotResent, Is
<1>2. CASE Schedule \/ Compile \/ FinishDigest \/ FlagStep
  BY <1>2 DEF Schedule, Compile, FinishDigest, FlagStep, WriteFlag, InvalidateFlag,
     ExpireFlag, FailureOnRecord, RejectedNotResent, Is, records
<1> QED
  BY <1>1, <1>2, AddsOnRecord, WorkOnRecord DEF SteadyStep, DigestStep

\* The steps of the loads are steps of the queue.
LEMMA MailsNext ==
  ASSUME [MCNext]_<<vars, mcVars, eventVars>>
  PROVE  [Next]_vars /\ UNCHANGED load /\ (load = "steady" => SteadyStep \/ UNCHANGED vars)
<1>1. CASE MailsStep /\ UNCHANGED load
  BY <1>1 DEF MailsStep, RecordLost, Next, Faults, FlagStep, SteadyStep
<1>2. CASE UNCHANGED vars /\ UNCHANGED load
  BY <1>2
<1> QED
  BY <1>1, <1>2 DEF MCNext, mcVars

LEMMA RecordNext ==
  ASSUME RecordInv, [MCNext]_<<vars, mcVars, eventVars>>
  PROVE  RecordInv'
<1>1. UNCHANGED vars => (FailureOnRecord => FailureOnRecord')
                        /\ (RejectedNotResent => RejectedNotResent')
  BY DEF vars, records, FailureOnRecord, RejectedNotResent, Is
<1> QED
  BY <1>1, MailsNext, NextPreserves, SteadyKeeps
     DEF RecordInv, SteadyFailureOnRecord, SteadyRejectedNotResent

LEMMA RecordInit == MCInit => RecordInv
<1> SUFFICES ASSUME MCInit PROVE RecordInv
  OBVIOUS
<1>1. Init /\ \A j \in Jobs : mail[j].phase = "none"
  BY DEF MCInit, Init, NoMail
<1> QED
  BY <1>1, InitEstablishes DEF RecordInv, SteadyFailureOnRecord, SteadyRejectedNotResent,
     FailureOnRecord, RejectedNotResent, Init, Is

-----------------------------------------------------------------------------
(* Theorems.                                                               *)

\* However the process stops, jobs, flag, digest and records keep their types,
\* the worker sends one e-mail at a time, and queueMetrics.activeJobs counts
\* what is being worked at.
THEOREM TypeCorrect == Spec => []TypeOK
<1>1. IInv => TypeOK
  BY DEF IInv
<1> QED
  BY InitEstablishes, NextPreserves, <1>1, PTL DEF Spec

\* However often the process stops half way, a digest that is done has reached
\* every candidate who wants it (compileDailyDigests, addJob), what the flag
\* forbids and Redis refuses aside.
THEOREM DigestComplete == Spec => []DigestReachesAll
<1>1. IInv => DigestReachesAll
  BY DEF IInv, DigestInv
<1> QED
  BY InitEstablishes, NextPreserves, <1>1, PTL DEF Spec

\* As long as the process stays up, no job is given up without its dead letter
\* and its audit row, written or about to be (the worker's "failed" handler).
THEOREM NoFailureUnrecorded == MCSpec => []SteadyFailureOnRecord
<1>1. RecordInv => SteadyFailureOnRecord
  BY DEF RecordInv
<1> QED
  BY RecordInit, RecordNext, <1>1, PTL DEF MCSpec

\* As long as the process stays up, a mail that SES rejected for good is never
\* tried again (UnrecoverableError).
THEOREM RejectionFinal == MCSpec => []SteadyRejectedNotResent
<1>1. RecordInv => SteadyRejectedNotResent
  BY DEF RecordInv
<1> QED
  BY RecordInit, RecordNext, <1>1, PTL DEF MCSpec

-----------------------------------------------------------------------------
(* The event listeners: what the plans say.                                *)

\* A step of a plan.
PlanStep == [do : {"audit", "look", "tell", "admins", "staff", "matched"},
             key : {"none", "own", "once", "detail"}]

LEMMA StepsAre ==
  /\ Events!Audit \in PlanStep /\ Events!Audit.do = "audit"
  /\ Events!Look \in PlanStep
  /\ \A key \in {"own", "once", "detail"} :
       /\ Events!Tell(key) \in PlanStep
       /\ \A group \in {"admins", "staff", "matched"} : Events!Fan(group, key) \in PlanStep
BY DEF Events!Audit, Events!Look, Events!Tell, Events!Fan, PlanStep

\* Every event has a plan, the one that is not yet there an empty one.
LEMMA PlanIsSeq ==
  ASSUME NEW e \in Events!Event \cup {Events!NoEvent}
  PROVE  Events!Plan(e) \in Seq(PlanStep)
<1>0. e.addressed \in BOOLEAN
  <2>1. CASE e \in Events!Event
    BY <2>1 DEF Events!Event
  <2>2. CASE e = Events!NoEvent
    BY <2>2 DEF Events!NoEvent
  <2> QED
    BY <2>1, <2>2
<1>1. Events!PerkReviewed(e) \in Seq(PlanStep) /\ Events!JobApproved(e) \in Seq(PlanStep)
        /\ Events!JobRejected(e) \in Seq(PlanStep)
  <2>1. /\ Events!If(e, <<Events!Tell("own")>>) \in Seq(PlanStep)
        /\ Events!If(e, <<Events!Tell("once")>>) \in Seq(PlanStep)
        /\ <<Events!Audit>> \in Seq(PlanStep) /\ <<Events!Look>> \in Seq(PlanStep)
        /\ <<Events!Fan("matched", "once")>> \in Seq(PlanStep)
    BY <1>0, StepsAre DEF Events!If
  <2> QED
    BY <2>1 DEF Events!PerkReviewed, Events!JobApproved, Events!JobRejected
<1>2. /\ Events!ApplicationStatusChanged(e) \in Seq(PlanStep)
      /\ Events!RoleAssigned(e) \in Seq(PlanStep)
      /\ Events!SupportTicketCommentAdded(e) \in Seq(PlanStep)
  BY <1>0, StepsAre DEF Events!ApplicationStatusChanged, Events!RoleAssigned,
    Events!SupportTicketCommentAdded, Events!If
<1>3. /\ Events!ApplicationSubmitted \in Seq(PlanStep)
      /\ Events!ApplicationWithdrawn \in Seq(PlanStep)
      /\ Events!CompanyRegistered \in Seq(PlanStep)
      /\ Events!CompanyVerificationResubmitted \in Seq(PlanStep)
      /\ Events!CompanyDocumentUploaded \in Seq(PlanStep)
      /\ Events!PerkDocumentUploaded \in Seq(PlanStep)
      /\ Events!PerkSubmitted \in Seq(PlanStep) /\ Events!InterviewScheduled \in Seq(PlanStep)
      /\ Events!OfferReleased \in Seq(PlanStep)
      /\ Events!JobSubmittedForApproval \in Seq(PlanStep)
      /\ Events!AdminAccountCreated \in Seq(PlanStep)
      /\ Events!SupportTicketCreated \in Seq(PlanStep)
      /\ Events!SupportTicketStatusChanged \in Seq(PlanStep)
      /\ Events!AdminAccountStatusChanged \in Seq(PlanStep)
      /\ <<Events!Audit>> \in Seq(PlanStep)
  BY StepsAre DEF Events!ApplicationSubmitted, Events!ApplicationWithdrawn,
    Events!CompanyRegistered,
    Events!CompanyVerificationResubmitted, Events!CompanyDocumentUploaded,
      Events!PerkDocumentUploaded, Events!PerkSubmitted,
    Events!InterviewScheduled, Events!OfferReleased, Events!JobSubmittedForApproval,
      Events!AdminAccountCreated,
    Events!SupportTicketCreated, Events!SupportTicketStatusChanged,
      Events!AdminAccountStatusChanged
<1> QED
  BY <1>1, <1>2, <1>3 DEF Events!Plan

\* The step of the plan that tells whom an event is news for.
NewsAt == [CompanyVerificationResubmitted |-> 2, CompanyDocumentUploaded |-> 2,
   PerkDocumentUploaded |-> 2, ApplicationSubmitted |-> 1,
   ApplicationWithdrawn |-> 1, OfferReleased |-> 1,
   SupportTicketStatusChanged |-> 1, AdminAccountStatusChanged |-> 1]

\* That step tells all of them, under a key of its own.
LEMMA NewsPlans ==
  ASSUME NEW e \in Events!Event, e.type \in DOMAIN Events!NewsEachTime
  PROVE  /\ NewsAt[e.type] \in 1..Len(Events!Plan(e))
         /\ Events!Plan(e)[NewsAt[e.type]].key = "own"
         /\ \/ Events!Plan(e)[NewsAt[e.type]].do = "tell"
                 /\ Events!NewsEachTime[e.type] = {Owner}
            \/ Events!Plan(e)[NewsAt[e.type]].do = "admins"
                 /\ Events!NewsEachTime[e.type] = Admins
<1>1. /\ Events!Tell("own").do = "tell" /\ Events!Tell("own").key = "own"
      /\ Events!Fan("admins", "own").do = "admins" /\ Events!Fan("admins", "own").key = "own"
  BY DEF Events!Tell, Events!Fan
<1>2. CASE e.type = "CompanyVerificationResubmitted"
  <2>1. Events!Plan(e) = <<Events!Audit, Events!Fan("admins", "own")>>
    BY <1>2 DEF Events!Plan, Events!Audited, Events!AccountAudits, Events!CompanyAudits,
      Events!JobAudits, Events!CompanyVerificationResubmitted
  <2> QED BY <1>1, <1>2, <2>1 DEF NewsAt, Events!NewsEachTime
<1>3. CASE e.type = "CompanyDocumentUploaded"
  <2>1. Events!Plan(e) = <<Events!Audit, Events!Fan("admins", "own")>>
    BY <1>3 DEF Events!Plan, Events!Audited, Events!AccountAudits, Events!CompanyAudits,
      Events!JobAudits, Events!CompanyDocumentUploaded
  <2> QED BY <1>1, <1>3, <2>1 DEF NewsAt, Events!NewsEachTime
<1>4. CASE e.type = "PerkDocumentUploaded"
  <2>1. Events!Plan(e) = <<Events!Audit, Events!Fan("admins", "own")>>
    BY <1>4 DEF Events!Plan, Events!Audited, Events!AccountAudits, Events!CompanyAudits,
      Events!JobAudits, Events!PerkDocumentUploaded
  <2> QED BY <1>1, <1>4, <2>1 DEF NewsAt, Events!NewsEachTime
<1>5. CASE e.type = "ApplicationSubmitted"
  <2>1. Events!Plan(e) = <<Events!Tell("own"), Events!Fan("admins", "once"), Events!Audit>>
    BY <1>5 DEF Events!Plan, Events!Audited, Events!AccountAudits, Events!CompanyAudits,
      Events!JobAudits, Events!ApplicationSubmitted
  <2> QED BY <1>1, <1>5, <2>1 DEF NewsAt, Events!NewsEachTime
<1>6. CASE e.type = "ApplicationWithdrawn"
  <2>1. Events!Plan(e) = <<Events!Tell("own"), Events!Audit>>
    BY <1>6 DEF Events!Plan, Events!Audited, Events!AccountAudits, Events!CompanyAudits,
      Events!JobAudits, Events!ApplicationWithdrawn
  <2> QED BY <1>1, <1>6, <2>1 DEF NewsAt, Events!NewsEachTime
<1>7. CASE e.type = "OfferReleased"
  <2>1. Events!Plan(e) = <<Events!Tell("own"), Events!Fan("admins", "once"), Events!Audit>>
    BY <1>7 DEF Events!Plan, Events!Audited, Events!AccountAudits, Events!CompanyAudits,
      Events!JobAudits, Events!OfferReleased
  <2> QED BY <1>1, <1>7, <2>1 DEF NewsAt, Events!NewsEachTime
<1>8. CASE e.type \in {"SupportTicketStatusChanged", "AdminAccountStatusChanged"}
  <2>1. Events!Plan(e) = <<Events!Tell("own")>>
    BY <1>8 DEF Events!Plan, Events!Audited, Events!AccountAudits, Events!CompanyAudits,
      Events!JobAudits, Events!SupportTicketStatusChanged,
      Events!AdminAccountStatusChanged
  <2> QED BY <1>1, <1>8, <2>1 DEF NewsAt, Events!NewsEachTime
<1> QED
  BY <1>2, <1>3, <1>4, <1>5, <1>6, <1>7, <1>8 DEF Events!NewsEachTime

\* The plans that begin by putting the event on record.
LEMMA RecordedPlans ==
  ASSUME NEW e \in Events!Event, e.type \in Events!RecordedFirst
  PROVE  Events!Plan(e) # <<>> /\ Events!Plan(e)[1].do = "audit"
<1>0. e.addressed \in BOOLEAN
  BY DEF Events!Event
<1>1. CASE e.type \in Events!Audited
  <2>1. Events!Plan(e) = <<Events!Audit>>
    BY <1>1 DEF Events!Plan, Events!Audited, Events!AccountAudits, Events!CompanyAudits,
      Events!JobAudits
  <2> QED BY <2>1, StepsAre
<1>2. CASE e.type \in {"CompanyRegistered", "CompanyVerificationResubmitted",
    "CompanyDocumentUploaded", "PerkDocumentUploaded", "PerkSubmitted"}
  <2>1. \E key \in {"own", "once", "detail"} :
          Events!Plan(e) = <<Events!Audit, Events!Fan("admins", key)>>
    BY <1>2 DEF Events!Plan, Events!Audited, Events!AccountAudits, Events!CompanyAudits,
      Events!JobAudits, Events!CompanyRegistered,
      Events!CompanyVerificationResubmitted, Events!CompanyDocumentUploaded,
        Events!PerkDocumentUploaded, Events!PerkSubmitted
  <2> QED BY <2>1, StepsAre
<1>3. CASE e.type = "JobApproved"
  <2>1. Events!Plan(e) = <<Events!Audit>> \o Events!If(e,
          <<Events!Tell("once")>>) \o <<Events!Fan("matched", "once")>>
    BY <1>3 DEF Events!Plan, Events!Audited, Events!AccountAudits, Events!CompanyAudits,
      Events!JobAudits, Events!JobApproved
  <2>2. Events!If(e, <<Events!Tell("once")>>) \in Seq(PlanStep)
    BY <1>0, StepsAre DEF Events!If
  <2> QED BY <2>1, <2>2, StepsAre
<1> QED
  BY <1>1, <1>2, <1>3 DEF Events!RecordedFirst

-----------------------------------------------------------------------------
(* The event listeners: types.                                             *)

\* While people are to be told, at is the step of the plan that tells them.
Shape(o) ==
  /\ bell[o].phase = "running" => (bell[o].known <=> bell[o].todo # {})
  /\ bell[o].phase = "done" => bell[o].todo = {}
  /\ bell[o].phase = "running" \/ bell[o].todo # {} =>
       event[o] \in Events!Event /\ bell[o].at \in 1..Len(Events!Steps(o))
  /\ bell[o].todo # {} => Events!At(o).do \notin {"audit", "look"}

EventsInv == Events!TypeOK /\ \A o \in Occurrences : Shape(o)

\* The step a handler is at.
LEMMA StepAt ==
  ASSUME Events!TypeOK, NEW o \in Occurrences, bell[o].at \in 1..Len(Events!Steps(o))
  PROVE  Events!At(o) \in PlanStep
<1>1. Events!Steps(o) \in Seq(PlanStep)
  BY PlanIsSeq DEF Events!TypeOK, Events!Steps
<1> QED
  BY <1>1 DEF Events!At

\* The handler after its step: at the next one, knowing nothing, or done.
LEMMA AdvancedIs ==
  ASSUME EventsInv, NEW o \in Occurrences, Events!Running(o)
  PROVE  /\ Events!Advanced(o) \in Events!Handler
         /\ ~Events!Advanced(o).known /\ Events!Advanced(o).todo = {}
         /\ Events!Advanced(o).at = bell[o].at + 1
         /\ Events!Advanced(o).phase \in {"running", "done"}
         /\ Events!Advanced(o).phase = "running"
              => Events!Advanced(o).at \in 1..Len(Events!Steps(o))
         /\ event[o] \in Events!Event /\ bell[o].at \in 1..Len(Events!Steps(o))
         /\ Events!At(o) \in PlanStep
<1>1. bell[o] \in Events!Handler /\ event[o] \in Events!Event
        /\ bell[o].at \in 1..Len(Events!Steps(o))
  BY DEF EventsInv, Events!TypeOK, Shape, Events!Running
<1>2. Events!Steps(o) \in Seq(PlanStep) /\ Len(Events!Steps(o)) \in Nat
  BY <1>1, PlanIsSeq DEF Events!Steps
<1>3. Events!At(o) \in PlanStep
  BY <1>1, StepAt DEF EventsInv
<1>4. PICK next \in Nat : next = bell[o].at + 1
  BY <1>1 DEF Events!Handler
<1> DEFINE phase == IF bell[o].at = Len(Events!Steps(o)) THEN "done" ELSE "running"
<1> DEFINE h == [bell[o] EXCEPT !.known = FALSE, !.todo = {}, !.at = next, !.phase = phase]
<1>5. /\ h \in Events!Handler /\ ~h.known /\ h.todo = {} /\ h.at = next /\ h.phase = phase
  BY <1>1 DEF Events!Handler
<1>6. Events!Advanced(o) = h
  BY <1>4, Zenon DEF Events!Advanced, Events!Running
<1> QED
  BY <1>1, <1>2, <1>3, <1>4, <1>5, <1>6

\* A step that touches one handler.
LEMMA HandlerMoves ==
  ASSUME EventsInv, NEW o \in Occurrences, NEW h \in Events!Handler,
           bell' = [bell EXCEPT ![o] = h],
         UNCHANGED event,
         h.phase = "running" => (h.known <=> h.todo # {}),
         h.phase = "done" => h.todo = {},
         h.phase = "running" \/ h.todo # {} => event[o] \in Events!Event
           /\ h.at \in 1..Len(Events!Steps(o)),
         h.todo # {} => h.at = bell[o].at /\ Events!At(o).do \notin {"audit", "look"}
  PROVE  /\ bell' \in [Occurrences -> Events!Handler]
         /\ bell'[o] = h /\ \A p \in Occurrences \ {o} : bell'[p] = bell[p]
         /\ \A p \in Occurrences : Shape(p)'
<1>1. /\ bell' \in [Occurrences -> Events!Handler]
      /\ bell'[o] = h /\ \A p \in Occurrences \ {o} : bell'[p] = bell[p]
  BY DEF EventsInv, Events!TypeOK
<1>2. Shape(o)'
  BY <1>1 DEF Shape, Events!Steps, Events!At
<1>3. ASSUME NEW p \in Occurrences \ {o} PROVE Shape(p)'
  <2>1. Shape(p)
    BY DEF EventsInv
  <2> QED
    BY <1>1, <2>1 DEF Shape, Events!Steps, Events!At
<1> QED
  BY <1>1, <1>2, <1>3

\* What else a step of a handler may change.
LEMMA TypeKept ==
  ASSUME EventsInv, bell' \in [Occurrences -> Events!Handler], \A o \in Occurrences : Shape(o)',
         UNCHANGED <<event, Events!accounts, wanted, Events!mailVars>>,
         writing' \subseteq Occurrences, audit' \subseteq Occurrences,
         rows' \subseteq Events!Row, told' \subseteq Events!Notice
  PROVE  EventsInv'
BY DEF EventsInv, Events!TypeOK, Shape, Events!accounts, Events!mailVars

\* Whoever is told is one of the people.
LEMMA AudienceIs ==
  ASSUME Events!TypeOK, NEW do \in {"look", "tell", "admins", "staff", "matched"},
           NEW people \in Events!Audience(do)
  PROVE  /\ people \subseteq Events!People
         /\ do = "look" => people = {}
<1>1. active \subseteq Events!People /\ Owner \in Events!People
  BY DEF Events!TypeOK, Events!People
<1>2. CASE do = "matched"
  BY <1>1, <1>2 DEF Events!Audience, Events!kSubset
<1> QED
  BY <1>1, <1>2 DEF Events!Audience

\* Each action keeps the types, and moves its own handler only.
LEMMA PublishTypes ==
  ASSUME EventsInv, NEW o \in Occurrences, NEW e \in Events!Event, Events!Publish(o, e)
  PROVE  /\ EventsInv'
         /\ event'[o] = e /\ bell'[o] = Events!Start(e)
         /\ \A p \in Occurrences \ {o} : event'[p] = event[p] /\ bell'[p] = bell[p]
<1>1. /\ event' \in [Occurrences -> Events!Event \cup {Events!NoEvent}]
      /\ event'[o] = e /\ bell'[o] = Events!Start(e)
      /\ \A p \in Occurrences \ {o} : event'[p] = event[p] /\ bell'[p] = bell[p]
  BY DEF EventsInv, Events!TypeOK, Events!Publish
<1>2. /\ Events!Start(e) \in Events!Handler /\ Events!Start(e).todo = {}
      /\ ~Events!Start(e).known /\ Events!Start(e).at = 1
      /\ Events!Start(e).phase = "running" => Events!Plan(e) # <<>>
  BY DEF Events!Start, Events!Idle, Events!Handler
<1>3. Events!Plan(e) \in Seq(PlanStep)
  BY PlanIsSeq
<1>4. Events!Start(e).phase = "running" => Events!Start(e).at \in 1..Len(Events!Plan(e))
  BY <1>2, <1>3
<1>5. bell' \in [Occurrences -> Events!Handler]
  BY <1>1, <1>2 DEF EventsInv, Events!TypeOK, Events!Publish
<1>6. Shape(o)'
  BY <1>1, <1>2, <1>4 DEF Shape, Events!Steps, Events!At
<1>7. ASSUME NEW p \in Occurrences \ {o} PROVE Shape(p)'
  <2>1. Shape(p)
    BY DEF EventsInv
  <2> QED
    BY <1>1, <2>1 DEF Shape, Events!Steps, Events!At
<1>8. post' \in [Occurrences -> {"none", "prefs", "enqueue", "done"}]
  BY DEF EventsInv, Events!TypeOK, Events!Publish
<1>9. Events!TypeOK'
  <2>1. \A p \in Occurrences : bell'[p].phase = "running"
          => (bell'[p].known <=> bell'[p].todo # {})
    BY <1>6, <1>7 DEF Shape
  <2> QED
    BY <1>1, <1>5, <1>8, <2>1 DEF EventsInv, Events!TypeOK, Events!Publish, Events!accounts,
      Events!notices
<1> QED
  BY <1>1, <1>6, <1>7, <1>9 DEF EventsInv

LEMMA PublishAuditTypes ==
  ASSUME EventsInv, NEW o \in Occurrences, Events!PublishAudit(o)
  PROVE  /\ EventsInv'
         /\ bell'[o] = Events!Advanced(o) /\ \A p \in Occurrences \ {o} : bell'[p] = bell[p]
<1>1. Events!Running(o)
  BY DEF Events!PublishAudit
<1>2. /\ bell' \in [Occurrences -> Events!Handler]
      /\ bell'[o] = Events!Advanced(o) /\ \A p \in Occurrences \ {o} : bell'[p] = bell[p]
      /\ \A p \in Occurrences : Shape(p)'
  BY <1>1, AdvancedIs, HandlerMoves DEF Events!PublishAudit
<1> QED
  BY <1>2, TypeKept DEF Events!PublishAudit, Events!notices, EventsInv, Events!TypeOK

LEMMA ReadAudienceTypes ==
  ASSUME EventsInv, NEW o \in Occurrences, Events!ReadAudience(o)
  PROVE  /\ EventsInv'
         /\ \A p \in Occurrences \ {o} : bell'[p] = bell[p]
         /\ \E people \in Events!Audience(Events!At(o).do) :
              \/ people = {} /\ bell'[o] = Events!Advanced(o)
              \/ /\ bell'[o].known /\ bell'[o].todo = people
                 /\ bell'[o].at = bell[o].at /\ bell'[o].phase = "running"
<1>1. Events!Running(o) /\ Events!At(o).do # "audit" /\ Events!At(o) \in PlanStep
        /\ bell[o] \in Events!Handler
  BY AdvancedIs DEF Events!ReadAudience, EventsInv, Events!TypeOK
<1>2. PICK people \in Events!Audience(Events!At(o).do) :
        bell' = [bell EXCEPT ![o] = IF people = {} THEN Events!Advanced(o)
                                    ELSE [@ EXCEPT !.known = TRUE, !.todo = people]]
  BY DEF Events!ReadAudience
<1>3. people \subseteq Events!People /\ (Events!At(o).do = "look" => people = {})
  BY <1>1, AudienceIs DEF PlanStep, EventsInv
<1> DEFINE h == IF people = {} THEN Events!Advanced(o) ELSE [bell[o] EXCEPT !.known = TRUE,
      !.todo = people]
<1>4. h \in Events!Handler /\ (people # {} => /\ h.known /\ h.todo = people /\ h.at = bell[o].at
                                       /\ h.phase = "running")
  BY <1>1, <1>3, AdvancedIs DEF Events!Handler, Events!Running
<1>5. bell' = [bell EXCEPT ![o] = h]
  BY <1>2 DEF EventsInv, Events!TypeOK
<1>6. /\ people = {} => h = Events!Advanced(o)
      /\ UNCHANGED event
  BY DEF Events!ReadAudience
<1> HIDE DEF h
<1>7. /\ bell' \in [Occurrences -> Events!Handler]
      /\ bell'[o] = h /\ \A p \in Occurrences \ {o} : bell'[p] = bell[p]
      /\ \A p \in Occurrences : Shape(p)'
  <2>1. CASE people = {}
    BY <1>1, <1>4, <1>5, <1>6, <2>1, AdvancedIs, HandlerMoves
  <2>2. CASE people # {}
    BY <1>1, <1>3, <1>4, <1>5, <1>6, <2>2, AdvancedIs, HandlerMoves
  <2> QED
    BY <2>1, <2>2
<1>8. EventsInv'
  BY <1>7, TypeKept DEF Events!ReadAudience, Events!notices, EventsInv, Events!TypeOK
<1> QED
  BY <1>4, <1>6, <1>7, <1>8

\* The row that is written for somebody who is to be told.
LEMMA RowIs ==
  ASSUME EventsInv, NEW o \in Occurrences, NEW u \in bell[o].todo
  PROVE  /\ Events!RowOf(o, u) \in Events!Row
         /\ Events!RowOf(o, u).to = u
         /\ Events!RowOf(o, u).key.stamp = IF Events!At(o).key = "own" THEN o ELSE 0
<1>1. /\ event[o] \in Events!Event /\ Events!At(o) \in PlanStep
      /\ Events!At(o).do \notin {"audit", "look"} /\ u \in Events!People
  BY StepAt DEF EventsInv, Shape, Events!TypeOK, Events!Handler
<1>2. /\ event[o].type \in Events!Types /\ event[o].detail \in Events!Detail
      /\ Events!At(o).do \in {"tell", "admins", "staff", "matched"}
  BY <1>1 DEF Events!Event, PlanStep
<1>3. /\ (IF Events!At(o).key = "own" THEN o ELSE 0) \in Occurrences \cup {0}
      /\ (IF Events!At(o).key = "detail" THEN event[o].detail ELSE 0)
           \in Events!Detail \cup {0}
  BY <1>2
<1> QED
  BY <1>1, <1>2, <1>3 DEF Events!RowOf, Events!Row, Events!Key

LEMMA NotifyTypes ==
  ASSUME EventsInv, NEW o \in Occurrences, NEW u \in Events!People, Events!Notify(o, u)
  PROVE  /\ EventsInv'
         /\ \A p \in Occurrences \ {o} : bell'[p] = bell[p]
         /\ \/ Events!Running(o) /\ bell[o].todo = {u} /\ bell'[o] = Events!Advanced(o)
            \/ /\ ~(Events!Running(o) /\ bell[o].todo = {u})
               /\ bell'[o].phase = bell[o].phase /\ bell'[o].at = bell[o].at
               /\ bell'[o].known = bell[o].known /\ bell'[o].todo = bell[o].todo \ {u}
<1>1. /\ bell[o] \in Events!Handler /\ Shape(o) /\ u \in bell[o].todo
  BY DEF Events!Notify, EventsInv, Events!TypeOK
<1> DEFINE h == IF Events!Running(o) /\ bell[o].todo = {u} THEN Events!Advanced(o)
                ELSE [bell[o] EXCEPT !.todo = bell[o].todo \ {u}]
<1>2. bell' = [bell EXCEPT ![o] = h]
  <2>1. Events!Written(o, u)
    BY DEF Events!Notify
  <2> QED
    BY <2>1 DEF Events!Written
<1>3. CASE Events!Running(o) /\ bell[o].todo = {u}
  <2>1. h = Events!Advanced(o)
    BY <1>3
  <2> HIDE DEF h
  <2>2. UNCHANGED event
    BY DEF Events!Notify
  <2>3. /\ bell' \in [Occurrences -> Events!Handler]
        /\ bell'[o] = h /\ \A p \in Occurrences \ {o} : bell'[p] = bell[p]
        /\ \A p \in Occurrences : Shape(p)'
    BY <1>2, <1>3, <2>1, <2>2, AdvancedIs, HandlerMoves
  <2>4. EventsInv'
    BY <2>3, RowIs, <1>1, TypeKept DEF Events!Notify, EventsInv, Events!TypeOK, Events!Notice
  <2> QED
    BY <1>3, <2>1, <2>3, <2>4
<1>4. CASE ~(Events!Running(o) /\ bell[o].todo = {u})
  <2>1. /\ h \in Events!Handler /\ h.todo = bell[o].todo \ {u}
        /\ h.phase = bell[o].phase /\ h.at = bell[o].at /\ h.known = bell[o].known
    BY <1>1, <1>4 DEF Events!Handler
  <2> HIDE DEF h
  <2>2. /\ h.phase = "running" => (h.known <=> h.todo # {})
        /\ h.phase = "done" => h.todo = {}
        /\ event[o] \in Events!Event /\ h.at \in 1..Len(Events!Steps(o))
        /\ Events!At(o).do \notin {"audit", "look"}
    BY <1>1, <1>4, <2>1 DEF Shape, Events!Running
  <2>3. UNCHANGED event
    BY DEF Events!Notify
  <2>4. /\ bell' \in [Occurrences -> Events!Handler]
        /\ bell'[o] = h /\ \A p \in Occurrences \ {o} : bell'[p] = bell[p]
        /\ \A p \in Occurrences : Shape(p)'
    BY <1>2, <2>1, <2>2, <2>3, HandlerMoves
  <2>5. EventsInv'
    BY <2>4, RowIs, <1>1, TypeKept DEF Events!Notify, EventsInv, Events!TypeOK, Events!Notice
  <2> QED
    BY <1>4, <2>1, <2>4, <2>5
<1> QED
  BY <1>3, <1>4

LEMMA FailureTypes ==
  ASSUME EventsInv, NEW o \in Occurrences, Events!ReadFails(o)
           \/ \E u \in Events!People : Events!NotifyFails(o, u)
  PROVE  /\ EventsInv'
         /\ bell'[o].phase = "failed"
         /\ \A p \in Occurrences \ {o} : bell'[p] = bell[p]
<1>1. bell[o] \in Events!Handler /\ Shape(o)
  BY DEF EventsInv, Events!TypeOK
<1>2. PICK h \in Events!Handler : /\ bell' = [bell EXCEPT ![o] = h]
                           /\ h.phase = "failed" /\ h.todo \subseteq bell[o].todo
                           /\ h.at = bell[o].at
  <2>1. CASE Events!ReadFails(o)
    <3> DEFINE h == [bell[o] EXCEPT !.phase = "failed"]
    <3>1. h \in Events!Handler /\ h.phase = "failed" /\ h.todo = bell[o].todo
            /\ h.at = bell[o].at
      BY <1>1 DEF Events!Handler
    <3>2. bell' = [bell EXCEPT ![o] = h]
      BY <2>1 DEF Events!ReadFails, EventsInv, Events!TypeOK
    <3> QED
      BY <3>1, <3>2
  <2>2. ASSUME NEW u \in Events!People, Events!NotifyFails(o, u)
        PROVE  \E h \in Events!Handler : /\ bell' = [bell EXCEPT ![o] = h]
                                 /\ h.phase = "failed" /\ h.todo \subseteq bell[o].todo
                                 /\ h.at = bell[o].at
    <3> DEFINE h == [bell[o] EXCEPT !.phase = "failed", !.todo = bell[o].todo \ {u}]
    <3>1. h \in Events!Handler /\ h.phase = "failed" /\ h.todo \subseteq bell[o].todo
            /\ h.at = bell[o].at
      BY <1>1 DEF Events!Handler
    <3>2. bell' = [bell EXCEPT ![o] = h]
      BY <2>2 DEF Events!NotifyFails, EventsInv, Events!TypeOK
    <3> QED
      BY <3>1, <3>2
  <2> QED
    BY <2>1, <2>2
<1>5. UNCHANGED <<event, writing, audit, Events!accounts, wanted, Events!notices,
        Events!mailVars>>
  BY DEF Events!ReadFails, Events!NotifyFails
<1>6. /\ bell' \in [Occurrences -> Events!Handler]
      /\ bell'[o] = h /\ \A p \in Occurrences \ {o} : bell'[p] = bell[p]
      /\ \A p \in Occurrences : Shape(p)'
  BY <1>1, <1>2, <1>5, HandlerMoves DEF Shape
<1>7. EventsInv'
  BY <1>5, <1>6, TypeKept DEF Events!notices, EventsInv, Events!TypeOK
<1> QED
  BY <1>2, <1>6, <1>7

\* Steps that leave the notification listener alone.
LEMMA OthersType ==
  ASSUME EventsInv,
         \/ \E o \in Occurrences : Events!WriteAudit(o) \/ Events!AuditFails(o)
              \/ Events!MailStep(o) \/ Events!MailDropped(o)
                                   \/ Events!PreferencesUnread(o)
         \/ Events!Surroundings
         \/ UNCHANGED Events!vars
  PROVE  EventsInv' /\ UNCHANGED <<event, bell, told>>
<1>1. UNCHANGED <<event, bell, told>>
  BY DEF Events!WriteAudit, Events!AuditFails, Events!MailStep, Events!MailDropped,
    Events!ReadPreferences, Events!Enqueue, Events!PreferencesUnread,
     Events!Surroundings, Events!Forget, Events!SetActive, Events!SetPreference, Events!vars,
       Events!notices
<1>2. \A p \in Occurrences : Shape(p)'
  BY <1>1 DEF EventsInv, Shape, Events!Steps, Events!At
<1>3. Events!TypeOK'
  <2>1. CASE \E o \in Occurrences : Events!WriteAudit(o) \/ Events!AuditFails(o)
    BY <2>1 DEF Events!WriteAudit, Events!AuditFails, EventsInv, Events!TypeOK,
      Events!accounts, Events!notices, Events!mailVars
  <2>2. CASE \E o \in Occurrences : Events!MailStep(o) \/ Events!MailDropped(o)
               \/ Events!PreferencesUnread(o)
    BY <2>2 DEF Events!MailStep, Events!MailDropped, Events!ReadPreferences, Events!Enqueue,
      Events!PreferencesUnread, EventsInv, Events!TypeOK,
       Events!accounts, Events!notices
  <2>3. CASE Events!Surroundings
    BY <2>3 DEF Events!Surroundings, Events!Forget, Events!SetActive, Events!SetPreference,
      EventsInv, Events!TypeOK, Events!accounts, Events!notices, Events!mailVars
  <2>4. CASE UNCHANGED Events!vars
    BY <2>4 DEF Events!vars, EventsInv, Events!TypeOK, Events!accounts, Events!notices,
      Events!mailVars
  <2> QED
    BY <2>1, <2>2, <2>3, <2>4
<1> QED
  BY <1>1, <1>2, <1>3 DEF EventsInv

\* A stop of the process leaves nothing to do.
LEMMA CrashTypes ==
  ASSUME EventsInv, Events!Crash
  PROVE  /\ EventsInv'
         /\ \A o \in Occurrences : /\ bell'[o].todo = {} /\ bell'[o].at = bell[o].at
                                   /\ bell'[o].phase # "running"
                                   /\ bell'[o].phase = "done" => bell[o].phase = "done"
<1>1. ASSUME NEW o \in Occurrences
      PROVE  /\ bell'[o] \in Events!Handler
             /\ bell'[o].todo = {} /\ bell'[o].at = bell[o].at
             /\ bell'[o].phase = IF bell[o].phase = "running" THEN "failed" ELSE bell[o].phase
  <2>1. bell[o] \in Events!Handler
    BY DEF EventsInv, Events!TypeOK
  <2>2. bell'[o] = [bell[o] EXCEPT !.todo = {},
                                   !.phase = IF bell[o].phase = "running" THEN "failed" ELSE @]
    BY DEF Events!Crash, Events!Running
  <2> QED
    BY <2>1, <2>2 DEF Events!Handler
<1>2. bell' \in [Occurrences -> Events!Handler]
  BY <1>1 DEF Events!Crash
<1>3. \A o \in Occurrences : Shape(o)'
  BY <1>1 DEF Shape
<1>4. post' \in [Occurrences -> {"none", "prefs", "enqueue", "done"}]
  BY DEF Events!Crash, EventsInv, Events!TypeOK
<1>5. Events!TypeOK'
  BY <1>1, <1>2, <1>4, <1>3 DEF Events!Crash, EventsInv, Events!TypeOK, Events!accounts,
    Events!notices, Shape
<1> QED
  BY <1>1, <1>3, <1>5 DEF EventsInv

-----------------------------------------------------------------------------
(* The event listeners: who was told.                                      *)

\* Somebody was told of an occurrence; those who are to be.
Heard(o, u) == \E n \in told : n.by = o /\ n.row.to = u
Concerned(o) == Events!NewsEachTime[event[o].type] \cap steady

\* Past the step that tells them, everybody concerned has heard; at it, those
\* who have not are the ones it is still telling.
News(o) ==
  event[o] \in Events!Event /\ event[o].type \in DOMAIN Events!NewsEachTime =>
    LET at == NewsAt[event[o].type] IN
    /\ bell[o].phase = "done" => bell[o].at > at
    /\ bell[o].phase \in {"running", "done"} /\ bell[o].at > at =>
         \A u \in Concerned(o) : Heard(o, u)
    /\ bell[o].phase = "running" /\ bell[o].at = at /\ bell[o].known =>
         \A u \in Concerned(o) : u \in bell[o].todo \/ Heard(o, u)

\* A row whose key names an occurrence was told for it.
Stamped == \A row \in rows : row.key.stamp # 0 =>
             \E n \in told : n.row = row /\ n.by = row.key.stamp

\* The inductive invariant of the two theorems below.
ToldInv == EventsInv /\ Stamped /\ \A o \in Occurrences : News(o)

\* Whoever was told stays told, and nobody is added to those who are to be.
LEMMA NewsKept ==
  ASSUME Events!TypeOK, NEW o \in Occurrences, News(o), event'[o] = event[o],
         bell'[o] = bell[o], told \subseteq told', steady' \subseteq steady
  PROVE  News(o)'
BY DEF News, Heard, Concerned

\* What the step that tells them reads.
LEMMA NewsStepIs ==
  ASSUME EventsInv, NEW o \in Occurrences, event[o].type \in DOMAIN Events!NewsEachTime,
         event[o] \in Events!Event, bell[o].at = NewsAt[event[o].type]
  PROVE  /\ Events!At(o).key = "own" /\ Events!At(o).do # "audit"
         /\ \A people \in Events!Audience(Events!At(o).do) : Concerned(o) \subseteq people
<1>1. /\ Events!At(o).key = "own"
      /\ \/ Events!At(o).do = "tell" /\ Events!NewsEachTime[event[o].type] = {Owner}
         \/ Events!At(o).do = "admins" /\ Events!NewsEachTime[event[o].type] = Admins
  BY NewsPlans DEF Events!At, Events!Steps
<1>2. steady \subseteq active
  BY DEF EventsInv, Events!TypeOK
<1> QED
  BY <1>1, <1>2 DEF Events!Audience, Concerned

\* A handler that goes on to its next step.
LEMMA AdvancedKeepsNews ==
  ASSUME ToldInv, NEW o \in Occurrences, Events!Running(o), bell'[o] = Events!Advanced(o),
         event'[o] = event[o], told \subseteq told', steady' \subseteq steady,
         event[o].type \in DOMAIN Events!NewsEachTime /\ bell[o].at = NewsAt[event[o].type] =>
           \A u \in Concerned(o) : Heard(o, u)'
  PROVE  News(o)'
<1>1. /\ Events!Advanced(o).at = bell[o].at + 1 /\ ~Events!Advanced(o).known
      /\ bell[o].phase = "running"
      /\ event[o] \in Events!Event /\ bell[o].at \in 1..Len(Events!Steps(o))
      /\ Len(Events!Steps(o)) \in Nat
      /\ Events!Advanced(o).phase = "done" <=> bell[o].at = Len(Events!Steps(o))
  <2>1. Events!Advanced(o).phase = "done" <=> bell[o].at = Len(Events!Steps(o))
    BY DEF Events!Advanced, Events!Running, ToldInv, EventsInv, Events!TypeOK, Events!Handler
  <2>2. event[o] \in Events!Event
    BY AdvancedIs DEF ToldInv
  <2> QED
    BY <2>1, <2>2, AdvancedIs, PlanIsSeq DEF ToldInv, Events!Running, Events!Steps
<1> SUFFICES ASSUME event[o].type \in DOMAIN Events!NewsEachTime
             PROVE  News(o)'
  BY DEF News
<1>2. NewsAt[event[o].type] \in 1..Len(Events!Steps(o))
  BY <1>1, NewsPlans DEF Events!Steps
<1>3. bell[o].at > NewsAt[event[o].type] => \A u \in Concerned(o) : Heard(o, u)
  BY <1>1 DEF ToldInv, News
<1>4. \A u : Heard(o, u) => Heard(o, u)'
  BY DEF Heard
<1>5. Concerned(o)' \subseteq Concerned(o)
  BY DEF Concerned
<1>6. bell[o].at >= NewsAt[event[o].type] => \A u \in Concerned(o)' : Heard(o, u)'
  BY <1>1, <1>2, <1>3, <1>4, <1>5
<1> QED
  BY <1>1, <1>2, <1>6 DEF News

\* Each action keeps the invariant.
LEMMA PublishNews ==
  ASSUME ToldInv, NEW o \in Occurrences, NEW e \in Events!Event, Events!Publish(o, e)
  PROVE  ToldInv'
<1>1. /\ EventsInv'
      /\ event'[o] = e /\ bell'[o] = Events!Start(e)
      /\ \A p \in Occurrences \ {o} : event'[p] = event[p] /\ bell'[p] = bell[p]
  BY PublishTypes DEF ToldInv
<1>2. UNCHANGED <<rows, told, steady>>
  BY DEF Events!Publish, Events!notices, Events!accounts
<1>3. /\ Events!Start(e).at = 1 /\ ~Events!Start(e).known
      /\ Events!Start(e).phase = "done" => Events!Plan(e) = <<>>
  BY DEF Events!Start, Events!Idle
<1>4. News(o)'
  <2> SUFFICES ASSUME e.type \in DOMAIN Events!NewsEachTime PROVE News(o)'
    BY <1>1 DEF News
  <2>1. NewsAt[e.type] \in 1..Len(Events!Plan(e)) /\ Events!Plan(e) \in Seq(PlanStep)
    BY NewsPlans, PlanIsSeq
  <2>2. NewsAt[e.type] >= 1 /\ Events!Plan(e) # <<>> /\ NewsAt[e.type] \in Nat
    BY <2>1
  <2> QED
    BY <1>1, <1>3, <2>2 DEF News
<1>5. ASSUME NEW p \in Occurrences \ {o} PROVE News(p)'
  BY <1>1, <1>2, NewsKept DEF ToldInv, EventsInv
<1> QED
  BY <1>1, <1>2, <1>4, <1>5 DEF ToldInv, Stamped

LEMMA PublishAuditNews ==
  ASSUME ToldInv, NEW o \in Occurrences, Events!PublishAudit(o)
  PROVE  ToldInv'
<1>1. /\ EventsInv'
      /\ bell'[o] = Events!Advanced(o) /\ \A p \in Occurrences \ {o} : bell'[p] = bell[p]
  BY PublishAuditTypes DEF ToldInv
<1>2. UNCHANGED <<event, rows, told, steady>> /\ Events!Running(o) /\ Events!At(o).do = "audit"
  BY DEF Events!PublishAudit, Events!notices, Events!accounts
<1>3. News(o)'
  BY <1>1, <1>2, AdvancedIs, NewsStepIs, AdvancedKeepsNews DEF ToldInv
<1>4. ASSUME NEW p \in Occurrences \ {o} PROVE News(p)'
  BY <1>1, <1>2, NewsKept DEF ToldInv, EventsInv
<1> QED
  BY <1>1, <1>2, <1>3, <1>4 DEF ToldInv, Stamped

LEMMA ReadAudienceNews ==
  ASSUME ToldInv, NEW o \in Occurrences, Events!ReadAudience(o)
  PROVE  ToldInv'
<1>1. /\ EventsInv'
      /\ \A p \in Occurrences \ {o} : bell'[p] = bell[p]
  BY ReadAudienceTypes DEF ToldInv
<1>2. UNCHANGED <<event, rows, told, steady>> /\ Events!Running(o)
  BY DEF Events!ReadAudience, Events!notices, Events!accounts
<1>3. PICK people \in Events!Audience(Events!At(o).do) :
              \/ people = {} /\ bell'[o] = Events!Advanced(o)
              \/ /\ bell'[o].known /\ bell'[o].todo = people
                 /\ bell'[o].at = bell[o].at /\ bell'[o].phase = "running"
  BY ReadAudienceTypes DEF ToldInv
<1>4. event[o] \in Events!Event /\ bell[o].phase = "running"
  BY <1>2, AdvancedIs DEF ToldInv, Events!Running
<1>5. News(o)'
  <2>1. CASE people = {} /\ bell'[o] = Events!Advanced(o)
    BY <1>2, <1>3, <1>4, <2>1, NewsStepIs, AdvancedKeepsNews DEF ToldInv
  <2>2. CASE /\ bell'[o].known /\ bell'[o].todo = people
             /\ bell'[o].at = bell[o].at /\ bell'[o].phase = "running"
    <3> SUFFICES ASSUME event[o].type \in DOMAIN Events!NewsEachTime PROVE News(o)'
      BY <1>2 DEF News
    <3>1. Concerned(o)' = Concerned(o) /\ \A u : Heard(o, u)' <=> Heard(o, u)
      BY <1>2 DEF Concerned, Heard
    <3>2. bell[o].at = NewsAt[event[o].type] => Concerned(o) \subseteq people
      BY <1>4, NewsStepIs DEF ToldInv
    <3>3. bell[o].at > NewsAt[event[o].type] => \A u \in Concerned(o) : Heard(o, u)
      BY <1>4 DEF ToldInv, News
    <3> QED
      BY <1>2, <2>2, <3>1, <3>2, <3>3 DEF News
  <2> QED
    BY <1>3, <2>1, <2>2
<1>6. ASSUME NEW p \in Occurrences \ {o} PROVE News(p)'
  BY <1>1, <1>2, NewsKept DEF ToldInv, EventsInv
<1> QED
  BY <1>1, <1>2, <1>5, <1>6 DEF ToldInv, Stamped

LEMMA NotifyNews ==
  ASSUME ToldInv, NEW o \in Occurrences, NEW u \in Events!People,
           Events!Notify(o, u)
  PROVE  ToldInv'
<1>1. /\ EventsInv'
      /\ \A p \in Occurrences \ {o} : bell'[p] = bell[p]
  BY NotifyTypes DEF ToldInv
<1>2. UNCHANGED <<event, steady>> /\ u \in bell[o].todo
  BY DEF Events!Notify, Events!accounts
<1>3. /\ Events!RowOf(o, u).to = u
      /\ Events!RowOf(o, u).key.stamp = IF Events!At(o).key = "own" THEN o ELSE 0
  BY <1>2, RowIs DEF ToldInv
<1>4. PICK notice : /\ notice.row = Events!RowOf(o, u) /\ notice.by = o
                    /\ rows' = rows \cup {Events!RowOf(o, u)}
                    /\ told \subseteq told'
                    /\ Events!RowOf(o, u) \notin rows => notice \in told'
  <2> DEFINE n == [row |-> Events!RowOf(o, u), by |-> o]
  <2>1. n.row = Events!RowOf(o, u) /\ n.by = o
    OBVIOUS
  <2>2. /\ rows' = rows \cup {Events!RowOf(o, u)}
        /\ told' = IF Events!RowOf(o, u) \in rows THEN told ELSE told \cup {n}
    BY DEF Events!Notify
  <2> HIDE DEF n
  <2> QED
    BY <2>1, <2>2
<1>5. o # 0
  BY ListenersAssumption
<1>6. told \subseteq told' /\ Stamped'
  <2>1. ASSUME NEW row \in rows', row.key.stamp # 0
        PROVE  \E n \in told' : n.row = row /\ n.by = row.key.stamp
    <3>1. CASE row \in rows
      BY <1>4, <2>1, <3>1 DEF ToldInv, Stamped
    <3>2. CASE row \notin rows
      BY <1>3, <1>4, <2>1, <3>2
    <3> QED
      BY <3>1, <3>2
  <2> QED
    BY <1>4, <2>1 DEF Stamped
<1>7. ASSUME Events!At(o).key = "own" PROVE Heard(o, u)'
  <2>1. CASE Events!RowOf(o, u) \in rows
    <3>1. PICK n \in told : n.row = Events!RowOf(o, u) /\ n.by = Events!RowOf(o, u).key.stamp
      BY <1>3, <1>5, <1>7, <2>1 DEF ToldInv, Stamped
    <3> QED
      BY <1>3, <1>4, <1>7, <3>1 DEF Heard
  <2>2. CASE Events!RowOf(o, u) \notin rows
    BY <1>3, <1>4, <2>2 DEF Heard
  <2> QED
    BY <2>1, <2>2
<1>8. event[o] \in Events!Event
  BY <1>2 DEF ToldInv, EventsInv, Shape
<1>9. ASSUME event[o].type \in DOMAIN Events!NewsEachTime, bell[o].at = NewsAt[event[o].type],
             bell[o].phase = "running"
      PROVE  \A v \in Concerned(o) : v \in bell[o].todo \ {u} \/ Heard(o, v)'
  <2>1. Heard(o, u)'
    BY <1>7, <1>8, <1>9, NewsStepIs DEF ToldInv
  <2>2. bell[o].known
    BY <1>2, <1>9 DEF ToldInv, EventsInv, Shape
  <2>3. \A v \in Concerned(o) : v \in bell[o].todo \/ Heard(o, v)
    BY <1>8, <1>9, <2>2 DEF ToldInv, News
  <2> QED
    BY <1>6, <2>1, <2>3 DEF Heard
<1>10. News(o)'
  <2>1. CASE Events!Running(o) /\ bell[o].todo = {u} /\ bell'[o] = Events!Advanced(o)
    BY <1>2, <1>6, <1>9, <2>1, AdvancedKeepsNews DEF Events!Running
  <2>2. CASE /\ bell'[o].phase = bell[o].phase /\ bell'[o].at = bell[o].at
             /\ bell'[o].known = bell[o].known /\ bell'[o].todo = bell[o].todo \ {u}
    <3> SUFFICES ASSUME event[o].type \in DOMAIN Events!NewsEachTime PROVE News(o)'
      BY <1>2 DEF News
    <3>1. Concerned(o)' = Concerned(o) /\ \A v : Heard(o, v) => Heard(o, v)'
      BY <1>2, <1>6 DEF Concerned, Heard
    <3> QED
      BY <1>2, <1>8, <1>9, <2>2, <3>1 DEF ToldInv, News
  <2> QED
    BY <2>1, <2>2, NotifyTypes DEF ToldInv
<1>11. ASSUME NEW p \in Occurrences \ {o} PROVE News(p)'
  BY <1>1, <1>2, <1>6, NewsKept DEF ToldInv, EventsInv
<1> QED
  BY <1>1, <1>6, <1>10, <1>11 DEF ToldInv

LEMMA FailureNews ==
  ASSUME ToldInv, NEW o \in Occurrences, Events!ReadFails(o)
           \/ \E u \in Events!People : Events!NotifyFails(o, u)
  PROVE  ToldInv'
<1>1. /\ EventsInv'
      /\ bell'[o].phase = "failed"
      /\ \A p \in Occurrences \ {o} : bell'[p] = bell[p]
  BY FailureTypes DEF ToldInv
<1>2. UNCHANGED <<event, rows, told, steady>>
  BY DEF Events!ReadFails, Events!NotifyFails, Events!notices, Events!accounts
<1>3. News(o)'
  BY <1>1 DEF News
<1>4. ASSUME NEW p \in Occurrences \ {o} PROVE News(p)'
  BY <1>1, <1>2, NewsKept DEF ToldInv, EventsInv
<1> QED
  BY <1>1, <1>2, <1>3, <1>4 DEF ToldInv, Stamped

LEMMA OthersNews ==
  ASSUME ToldInv,
         \/ \E o \in Occurrences : Events!WriteAudit(o) \/ Events!AuditFails(o)
              \/ Events!MailStep(o) \/ Events!MailDropped(o)
                                   \/ Events!PreferencesUnread(o)
         \/ Events!Surroundings
         \/ UNCHANGED Events!vars
  PROVE  ToldInv'
<1>1. EventsInv' /\ UNCHANGED <<event, bell, told>>
  BY OthersType DEF ToldInv
<1>2. rows' \subseteq rows /\ steady' \subseteq steady
  BY DEF Events!WriteAudit, Events!AuditFails, Events!MailStep, Events!MailDropped,
    Events!ReadPreferences, Events!Enqueue, Events!PreferencesUnread,
     Events!Surroundings, Events!Forget, Events!SetActive, Events!SetPreference, Events!vars,
       Events!notices, Events!accounts
<1>3. ASSUME NEW p \in Occurrences PROVE News(p)'
  BY <1>1, <1>2, NewsKept DEF ToldInv, EventsInv
<1> QED
  BY <1>1, <1>2, <1>3 DEF ToldInv, Stamped

LEMMA CrashNews ==
  ASSUME ToldInv, Events!Crash
  PROVE  ToldInv'
<1>1. /\ EventsInv'
      /\ \A o \in Occurrences : /\ bell'[o].todo = {} /\ bell'[o].at = bell[o].at
                                /\ bell'[o].phase # "running"
                                /\ bell'[o].phase = "done" => bell[o].phase = "done"
  BY CrashTypes DEF ToldInv
<1>2. UNCHANGED <<event, rows, told, steady>>
  BY DEF Events!Crash, Events!notices, Events!accounts
<1>3. ASSUME NEW p \in Occurrences PROVE News(p)'
  <2>1. News(p) /\ Concerned(p)' = Concerned(p) /\ \A u : Heard(p, u)' <=> Heard(p, u)
    BY <1>2 DEF ToldInv, Concerned, Heard
  <2> QED
    BY <1>1, <1>2, <2>1 DEF News
<1> QED
  BY <1>1, <1>2, <1>3 DEF ToldInv, Stamped

\* ToldInv is inductive.
LEMMA ToldNext ==
  ASSUME ToldInv, [Events!Next]_Events!vars
  PROVE  ToldInv'
<1>1. CASE \E o \in Occurrences, e \in Events!Event : Events!Publish(o, e)
  BY <1>1, PublishNews
<1>2. CASE \E o \in Occurrences : Events!BellStep(o)
  BY <1>2, PublishAuditNews, ReadAudienceNews, NotifyNews DEF Events!BellStep
<1>3. CASE Events!Fault
  BY <1>3, FailureNews, OthersNews, CrashNews DEF Events!Fault
<1>4. CASE \/ \E o \in Occurrences : Events!WriteAudit(o) \/ Events!MailStep(o)
                \/ Events!MailDropped(o)
           \/ Events!Surroundings \/ UNCHANGED Events!vars
  BY <1>4, OthersNews
<1> QED
  BY <1>1, <1>2, <1>3, <1>4 DEF Events!Next

LEMMA ToldInit == Events!Init => ToldInv
<1> SUFFICES ASSUME Events!Init PROVE ToldInv
  OBVIOUS
<1>1. Events!Idle \in Events!Handler /\ Events!Idle.phase = "none" /\ Events!Idle.todo = {}
  BY DEF Events!Idle, Events!Handler
<1>2. Events!TypeOK
  BY <1>1 DEF Events!Init, Events!TypeOK
<1>3. ASSUME NEW o \in Occurrences PROVE Shape(o) /\ News(o)
  BY <1>1 DEF Events!Init, Shape, News
<1> QED
  BY <1>2, <1>3 DEF Events!Init, ToldInv, EventsInv, Stamped

-----------------------------------------------------------------------------
(* The event listeners: what goes on record.                               *)

\* Such an event is on record, is about to be, or its handler has yet to begin.
Recorded(o) ==
  event[o] \in Events!Event /\ event[o].type \in Events!RecordedFirst =>
    \/ o \in audit \cup writing
    \/ bell[o].phase = "running" /\ bell[o].at = 1 /\ bell[o].todo = {}

\* The inductive invariant under the loads of MCBackground.
OnRecordInv ==
  /\ type \in Events!Types /\ EventsInv
  /\ load # "failing" => \A o \in Occurrences : Recorded(o)

\* While it is to be put on record, the handler is about to do so.
LEMMA AuditFirst ==
  ASSUME EventsInv, NEW o \in Occurrences, Recorded(o), event[o] \in Events!Event,
         event[o].type \in Events!RecordedFirst, o \notin audit \cup writing
  PROVE  Events!At(o).do = "audit" /\ bell[o].todo = {}
BY RecordedPlans DEF Recorded, Events!At, Events!Steps

\* No step but a stop of the process, or a refused write, loses the record.
LEMMA OnRecordStep ==
  ASSUME OnRecordInv, load # "failing",
         \/ \E o \in Occurrences, e \in Events!Event : Events!Publish(o, e)
         \/ \E o \in Occurrences : Events!BellStep(o) \/ Events!WriteAudit(o)
              \/ Events!MailStep(o) \/ Events!MailDropped(o)
         \/ BellFault
         \/ Events!Surroundings
         \/ UNCHANGED Events!vars
  PROVE  \A o \in Occurrences : Recorded(o)'
<1>0. EventsInv /\ \A o \in Occurrences : Recorded(o)
  BY DEF OnRecordInv
<1>1. ASSUME NEW o \in Occurrences, NEW e \in Events!Event, Events!Publish(o, e)
      PROVE  \A p \in Occurrences : Recorded(p)'
  <2>1. /\ event'[o] = e /\ bell'[o] = Events!Start(e)
        /\ \A p \in Occurrences \ {o} : event'[p] = event[p] /\ bell'[p] = bell[p]
        /\ UNCHANGED <<audit, writing>>
    BY <1>0, <1>1, PublishTypes DEF Events!Publish
  <2>2. e.type \in Events!RecordedFirst => Events!Start(e).phase = "running"
          /\ Events!Start(e).at = 1 /\ Events!Start(e).todo = {}
    BY RecordedPlans DEF Events!Start, Events!Idle
  <2> QED
    BY <1>0, <2>1, <2>2 DEF Recorded
<1>2. ASSUME NEW o \in Occurrences, Events!PublishAudit(o)
      PROVE  \A p \in Occurrences : Recorded(p)'
  <2>1. \A p \in Occurrences \ {o} : bell'[p] = bell[p]
    BY <1>0, <1>2, PublishAuditTypes
  <2>2. UNCHANGED <<event, audit>> /\ writing' = writing \cup {o}
    BY <1>2 DEF Events!PublishAudit
  <2> QED
    BY <1>0, <2>1, <2>2 DEF Recorded
<1>3. ASSUME NEW o \in Occurrences,
             \/ Events!ReadAudience(o) \/ Events!ReadFails(o)
             \/ \E u \in Events!People : Events!Notify(o, u) \/ Events!NotifyFails(o, u)
      PROVE  \A p \in Occurrences : Recorded(p)'
  <2>1. \A p \in Occurrences \ {o} : bell'[p] = bell[p]
    BY <1>0, <1>3, ReadAudienceTypes, FailureTypes, NotifyTypes
  <2>2. UNCHANGED <<event, audit, writing>> /\ (Events!At(o).do # "audit" \/ bell[o].todo # {})
    BY <1>3 DEF Events!ReadAudience, Events!ReadFails, Events!Notify, Events!NotifyFails
  <2>3. event[o] \in Events!Event /\ event[o].type \in Events!RecordedFirst
          => o \in audit \cup writing
    BY <1>0, <2>2, AuditFirst
  <2> QED
    BY <1>0, <2>1, <2>2, <2>3 DEF Recorded
<1>4. ASSUME \/ \E o \in Occurrences : Events!WriteAudit(o) \/ Events!MailStep(o)
                  \/ Events!MailDropped(o)
             \/ Events!Surroundings \/ UNCHANGED Events!vars
      PROVE  \A p \in Occurrences : Recorded(p)'
  <2>1. UNCHANGED <<event, bell>> /\ audit \cup writing \subseteq (audit \cup writing)'
    BY <1>4 DEF Events!WriteAudit, Events!MailStep, Events!MailDropped,
      Events!ReadPreferences, Events!Enqueue,
       Events!Surroundings, Events!Forget, Events!SetActive, Events!SetPreference, Events!vars
  <2> QED
    BY <1>0, <2>1 DEF Recorded
<1> QED
  BY <1>1, <1>2, <1>3, <1>4 DEF Events!BellStep, BellFault

\* The steps of the loads are steps of the listeners.
LEMMA EventsNext ==
  ASSUME type \in Events!Types, [MCNext]_<<vars, mcVars, eventVars>>
  PROVE  /\ [Events!Next]_Events!vars /\ UNCHANGED <<load, type>>
         /\ load # "failing" =>
              \/ \E o \in Occurrences, e \in Events!Event : Events!Publish(o, e)
              \/ \E o \in Occurrences : Events!BellStep(o) \/ Events!WriteAudit(o)
                   \/ Events!MailStep(o) \/ Events!MailDropped(o)
              \/ BellFault
              \/ Events!Surroundings
              \/ UNCHANGED Events!vars
<1>1. \A a \in BOOLEAN, d \in Details :
        [type |-> type, addressed |-> a, detail |-> d] \in Events!Event
  BY DEF Events!Event, Events!Detail, Details
<1>2. CASE EventsStep /\ UNCHANGED <<load, type>>
  BY <1>1, <1>2 DEF EventsStep, Events!Next, BellFault, Events!Fault
<1>3. CASE UNCHANGED eventVars /\ UNCHANGED load
  BY <1>3 DEF eventVars, Events!vars, Events!accounts, Events!notices, Events!mailVars
<1> QED
  BY <1>2, <1>3 DEF MCNext, mcVars, eventVars

LEMMA EventsInit == MCInit => OnRecordInv /\ ToldInv
<1> SUFFICES ASSUME MCInit PROVE OnRecordInv /\ ToldInv
  OBVIOUS
<1>1. ToldInv /\ \A o \in Occurrences : event[o] = Events!NoEvent
  BY ToldInit DEF MCInit, Events!Init
<1>2. Events!NoEvent.type \notin Events!RecordedFirst
  BY DEF Events!NoEvent, Events!RecordedFirst, Events!Audited, Events!AccountAudits,
     Events!CompanyAudits, Events!JobAudits
<1> QED
  BY <1>1, <1>2 DEF OnRecordInv, Recorded, ToldInv, MCInit

LEMMA EventsPreserve ==
  ASSUME OnRecordInv, ToldInv, [MCNext]_<<vars, mcVars, eventVars>>
  PROVE  OnRecordInv' /\ ToldInv'
BY EventsNext, ToldNext, OnRecordStep DEF OnRecordInv, ToldInv

\* Handlers, rows and records keep their types for every set of people and
\* occurrences, of whatever types of event, failures and stops included.
THEOREM ListenersTyped == MCSpec => []EventsTyped
<1>1. ToldInv => EventsTyped
  BY DEF ToldInv, EventsInv, EventsTyped
<1> QED
  BY EventsInit, EventsPreserve, <1>1, PTL DEF MCSpec

\* When the handler of an event that is news of its own got through, everybody
\* concerned who was active all along was told of this very occurrence, although
\* rows under other keys stand for earlier ones: for any number of occurrences.
THEOREM NewsArrives == MCSpec => []ToldEachTime
<1>1. ToldInv => ToldEachTime
  <2> SUFFICES ASSUME ToldInv, NEW o \in Occurrences, bell[o].phase = "done",
                      event[o].type \in DOMAIN Events!NewsEachTime,
                      NEW u \in Events!NewsEachTime[event[o].type] \cap steady
               PROVE  Heard(o, u)
    BY DEF ToldEachTime, Events!ToldEachTime, Heard
  <2>1. event[o] \in Events!Event
    BY DEF ToldInv, EventsInv, Events!TypeOK, Events!NoEvent, Events!NewsEachTime
  <2> QED
    BY <2>1 DEF ToldInv, News, Concerned
<1> QED
  BY EventsInit, EventsPreserve, <1>1, PTL DEF MCSpec

\* As long as the audit listener's own write succeeds, an event that is to be
\* recorded before anybody is told of it is on record, or about to be, when its
\* handler is over, also when telling people failed half way.
THEOREM EventsOnRecord == MCSpec => []ReliableRecordKept
<1>1. OnRecordInv => ReliableRecordKept
  <2> SUFFICES ASSUME OnRecordInv, load # "failing", NEW o \in Occurrences,
                      event[o].type \in Events!RecordedFirst, ~Events!Running(o)
               PROVE  o \in audit \cup writing
    BY DEF ReliableRecordKept, Events!RecordKept
  <2>1. event[o] \in Events!Event
    BY DEF OnRecordInv, EventsInv, Events!TypeOK, Events!NoEvent, Events!RecordedFirst,
       Events!Audited, Events!AccountAudits, Events!CompanyAudits, Events!JobAudits
  <2> QED
    BY <2>1 DEF OnRecordInv, Recorded, Events!Running
<1> QED
  BY EventsInit, EventsPreserve, <1>1, PTL DEF MCSpec
=============================================================================
