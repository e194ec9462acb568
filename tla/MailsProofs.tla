----------------------------- MODULE MailsProofs -----------------------------
(***************************************************************************)
(* Proofs about Mails: what is queued is complete, and a mail is handed to *)
(* the SMTP server at most once per attempt and per restart.  The argument *)
(* counts how often a job was taken: once per failure, once per stall and  *)
(* once more while it is active or when it was completed.  A worker that   *)
(* lost its job may still deliver, so deliveries that are still to come    *)
(* are counted with those that were made.                                  *)
(***************************************************************************)
EXTENDS Mails, FiniteSets, FiniteSetTheorems, TLAPS

Label == {"idle", "edit.layout", "edit.write", "seed.template", "send.layout", "send.enqueue"}
State == {"none", "waiting", "active", "delayed", "completed", "failed"}

ReqRec == [read : Template \cup {None}, skin : LayoutRow \cup {None}, change : Change,
           mail : Mail \cup {None}, given : SUBSET Hole, fallback : BOOLEAN,
           blank : SUBSET Hole]
JobRec == [state : State, blank : SUBSET Hole, failures : Nat, stalls : Nat]
WorkerRec == [mail : Mail \cup {None}, sent : BOOLEAN, owner : BOOLEAN]

Types ==
  /\ template \in Template /\ layouts \in [Layout -> LayoutRow \cup {None}]
  /\ pc \in [Request -> Label] /\ req \in [Request -> ReqRec]
  /\ job \in [Mail -> JobRec] /\ worker \in [Worker -> WorkerRec] /\ copies \in [Mail -> Nat]

\* A mail is sent by one request, which adds a job where there is none.
Sending(r) ==
  /\ pc[r] \in {"edit.layout", "edit.write", "send.layout"} => req[r].read \in Template
  /\ pc[r] \in {"send.layout", "send.enqueue"} => req[r].mail \in Mail
  /\ pc[r] = "send.enqueue" => req[r].blank = {}
  /\ req[r].mail \in Mail =>
       /\ job[req[r].mail] = NoJob
       /\ \A q \in Request \ {r} : req[q].mail # req[r].mail

\* The lock of a job.
OwnerHolds ==
  \A w \in Worker :
    worker[w].mail \in Mail /\ worker[w].owner =>
      /\ job[worker[w].mail].state = "active"
      /\ \A v \in Worker \ {w} : ~(worker[v].mail = worker[w].mail /\ worker[v].owner)

\* Workers that may still deliver m.
Due(m) == {w \in Worker : worker[w].mail = m /\ ~worker[w].sent}

\* How often a job was taken.
TakenTimes(j) ==
  j.failures + j.stalls + (IF j.state \in {"active", "completed"} THEN 1 ELSE 0)

\* A job fails for good when the last attempt fails, or the last restart stalls.
Counted(j) ==
  IF j.state = "failed"
  THEN \/ j.failures = Attempts /\ j.stalls <= MaxStalls
       \/ j.failures < Attempts /\ j.stalls = MaxStalls + 1
  ELSE j.failures < Attempts /\ j.stalls <= MaxStalls

CopiesInv ==
  \A m \in Mail :
    /\ Counted(job[m])
    /\ IsFiniteSet(Due(m))
    /\ copies[m] + Cardinality(Due(m)) <= TakenTimes(job[m])

MailsInv ==
  /\ Types
  /\ \A r \in Request : Sending(r)
  /\ MailsAreComplete
  /\ OwnerHolds
  /\ CopiesInv

-----------------------------------------------------------------------------
(* Records.                                                                *)

LEMMA EmptyRecords ==
  /\ NoReq \in ReqRec /\ NoJob \in JobRec /\ Idle \in WorkerRec
  /\ NoReq.mail = None /\ NoReq.blank = {} /\ None \notin Mail
  /\ NoJob.state = "none" /\ NoJob.blank = {} /\ NoJob.failures = 0 /\ NoJob.stalls = 0
  /\ Idle.mail = None /\ ~Idle.owner
  BY MailsAssumption DEF NoReq, ReqRec, NoChange, Change, NoJob, JobRec, State, Idle, WorkerRec

\* What a request remembers when it reads a template and when it has rendered it.
EditReq(q, t, c) == [q EXCEPT !.read = t, !.change = c]
SendReq(q, t, m, g, f) == [q EXCEPT !.read = t, !.mail = m, !.given = g, !.fallback = f]
MailReq(q, m, b) == [q EXCEPT !.mail = m, !.blank = b]

LEMMA ReqEdits ==
  ASSUME NEW q \in ReqRec, NEW t \in Template \cup {None}, NEW c \in Change
  PROVE  LET x == EditReq(q, t, c)
         IN x \in ReqRec /\ x.read = t /\ x.mail = q.mail
  BY DEF ReqRec, EditReq

LEMMA ReqSkins ==
  ASSUME NEW q \in ReqRec, NEW s \in LayoutRow \cup {None}
  PROVE  LET x == [q EXCEPT !.skin = s]
         IN x \in ReqRec /\ x.read = q.read /\ x.mail = q.mail
  BY DEF ReqRec

LEMMA ReqSends ==
  ASSUME NEW q \in ReqRec, NEW t \in Template \cup {None}, NEW m \in Mail \cup {None},
         NEW g \in SUBSET Hole, NEW f \in BOOLEAN
  PROVE  LET x == SendReq(q, t, m, g, f)
         IN x \in ReqRec /\ x.read = t /\ x.mail = m
  BY DEF ReqRec, SendReq

LEMMA ReqRenders ==
  ASSUME NEW q \in ReqRec, NEW m \in Mail \cup {None}, NEW b \in SUBSET Hole
  PROVE  LET x == MailReq(q, m, b)
         IN x \in ReqRec /\ x.mail = m /\ x.blank = b
  BY DEF ReqRec, MailReq

LEMMA JobState ==
  ASSUME NEW j \in JobRec, NEW s \in State
  PROVE  LET x == [j EXCEPT !.state = s]
         IN x \in JobRec /\ x.state = s /\ x.blank = j.blank
            /\ x.failures = j.failures /\ x.stalls = j.stalls
  BY DEF JobRec

\* A failure is counted, and the job tried again or given up.
LEMMA FailureCounts ==
  ASSUME NEW j \in JobRec, j.state = "active", Counted(j)
  PROVE  LET x == AfterFailure(j)
         IN /\ x \in JobRec /\ x.blank = j.blank /\ x.state \in {"delayed", "failed"}
            /\ Counted(x) /\ TakenTimes(x) = TakenTimes(j)
<1> DEFINE s == IF j.failures + 1 < Attempts THEN "delayed" ELSE "failed"
           n == j.failures + 1
           x == AfterFailure(j)
<1>1. j.failures \in Nat /\ j.stalls \in Nat /\ Attempts \in Nat /\ MaxStalls \in Nat
  BY MailsAssumption DEF JobRec
<1>2. s \in State /\ n \in Nat
  BY <1>1 DEF State
<1>3. x = [j EXCEPT !.failures = n, !.state = s]
  BY DEF AfterFailure
<1> HIDE DEF s, n, x
<1>4. /\ x \in JobRec /\ x.state = s /\ x.blank = j.blank
      /\ x.failures = n /\ x.stalls = j.stalls
  BY <1>2, <1>3 DEF JobRec
<1>5. Counted(x) /\ TakenTimes(x) = TakenTimes(j) /\ x.state \in {"delayed", "failed"}
  BY <1>1, <1>4 DEF Counted, TakenTimes, s, n
<1> QED
  BY <1>4, <1>5 DEF x

LEMMA StallCounts ==
  ASSUME NEW j \in JobRec, j.state = "active", Counted(j)
  PROVE  LET x == AfterStall(j)
         IN /\ x \in JobRec /\ x.blank = j.blank /\ x.state \in {"waiting", "failed"}
            /\ Counted(x) /\ TakenTimes(x) = TakenTimes(j)
<1> DEFINE s == IF j.stalls < MaxStalls THEN "waiting" ELSE "failed"
           n == j.stalls + 1
           x == AfterStall(j)
<1>1. j.failures \in Nat /\ j.stalls \in Nat /\ Attempts \in Nat /\ MaxStalls \in Nat
  BY MailsAssumption DEF JobRec
<1>2. s \in State /\ n \in Nat
  BY <1>1 DEF State
<1>3. x = [j EXCEPT !.stalls = n, !.state = s]
  BY DEF AfterStall
<1> HIDE DEF s, n, x
<1>4. /\ x \in JobRec /\ x.state = s /\ x.blank = j.blank
      /\ x.failures = j.failures /\ x.stalls = n
  BY <1>2, <1>3 DEF JobRec
<1>5. Counted(x) /\ TakenTimes(x) = TakenTimes(j) /\ x.state \in {"waiting", "failed"}
  BY <1>1, <1>4 DEF Counted, TakenTimes, s, n
<1> QED
  BY <1>4, <1>5 DEF x

-----------------------------------------------------------------------------
(* The workers.                                                            *)

\* A worker takes or drops a mail; the deliveries still due change by one at most.
LEMMA DueStep ==
  ASSUME Types, NEW w \in Worker, NEW x \in WorkerRec, NEW m \in Mail,
         worker' = [worker EXCEPT ![w] = x], IsFiniteSet(Due(m))
  PROVE  /\ IsFiniteSet(Due(m)')
         /\ Cardinality(Due(m)) \in Nat
         /\ Cardinality(Due(m)') =
              Cardinality(Due(m))
                + (IF x.mail = m /\ ~x.sent THEN 1 ELSE 0)
                - (IF worker[w].mail = m /\ ~worker[w].sent THEN 1 ELSE 0)
<1> DEFINE D == Due(m)
           E == Due(m)'
           in == x.mail = m /\ ~x.sent
           was == worker[w].mail = m /\ ~worker[w].sent
<1>1. (w \in E <=> in) /\ (w \in D <=> was) /\ E \ {w} = D \ {w}
  BY DEF Types, Due
<1>2. IsFiniteSet(D) /\ Cardinality(D) \in Nat
  BY FS_CardinalityType
<1> HIDE DEF D, E, in, was
<1>3. /\ IsFiniteSet(D \ {w})
      /\ Cardinality(D \ {w}) = Cardinality(D) - (IF was THEN 1 ELSE 0)
  BY <1>1, <1>2, FS_RemoveElement
<1>4. E = IF in THEN (E \ {w}) \cup {w} ELSE E \ {w}
  BY <1>1
<1>5. /\ IsFiniteSet((E \ {w}) \cup {w})
      /\ Cardinality((E \ {w}) \cup {w}) = Cardinality(E \ {w}) + 1
  BY <1>1, <1>3, FS_AddElement
<1>6. IsFiniteSet(E) /\ Cardinality(E) = Cardinality(E \ {w}) + (IF in THEN 1 ELSE 0)
  <2>1. CASE in
    <3>1. E = (E \ {w}) \cup {w}
      BY <1>4, <2>1
    <3> QED
      BY <1>5, <2>1, <3>1
  <2>2. CASE ~in
    <3>1. E = E \ {w} /\ IsFiniteSet(E \ {w})
      BY <1>1, <1>3, <1>4, <2>2
    <3>2. Cardinality(E) \in Nat /\ Cardinality(E) = Cardinality(E \ {w})
      BY <3>1, FS_CardinalityType
    <3> QED
      BY <2>2, <3>1, <3>2
  <2> QED
    BY <2>1, <2>2
<1>7. Cardinality(E) = Cardinality(D) + (IF in THEN 1 ELSE 0) - (IF was THEN 1 ELSE 0)
  <2>1. Cardinality(E \ {w}) = Cardinality(D \ {w})
    BY <1>1
  <2> QED
    BY ONLY <1>2, <1>3, <1>6, <2>1
<1> QED
  BY <1>2, <1>6, <1>7 DEF D, E, in, was

-----------------------------------------------------------------------------
(* Requests.                                                               *)

\* The queue does not change; a request goes on with the mail it had, or takes
\* one that nobody else sends.
LEMMA RequestStep ==
  ASSUME MailsInv, NEW r \in Request, NEW l \in Label, NEW x \in ReqRec,
         pc' = [pc EXCEPT ![r] = l], req' = [req EXCEPT ![r] = x], UNCHANGED queue,
         template' \in Template, layouts' \in [Layout -> LayoutRow \cup {None}],
         l \in {"edit.layout", "edit.write", "send.layout"} => x.read \in Template,
         l \in {"send.layout", "send.enqueue"} => x.mail \in Mail,
         l = "send.enqueue" => x.blank = {},
         x.mail \in Mail =>
           \/ x.mail = req[r].mail
           \/ job[x.mail] = NoJob /\ \A q \in Request : req[q].mail # x.mail
  PROVE  MailsInv'
<1>1. Types
  BY DEF MailsInv
<1>2. /\ pc'[r] = l /\ req'[r] = x
      /\ \A q \in Request \ {r} : pc'[q] = pc[q] /\ req'[q] = req[q]
  BY <1>1 DEF Types
<1>3. Types'
  BY <1>1 DEF Types, queue
<1>4. job' = job /\ worker' = worker /\ copies' = copies
  BY DEF queue
<1>5. ASSUME NEW q \in Request PROVE Sending(q)'
  <2>1. Sending(q) /\ Sending(r)
    BY DEF MailsInv
  <2>2. CASE q = r
    BY <1>2, <1>4, <2>1, <2>2 DEF Sending
  <2>3. CASE q # r
    <3>1. \A p \in Request \ {q} : req'[q].mail \in Mail => req'[p].mail # req'[q].mail
      BY <1>2, <2>1, <2>3 DEF Sending
    <3> QED
      BY <1>2, <1>4, <2>1, <2>3, <3>1 DEF Sending
  <2> QED
    BY <2>2, <2>3
<1>6. MailsAreComplete' /\ OwnerHolds' /\ CopiesInv'
  BY <1>4 DEF MailsInv, MailsAreComplete, OwnerHolds, CopiesInv, Due
<1> QED
  BY <1>3, <1>5, <1>6 DEF MailsInv

LEMMA FinishStep ==
  ASSUME MailsInv, NEW r \in Request, Finish(r), UNCHANGED queue,
         template' \in Template, layouts' \in [Layout -> LayoutRow \cup {None}]
  PROVE  MailsInv'
  BY RequestStep, EmptyRecords DEF Finish, Label

LEMMA WriteLayoutStep ==
  ASSUME MailsInv, NEW l \in Layout, NEW new \in LayoutRow, WriteLayout(l, new)
  PROVE  MailsInv'
<1>1. layouts' \in [Layout -> LayoutRow \cup {None}] /\ UNCHANGED <<template, pc, req, queue>>
  BY DEF WriteLayout, MailsInv, Types
<1> QED
  BY <1>1 DEF MailsInv, Types, queue, Sending, MailsAreComplete, OwnerHolds, CopiesInv, Due

LEMMA EditReadStep ==
  ASSUME MailsInv, NEW r \in Request, NEW c \in Updates, EditRead(r, c)
  PROVE  MailsInv'
<1> DEFINE x == EditReq(NoReq, template, c)
<1>1. Types /\ c \in Change
  BY UpdatesAssumption DEF MailsInv
<1>2. x \in ReqRec /\ x.read = template /\ x.mail = None
  <2>1. NoReq \in ReqRec /\ NoReq.mail = None /\ template \in Template
    BY <1>1, EmptyRecords DEF Types
  <2> QED
    BY <1>1, <2>1, ReqEdits
<1>3. /\ pc' = [pc EXCEPT ![r] = "edit.layout"] /\ req' = [req EXCEPT ![r] = x]
      /\ UNCHANGED queue /\ template' \in Template
      /\ layouts' \in [Layout -> LayoutRow \cup {None}]
  BY <1>1 DEF EditRead, rows, Types, EditReq
<1> HIDE DEF x
<1> QED
  BY <1>1, <1>2, <1>3, EmptyRecords, RequestStep DEF Label, Types

LEMMA EditLayoutStep ==
  ASSUME MailsInv, NEW r \in Request, EditLayout(r)
  PROVE  MailsInv'
<1> DEFINE l == Or(req[r].change.layout, req[r].read.layout)
           s == IF l \in Layout THEN layouts[l] ELSE None
           x == [req[r] EXCEPT !.skin = s]
<1>1. Types /\ req[r] \in ReqRec /\ req[r].read \in Template
  BY DEF MailsInv, Types, Sending, EditLayout
<1>2. /\ UNCHANGED queue /\ template' \in Template
      /\ layouts' \in [Layout -> LayoutRow \cup {None}]
  BY <1>1 DEF EditLayout, rows, Types
<1>3. CASE Finish(r)
  BY <1>2, <1>3, FinishStep
<1>4. CASE ~Finish(r)
  <2>1. s \in LayoutRow \cup {None}
    BY <1>1 DEF Types
  <2>2. pc' = [pc EXCEPT ![r] = "edit.write"] /\ req' = [req EXCEPT ![r] = x]
    BY <1>1, <1>4 DEF EditLayout, Types
  <2> HIDE DEF s
  <2>3. x \in ReqRec /\ x.read = req[r].read /\ x.mail = req[r].mail
    BY <1>1, <2>1, ReqSkins
  <2> HIDE DEF x
  <2> QED
    BY <1>1, <1>2, <2>2, <2>3, RequestStep DEF Label
<1> QED
  BY <1>3, <1>4

LEMMA EditWriteStep ==
  ASSUME MailsInv, NEW r \in Request, EditWrite(r)
  PROVE  MailsInv'
<1>1. Types /\ req[r] \in ReqRec
  BY DEF MailsInv, Types
<1>2. UNCHANGED queue /\ Finish(r) /\ layouts' \in [Layout -> LayoutRow \cup {None}]
  BY <1>1 DEF EditWrite, Types
<1>3. template' \in Template
  <2>1. CASE UNCHANGED template
    BY <1>1, <2>1 DEF Types
  <2>2. CASE ~UNCHANGED template
    <3> DEFINE c == req[r].change
               a == Or(c.active, template.active)
               h == Or(c.holes, template.holes)
               v == Or(c.vars, template.vars)
               l == IF c.layout = "null" THEN None ELSE Or(c.layout, template.layout)
    <3>1. template' = [active |-> a, holes |-> h, vars |-> v, layout |-> l]
      BY <2>2 DEF EditWrite
    <3>2. c \in Change /\ template \in Template
      BY <1>1 DEF ReqRec, Types
    <3>3. /\ a \in BOOLEAN /\ h \in SUBSET Hole /\ v \in SUBSET Hole
          /\ l \in Layout \cup {None}
      BY <3>2 DEF Change, Template, Or
    <3> HIDE DEF a, h, v, l
    <3> QED
      BY <3>1, <3>3 DEF Template
  <2> QED
    BY <2>1, <2>2
<1> QED
  BY <1>2, <1>3, FinishStep

LEMMA SeedSteps ==
  ASSUME MailsInv, NEW r \in Request, SeedLayout(r) \/ SeedTemplate(r)
  PROVE  MailsInv'
<1>1. Types /\ req[r] \in ReqRec
  BY DEF MailsInv, Types
<1>2. Framed \in SUBSET Hole /\ Payload \in SUBSET Hole /\ Seeded \in Layout
  BY MailsAssumption
<1>3. CASE SeedLayout(r)
  <2>1. SeededLayout \in LayoutRow
    BY <1>2 DEF SeededLayout, LayoutRow
  <2>2. layouts' \in [Layout -> LayoutRow \cup {None}]
    BY <1>1, <1>2, <1>3, <2>1 DEF SeedLayout, Types
  <2>3. /\ pc' = [pc EXCEPT ![r] = "seed.template"] /\ req' = [req EXCEPT ![r] = req[r]]
        /\ UNCHANGED queue /\ template' \in Template
    BY <1>1, <1>3 DEF SeedLayout, Types
  <2> QED
    BY <1>1, <2>2, <2>3, RequestStep DEF Label
<1>4. CASE SeedTemplate(r)
  <2>1. template' \in Template
    BY <1>1, <1>2, <1>4 DEF SeedTemplate, Types, Template
  <2> QED
    BY <1>1, <1>4, <2>1, FinishStep DEF SeedTemplate, Types
<1> QED
  BY <1>3, <1>4

LEMMA SendReadStep ==
  ASSUME MailsInv, NEW r \in Request, NEW m \in Mail, NEW given \in SUBSET Hole,
         NEW fallback \in BOOLEAN, SendRead(r, m, given, fallback)
  PROVE  MailsInv'
<1> DEFINE x == SendReq(NoReq, template, m, given, fallback)
<1>1. Types
  BY DEF MailsInv
<1>2. x \in ReqRec /\ x.read = template /\ x.mail = m
  <2>1. NoReq \in ReqRec /\ template \in Template
    BY <1>1, EmptyRecords DEF Types
  <2> QED
    BY <2>1, ReqSends
<1>3. /\ pc' = [pc EXCEPT ![r] = "send.layout"] /\ req' = [req EXCEPT ![r] = x]
      /\ UNCHANGED queue /\ template' \in Template
      /\ layouts' \in [Layout -> LayoutRow \cup {None}]
  BY <1>1 DEF SendRead, rows, Types, SendReq
<1>4. job[m] = NoJob /\ \A q \in Request : req[q].mail # m
  BY DEF SendRead
<1> HIDE DEF x
<1> QED
  BY <1>1, <1>2, <1>3, <1>4, RequestStep DEF Label, Types

\* A mail that renders lacks nothing; nor does a fallback.
LEMMA RenderedIsFull ==
  ASSUME NEW t, NEW skin, NEW given, Renderable(t, skin, given)
  PROVE  Blank(t, skin, given) = {}
  BY DEF Renderable, Blank, HolesOf

LEMMA SendLayoutStep ==
  ASSUME MailsInv, NEW r \in Request, SendLayout(r)
  PROVE  MailsInv'
<1> DEFINE q == req[r]
           skin == IF q.read.layout = None THEN None ELSE layouts[q.read.layout]
           fall == q.fallback /\ ~q.read.active
           b == IF fall THEN {} ELSE Blank(q.read, skin, q.given)
           x == MailReq(NoReq, q.mail, b)
<1>1. Types /\ req[r] \in ReqRec /\ q.mail \in Mail
  BY DEF MailsInv, Types, Sending, SendLayout
<1>2. /\ UNCHANGED queue /\ template' \in Template
      /\ layouts' \in [Layout -> LayoutRow \cup {None}]
  BY <1>1 DEF SendLayout, rows, Types
<1>3. CASE Finish(r)
  BY <1>2, <1>3, FinishStep
<1>4. CASE ~Finish(r)
  <2>1. fall \/ Renderable(q.read, skin, q.given)
    BY <1>4 DEF SendLayout
  <2>2. pc' = [pc EXCEPT ![r] = "send.enqueue"] /\ req' = [req EXCEPT ![r] = x]
    BY <1>4, <2>1 DEF SendLayout, MailReq
  <2>3. b = {}
    BY <2>1, RenderedIsFull
  <2> HIDE DEF b
  <2>4. x \in ReqRec /\ x.mail = q.mail /\ x.blank = b
      <3>1. NoReq \in ReqRec /\ b \in SUBSET Hole
      BY <2>3, EmptyRecords
    <3> QED
      BY <1>1, <3>1, ReqRenders
  <2> HIDE DEF x
  <2> QED
    BY <1>1, <1>2, <2>2, <2>3, <2>4, RequestStep DEF Label
<1> QED
  BY <1>3, <1>4

LEMMA AbortStep ==
  ASSUME MailsInv, NEW r \in Request, Abort(r)
  PROVE  MailsInv'
  BY FinishStep DEF Abort, rows, MailsInv, Types

-----------------------------------------------------------------------------
(* The queue.                                                              *)

\* One job changes, of a mail that was queued, or only workers do.
LEMMA QueueStep ==
  ASSUME MailsInv, UNCHANGED <<rows, pc, req>>, NEW m \in Mail, NEW j \in JobRec,
         job' = [job EXCEPT ![m] = j], j.blank = job[m].blank,
         j = job[m] \/ job[m].state # "none",
         worker' \in [Worker -> WorkerRec], copies' \in [Mail -> Nat],
         OwnerHolds', CopiesInv'
  PROVE  MailsInv'
<1>1. Types /\ MailsAreComplete
  BY DEF MailsInv
<1>2. Types'
  BY <1>1 DEF Types, rows
<1>3. job'[m] = j /\ \A n \in Mail \ {m} : job'[n] = job[n]
  BY <1>1 DEF Types
<1>4. MailsAreComplete'
  BY <1>1, <1>3 DEF MailsAreComplete
<1>5. ASSUME NEW r \in Request PROVE Sending(r)'
  <2>1. Sending(r)
    BY DEF MailsInv
  <2>2. req[r].mail \in Mail => job'[req[r].mail] = job[req[r].mail]
    BY <1>3, <2>1, EmptyRecords DEF Sending
  <2> QED
    BY <2>1, <2>2 DEF Sending
<1> QED
  BY <1>2, <1>4, <1>5 DEF MailsInv

\* The same with the deliveries counted for one worker.
LEMMA WorkerStep ==
  ASSUME MailsInv, UNCHANGED <<rows, pc, req>>, NEW m \in Mail, NEW j \in JobRec,
         NEW w \in Worker, NEW x \in WorkerRec, NEW n \in Nat,
         job' = [job EXCEPT ![m] = j], j.blank = job[m].blank,
         j = job[m] \/ job[m].state # "none",
         worker' = [worker EXCEPT ![w] = x], copies' = [copies EXCEPT ![m] = n],
         worker[w].mail \in {m, None}, x.mail \in {m, None},
         Counted(j),
         n + (IF x.mail = m /\ ~x.sent THEN 1 ELSE 0)
           - (IF worker[w].mail = m /\ ~worker[w].sent THEN 1 ELSE 0)
           - copies[m] <= TakenTimes(j) - TakenTimes(job[m]),
         OwnerHolds'
  PROVE  MailsInv'
<1>1. Types /\ CopiesInv /\ None \notin Mail
  BY EmptyRecords DEF MailsInv
<1>2. /\ job'[m] = j /\ copies'[m] = n
      /\ \A k \in Mail \ {m} : job'[k] = job[k] /\ copies'[k] = copies[k]
  BY <1>1 DEF Types
<1>3. worker' \in [Worker -> WorkerRec] /\ copies' \in [Mail -> Nat]
  BY <1>1 DEF Types
<1>4. ASSUME NEW k \in Mail
      PROVE  /\ Counted(job'[k]) /\ IsFiniteSet(Due(k)')
             /\ copies'[k] + Cardinality(Due(k)') <= TakenTimes(job'[k])
  <2>1. /\ Counted(job[k]) /\ IsFiniteSet(Due(k))
        /\ copies[k] + Cardinality(Due(k)) <= TakenTimes(job[k])
    BY <1>1 DEF CopiesInv
  <2>2. /\ IsFiniteSet(Due(k)') /\ Cardinality(Due(k)) \in Nat
        /\ Cardinality(Due(k)') =
             Cardinality(Due(k))
               + (IF x.mail = k /\ ~x.sent THEN 1 ELSE 0)
               - (IF worker[w].mail = k /\ ~worker[w].sent THEN 1 ELSE 0)
    BY <1>1, <2>1, DueStep
  <2>3. CASE k # m
    <3>1. x.mail # k /\ worker[w].mail # k
      BY <1>1, <2>3
    <3>2. Cardinality(Due(k)') = Cardinality(Due(k))
      BY <2>2, <3>1
    <3> QED
      BY <1>2, <2>1, <2>2, <2>3, <3>2
  <2>4. CASE k = m
    <3>1. copies[m] \in Nat /\ TakenTimes(job[m]) \in Nat /\ TakenTimes(j) \in Nat
      <4>1. \A y \in JobRec : TakenTimes(y) \in Nat
        BY DEF JobRec, TakenTimes
      <4>2. copies[m] \in Nat /\ job[m] \in JobRec
        BY <1>1 DEF Types
      <4> QED
        BY <4>1, <4>2
    <3>2. n + Cardinality(Due(m)') <= TakenTimes(j)
      BY <2>1, <2>2, <2>4, <3>1
    <3> QED
      BY <1>2, <2>2, <2>4, <3>2
  <2> QED
    BY <2>3, <2>4
<1>5. CopiesInv'
  BY <1>4 DEF CopiesInv, Counted, TakenTimes
<1> QED
  BY <1>3, <1>5, QueueStep

LEMMA EnqueueStep ==
  ASSUME MailsInv, NEW r \in Request, Enqueue(r)
  PROVE  MailsInv'
<1> PICK m \in {req[r].mail} : TRUE
  OBVIOUS
<1>1. Types /\ MailsAreComplete /\ OwnerHolds /\ CopiesInv /\ Sending(r)
  BY DEF MailsInv
<1>2. m \in Mail /\ req[r].blank = {} /\ job[m] = NoJob
      /\ \A q \in Request \ {r} : req[q].mail # m
  BY <1>1 DEF Sending, Enqueue
<1> DEFINE j == [NoJob EXCEPT !.state = "waiting", !.blank = req[r].blank]
<1>3. /\ j \in JobRec /\ j.state = "waiting" /\ j.blank = {}
      /\ j.failures = 0 /\ j.stalls = 0
  BY <1>2 DEF NoJob, JobRec, State
<1>4. job' = [job EXCEPT ![m] = j]
  BY DEF Enqueue
<1> HIDE DEF j
<1>5. /\ job'[m] = j /\ \A k \in Mail \ {m} : job'[k] = job[k]
      /\ worker' = worker /\ copies' = copies
  BY <1>1, <1>2, <1>4 DEF Types, Enqueue
<1>6. Types'
  BY <1>1, <1>3, <1>4, EmptyRecords DEF Types, Enqueue, rows, Finish, Label
<1>7. MailsAreComplete'
  BY <1>1, <1>3, <1>5 DEF MailsAreComplete
<1>8. OwnerHolds'
  <2>1. ASSUME NEW w \in Worker, worker[w].owner PROVE worker[w].mail # m
    BY <1>1, <1>2, <2>1, EmptyRecords DEF OwnerHolds
  <2> QED
    BY <1>1, <1>5, <2>1 DEF OwnerHolds
<1>9. CopiesInv'
  <2>1. Counted(j) /\ TakenTimes(j) = TakenTimes(job[m])
    BY <1>2, <1>3, EmptyRecords, MailsAssumption DEF Counted, TakenTimes
  <2> QED
    BY <1>1, <1>5, <2>1 DEF CopiesInv, Due, Counted, TakenTimes
<1>10. ASSUME NEW q \in Request PROVE Sending(q)'
  <2>1. Sending(q)
    BY DEF MailsInv
  <2>2. CASE q = r
    <3>1. pc'[q] = "idle" /\ req'[q] = NoReq
      BY <1>1, <2>2 DEF Types, Enqueue, Finish
    <3> QED
      BY <3>1, EmptyRecords DEF Sending
  <2>3. CASE q # r
    <3>1. pc'[q] = pc[q] /\ req'[q] = req[q]
      BY <1>1, <2>3 DEF Types, Enqueue, Finish
    <3>2. req[q].mail # m
      BY <1>2, <2>3
    <3>3. \A p \in Request \ {q} : req'[p].mail \in {req[p].mail, None}
      BY <1>1, EmptyRecords DEF Types, Enqueue, Finish
    <3> QED
      BY <1>5, <2>1, <3>1, <3>2, <3>3, EmptyRecords DEF Sending
  <2> QED
    BY <2>2, <2>3
<1> QED
  BY <1>6, <1>7, <1>8, <1>9, <1>10 DEF MailsInv

LEMMA TakeStep ==
  ASSUME MailsInv, NEW w \in Worker, NEW m \in Mail, Take(w, m)
  PROVE  MailsInv'
<1> DEFINE j == [job[m] EXCEPT !.state = "active"]
<1>1. Types /\ OwnerHolds /\ CopiesInv
  BY DEF MailsInv
<1>2. /\ worker[w] = Idle /\ job[m].state = "waiting" /\ job[m] \in JobRec
      /\ UNCHANGED <<rows, pc, req, copies>>
  BY <1>1 DEF Take, Types
<1>3. /\ j \in JobRec /\ j.state = "active" /\ j.blank = job[m].blank
      /\ j.failures = job[m].failures /\ j.stalls = job[m].stalls
  BY <1>2, JobState DEF State
<1>4. job' = [job EXCEPT ![m] = j]
  BY DEF Take
<1>5. PICK x \in WorkerRec : /\ x.mail = m /\ ~x.sent /\ x.owner
                             /\ worker' = [worker EXCEPT ![w] = x]
  BY DEF Take, WorkerRec
<1> HIDE DEF j
<1>6. copies' = [copies EXCEPT ![m] = copies[m]] /\ copies[m] \in Nat
  BY <1>1, <1>2 DEF Types
<1>7. Counted(j) /\ TakenTimes(j) = TakenTimes(job[m]) + 1 /\ TakenTimes(job[m]) \in Nat
  BY <1>1, <1>2, <1>3 DEF CopiesInv, Counted, TakenTimes, JobRec
<1>8. OwnerHolds'
  <2>1. job'[m] = j /\ \A k \in Mail \ {m} : job'[k] = job[k]
    BY <1>1, <1>4 DEF Types
  <2>2. worker'[w] = x /\ \A v \in Worker \ {w} : worker'[v] = worker[v]
    BY <1>1, <1>5 DEF Types
  <2>3. \A v \in Worker : ~(worker[v].mail = m /\ worker[v].owner)
    BY <1>1, <1>2 DEF OwnerHolds
  <2> QED
    BY <1>1, <1>3, <1>5, <2>1, <2>2, <2>3 DEF OwnerHolds
<1>9. worker[w].mail = None /\ None \notin Mail
  BY <1>2, EmptyRecords
<1>10. copies[m] + (IF x.mail = m /\ ~x.sent THEN 1 ELSE 0)
         - (IF worker[w].mail = m /\ ~worker[w].sent THEN 1 ELSE 0)
         - copies[m] <= TakenTimes(j) - TakenTimes(job[m])
  BY <1>5, <1>6, <1>7, <1>9
<1> QED
  BY <1>2, <1>3, <1>4, <1>5, <1>6, <1>7, <1>8, <1>9, <1>10, WorkerStep

LEMMA DeliverStep ==
  ASSUME MailsInv, NEW w \in Worker, Deliver(w)
  PROVE  MailsInv'
<1> PICK m \in {worker[w].mail} : TRUE
  OBVIOUS
<1>1. Types /\ OwnerHolds /\ CopiesInv
  BY DEF MailsInv
<1>2. /\ m \in Mail /\ ~worker[w].sent /\ worker[w] \in WorkerRec /\ job[m] \in JobRec
      /\ copies[m] \in Nat /\ UNCHANGED <<rows, pc, req, job>>
  BY <1>1 DEF Deliver, Types, WorkerRec
<1>3. PICK x \in WorkerRec : /\ x.mail = m /\ x.sent /\ x.owner = worker[w].owner
                             /\ worker' = [worker EXCEPT ![w] = x]
  <2>1. ASSUME NEW y \in WorkerRec, NEW b \in BOOLEAN
        PROVE  LET z == [y EXCEPT !.sent = b]
               IN z \in WorkerRec /\ z.mail = y.mail /\ z.sent = b /\ z.owner = y.owner
    BY DEF WorkerRec
  <2>2. worker' = [worker EXCEPT ![w] = [worker[w] EXCEPT !.sent = TRUE]]
    BY <1>1 DEF Deliver, Types
  <2> QED
    BY <1>2, <2>1, <2>2
<1>4. copies' = [copies EXCEPT ![m] = copies[m] + 1] /\ copies[m] + 1 \in Nat
  <2>1. copies' = [copies EXCEPT ![m] = @ + 1]
    BY DEF Deliver
  <2>2. copies[m] + 1 \in Nat
    BY <1>2
  <2> QED
    BY <1>1, <1>2, <2>1, <2>2 DEF Types
<1>5. job' = [job EXCEPT ![m] = job[m]] /\ Counted(job[m]) /\ TakenTimes(job[m]) \in Nat
  BY <1>1, <1>2 DEF Types, CopiesInv, JobRec, TakenTimes
<1>6. OwnerHolds'
  <2>1. worker'[w] = x /\ \A v \in Worker \ {w} : worker'[v] = worker[v]
    BY <1>1, <1>3 DEF Types
  <2> QED
    BY <1>1, <1>2, <1>3, <2>1 DEF OwnerHolds
<1>7. copies[m] + 1 + (IF x.mail = m /\ ~x.sent THEN 1 ELSE 0)
         - (IF worker[w].mail = m /\ ~worker[w].sent THEN 1 ELSE 0)
         - copies[m] <= TakenTimes(job[m]) - TakenTimes(job[m])
  BY <1>2, <1>3, <1>5
<1> QED
  BY <1>2, <1>3, <1>4, <1>5, <1>6, <1>7, WorkerStep

\* A worker lets go of its mail: with the job settled if it holds the lock.
LEMMA DropStep ==
  ASSUME MailsInv, NEW w \in Worker, NEW j \in JobRec, worker[w].mail \in Mail,
         LET m == worker[w].mail
         IN /\ job' = [job EXCEPT ![m] = j] /\ j.blank = job[m].blank /\ Counted(j)
            /\ TakenTimes(j) = TakenTimes(job[m])
            /\ j = job[m] \/ worker[w].owner,
         worker' = [worker EXCEPT ![w] = Idle], UNCHANGED <<rows, pc, req, copies>>
  PROVE  MailsInv'
<1> PICK m \in {worker[w].mail} : TRUE
  OBVIOUS
<1>1. Types /\ OwnerHolds /\ CopiesInv /\ m \in Mail
  BY DEF MailsInv
<1>2. copies' = [copies EXCEPT ![m] = copies[m]] /\ copies[m] \in Nat /\ job[m] \in JobRec
  BY <1>1 DEF Types
<1>3. OwnerHolds'
  <2>1. job'[m] = j /\ \A k \in Mail \ {m} : job'[k] = job[k]
    BY <1>1 DEF Types
  <2>2. worker'[w] = Idle /\ \A v \in Worker \ {w} : worker'[v] = worker[v]
    BY <1>1 DEF Types
  <2> QED
    BY <1>1, <2>1, <2>2, EmptyRecords DEF OwnerHolds
<1>4. worker[w].owner => job[m].state = "active"
  BY <1>1 DEF OwnerHolds
<1>5. TakenTimes(j) \in Nat /\ Idle.mail = None /\ Idle \in WorkerRec /\ m # None
  BY <1>1, <1>2, EmptyRecords DEF JobRec, TakenTimes
<1>6. copies[m] + (IF Idle.mail = m /\ ~Idle.sent THEN 1 ELSE 0)
         - (IF worker[w].mail = m /\ ~worker[w].sent THEN 1 ELSE 0)
         - copies[m] <= TakenTimes(j) - TakenTimes(job[m])
  BY <1>2, <1>5
<1> QED
  BY <1>1, <1>2, <1>3, <1>4, <1>5, <1>6, WorkerStep

LEMMA CompleteStep ==
  ASSUME MailsInv, NEW w \in Worker, Complete(w)
  PROVE  MailsInv'
<1> PICK m \in {worker[w].mail} : TRUE
  OBVIOUS
<1>1. Types /\ OwnerHolds /\ CopiesInv
  BY DEF MailsInv
<1>2. /\ m \in Mail /\ worker' = [worker EXCEPT ![w] = Idle] /\ job[m] \in JobRec
      /\ UNCHANGED <<rows, pc, req, copies>> /\ Counted(job[m])
  BY <1>1 DEF Complete, Types, WorkerRec, CopiesInv
<1>3. CASE worker[w].owner
  <2> DEFINE j == [job[m] EXCEPT !.state = "completed"]
  <2>1. job[m].state = "active"
    BY <1>1, <1>2, <1>3 DEF OwnerHolds
  <2>2. /\ j \in JobRec /\ j.state = "completed" /\ j.blank = job[m].blank
        /\ j.failures = job[m].failures /\ j.stalls = job[m].stalls
    BY <1>2, JobState DEF State
  <2>3. job' = [job EXCEPT ![m] = j]
    BY <1>3 DEF Complete
  <2> HIDE DEF j
  <2>4. Counted(j) /\ TakenTimes(j) = TakenTimes(job[m])
    BY <1>2, <2>1, <2>2 DEF Counted, TakenTimes
  <2> QED
    BY <1>2, <1>3, <2>2, <2>3, <2>4, DropStep
<1>4. CASE ~worker[w].owner
  <2>1. job' = [job EXCEPT ![m] = job[m]]
    BY <1>1, <1>4 DEF Complete, Types
  <2> QED
    BY <1>2, <2>1, DropStep
<1> QED
  BY <1>3, <1>4

LEMMA SendFailsStep ==
  ASSUME MailsInv, NEW w \in Worker, SendFails(w)
  PROVE  MailsInv'
<1> PICK m \in {worker[w].mail} : TRUE
  OBVIOUS
<1>1. Types /\ OwnerHolds /\ CopiesInv
  BY DEF MailsInv
<1>2. /\ m \in Mail /\ worker' = [worker EXCEPT ![w] = Idle] /\ job[m] \in JobRec
      /\ UNCHANGED <<rows, pc, req, copies>> /\ Counted(job[m])
  BY <1>1 DEF SendFails, Types, WorkerRec, CopiesInv
<1>3. CASE worker[w].owner
  <2>1. job[m].state = "active"
    BY <1>1, <1>2, <1>3 DEF OwnerHolds
  <2>2. job' = [job EXCEPT ![m] = AfterFailure(job[m])]
    BY <1>1, <1>2, <1>3 DEF SendFails, Types
  <2> QED
    BY <1>2, <1>3, <2>1, <2>2, FailureCounts, DropStep
<1>4. CASE ~worker[w].owner
  <2>1. job' = [job EXCEPT ![m] = job[m]]
    BY <1>1, <1>4 DEF SendFails, Types
  <2> QED
    BY <1>2, <2>1, DropStep
<1> QED
  BY <1>3, <1>4

LEMMA CrashStep ==
  ASSUME MailsInv, NEW w \in Worker, Crash(w)
  PROVE  MailsInv'
<1> PICK m \in {worker[w].mail} : TRUE
  OBVIOUS
<1>1. Types /\ CopiesInv
  BY DEF MailsInv
<1>2. /\ m \in Mail /\ worker' = [worker EXCEPT ![w] = Idle] /\ job[m] \in JobRec
      /\ UNCHANGED <<rows, pc, req, job, copies>> /\ Counted(job[m])
  BY <1>1 DEF Crash, Types, WorkerRec, CopiesInv
<1>3. job' = [job EXCEPT ![m] = job[m]]
  BY <1>1, <1>2 DEF Types
<1> QED
  BY <1>2, <1>3, DropStep

\* A job changes and no worker takes or drops it.
LEMMA JobStep ==
  ASSUME MailsInv, NEW m \in Mail, NEW j \in JobRec, UNCHANGED <<rows, pc, req, copies>>,
         job' = [job EXCEPT ![m] = j], j.blank = job[m].blank, job[m].state # "none",
         Counted(j), TakenTimes(j) = TakenTimes(job[m]),
         worker' \in [Worker -> WorkerRec],
         \A w \in Worker : /\ worker'[w].mail = worker[w].mail
                           /\ worker'[w].sent = worker[w].sent
                           /\ worker'[w].owner => worker[w].owner /\ worker[w].mail # m
  PROVE  MailsInv'
<1>1. Types /\ OwnerHolds /\ CopiesInv
  BY DEF MailsInv
<1>2. job'[m] = j /\ \A n \in Mail \ {m} : job'[n] = job[n]
  BY <1>1 DEF Types
<1>3. OwnerHolds'
  BY <1>1, <1>2 DEF OwnerHolds
<1>4. CopiesInv'
  <2>1. \A n \in Mail : Due(n)' = Due(n)
    BY DEF Due
  <2> QED
    BY <1>1, <1>2, <2>1 DEF CopiesInv, Counted, TakenTimes
<1>5. copies' \in [Mail -> Nat]
  BY <1>1 DEF Types
<1> QED
  BY <1>3, <1>4, <1>5, QueueStep

LEMMA BackoffStep ==
  ASSUME MailsInv, NEW m \in Mail, Backoff(m)
  PROVE  MailsInv'
<1> DEFINE j == [job[m] EXCEPT !.state = "waiting"]
<1>1. Types /\ OwnerHolds /\ CopiesInv
  BY DEF MailsInv
<1>2. job[m] \in JobRec /\ job[m].state = "delayed" /\ Counted(job[m])
  BY <1>1 DEF Backoff, Types, CopiesInv
<1>3. /\ j \in JobRec /\ j.state = "waiting" /\ j.blank = job[m].blank
      /\ j.failures = job[m].failures /\ j.stalls = job[m].stalls
  BY <1>2, JobState DEF State
<1>4. job' = [job EXCEPT ![m] = j] /\ worker' = worker /\ UNCHANGED <<rows, pc, req, copies>>
  BY DEF Backoff
<1> HIDE DEF j
<1>5. Counted(j) /\ TakenTimes(j) = TakenTimes(job[m])
  BY <1>2, <1>3 DEF Counted, TakenTimes
<1>6. \A w \in Worker : worker[w].owner => worker[w].mail # m
  BY <1>1, <1>2 DEF OwnerHolds
<1> QED
  BY <1>1, <1>2, <1>3, <1>4, <1>5, <1>6, JobStep DEF Types

LEMMA StallStep ==
  ASSUME MailsInv, NEW m \in Mail, Stall(m)
  PROVE  MailsInv'
<1>1. Types /\ OwnerHolds /\ CopiesInv
  BY DEF MailsInv
<1>2. job[m] \in JobRec /\ job[m].state = "active" /\ Counted(job[m])
  BY <1>1 DEF Stall, Types, CopiesInv
<1>3. /\ job' = [job EXCEPT ![m] = AfterStall(job[m])] /\ UNCHANGED <<rows, pc, req, copies>>
      /\ worker' = [w \in Worker |->
                     IF worker[w].mail = m THEN [worker[w] EXCEPT !.owner = FALSE]
                                           ELSE worker[w]]
  BY <1>1 DEF Stall, Types
<1>4. ASSUME NEW w \in Worker
      PROVE  /\ worker'[w] \in WorkerRec
             /\ worker'[w].mail = worker[w].mail /\ worker'[w].sent = worker[w].sent
             /\ worker'[w].owner => worker[w].owner /\ worker[w].mail # m
  <2>1. ASSUME NEW y \in WorkerRec, NEW b \in BOOLEAN
        PROVE  LET z == [y EXCEPT !.owner = b]
               IN z \in WorkerRec /\ z.mail = y.mail /\ z.sent = y.sent /\ z.owner = b
    BY DEF WorkerRec
  <2>2. worker[w] \in WorkerRec
    BY <1>1 DEF Types
  <2> QED
    BY <1>3, <2>1, <2>2
<1>5. worker' \in [Worker -> WorkerRec]
  BY <1>3, <1>4
<1> QED
  BY <1>2, <1>3, <1>4, <1>5, StallCounts, JobStep

-----------------------------------------------------------------------------
LEMMA MailsStart == Init => MailsInv
<1> SUFFICES ASSUME Init PROVE MailsInv
  OBVIOUS
<1>1. Payload \in SUBSET Hole /\ Framed \in SUBSET Hole /\ Seeded \in Layout
      /\ Attempts \in Nat \ {0} /\ MaxStalls \in Nat
  BY MailsAssumption
<1>2. Types
  <2>1. template \in Template
    BY <1>1 DEF Init, Template
  <2>2. layouts \in [Layout -> LayoutRow \cup {None}]
    BY <1>1 DEF Init, SeededLayout, LayoutRow
  <2> QED
    BY <2>1, <2>2, EmptyRecords DEF Init, Types, Label
<1>3. \A m \in Mail : Due(m) = {} /\ job[m] = NoJob /\ copies[m] = 0
  BY EmptyRecords DEF Init, Due
<1>4. CopiesInv
  <2>1. Counted(NoJob) /\ TakenTimes(NoJob) = 0
    BY <1>1, EmptyRecords DEF Counted, TakenTimes
  <2>2. IsFiniteSet({}) /\ Cardinality({}) = 0
    BY FS_EmptySet
  <2> QED
    BY <1>3, <2>1, <2>2 DEF CopiesInv
<1>5. OwnerHolds /\ MailsAreComplete
  BY EmptyRecords DEF Init, OwnerHolds, MailsAreComplete
<1>6. \A r \in Request : Sending(r)
  BY EmptyRecords DEF Init, Sending
<1> QED
  BY <1>2, <1>4, <1>5, <1>6 DEF MailsInv

LEMMA MailsContinue == MailsInv /\ [Next]_vars => MailsInv'
<1> SUFFICES ASSUME MailsInv, [Next]_vars PROVE MailsInv'
  OBVIOUS
<1>1. CASE UNCHANGED vars
  BY <1>1 DEF vars, rows, queue, MailsInv, Types, Sending, MailsAreComplete, OwnerHolds,
              CopiesInv, Due
<1>2. ASSUME NEW l \in Layout, NEW new \in LayoutRow, WriteLayout(l, new) PROVE MailsInv'
  BY <1>2, WriteLayoutStep
<1>3. ASSUME NEW r \in Request,
             \/ \E c \in Updates : EditRead(r, c)
             \/ EditLayout(r) \/ EditWrite(r) \/ SeedLayout(r) \/ SeedTemplate(r)
             \/ SendLayout(r) \/ Enqueue(r) \/ Abort(r)
      PROVE  MailsInv'
  BY <1>3, EditReadStep, EditLayoutStep, EditWriteStep, SeedSteps, SendLayoutStep,
     EnqueueStep, AbortStep
<1>4. ASSUME NEW r \in Request, NEW m \in Mail,
             \/ SendRead(r, m, Payload, TRUE)
             \/ \E given \in SUBSET Hole : SendRead(r, m, given, FALSE)
      PROVE  MailsInv'
  <2>1. Payload \in SUBSET Hole /\ TRUE \in BOOLEAN /\ FALSE \in BOOLEAN
    BY MailsAssumption
  <2> QED
    BY <1>4, <2>1, SendReadStep, Zenon
<1>5. ASSUME NEW w \in Worker, (\E m \in Mail : Take(w, m)) \/ Work(w) \/ Crash(w)
      PROVE  MailsInv'
  BY <1>5, TakeStep, DeliverStep, CompleteStep, SendFailsStep, CrashStep DEF Work
<1>6. ASSUME NEW m \in Mail, Backoff(m) \/ Stall(m) PROVE MailsInv'
  BY <1>6, BackoffStep, StallStep
<1> QED
  BY <1>1, <1>2, <1>3, <1>4, <1>5, <1>6 DEF Next

\* What the senders, the queue and its workers do keeps the count of deliveries
\* behind the count of times a job was taken.
THEOREM MailsHold == Spec => []MailsInv
  BY MailsStart, MailsContinue, PTL DEF Spec

\* No mail is queued with a placeholder left blank.
THEOREM MailsComplete == Spec => []MailsAreComplete
<1>1. MailsInv => MailsAreComplete
  BY DEF MailsInv
<1> QED
  BY <1>1, MailsHold, PTL

\* The SMTP server takes a mail at most once per attempt and per restart.
THEOREM CopiesBounded == Spec => []CopiesAreBounded
<1>1. ASSUME MailsInv, NEW m \in Mail PROVE copies[m] <= Attempts + MaxStalls
  <2>1. /\ job[m] \in JobRec /\ copies[m] \in Nat /\ Counted(job[m]) /\ IsFiniteSet(Due(m))
        /\ copies[m] + Cardinality(Due(m)) <= TakenTimes(job[m])
    BY <1>1 DEF MailsInv, Types, CopiesInv
  <2>2. Cardinality(Due(m)) \in Nat
    BY <2>1, FS_CardinalityType
  <2>3. /\ job[m].failures \in Nat /\ job[m].stalls \in Nat
        /\ Attempts \in Nat /\ MaxStalls \in Nat
    BY <2>1, MailsAssumption DEF JobRec
  <2>4. TakenTimes(job[m]) <= Attempts + MaxStalls /\ TakenTimes(job[m]) \in Nat
    BY <2>1, <2>3 DEF Counted, TakenTimes
  <2> QED
    BY <2>1, <2>2, <2>3, <2>4
<1>2. MailsInv => CopiesAreBounded
  BY <1>1 DEF CopiesAreBounded
<1> QED
  BY <1>2, MailsHold, PTL
=============================================================================
