------------------------------- MODULE Mails -------------------------------
(***************************************************************************)
(* Mail templates and the e-mail queue.  Administrators edit the template  *)
(* of a mail and its layout; forgotPassword and send-test render it and    *)
(* add a job; workers take jobs, hand the mail to the SMTP server, retry   *)
(* what fails and lose jobs when they die.                                 *)
(*                                                                         *)
(* A text is the set of placeholders in it.  A step of a request is one    *)
(* round trip to PostgreSQL or Redis; a template and its layout are two,   *)
(* because Prisma reads a relation with a SELECT of its own.               *)
(***************************************************************************)
EXTENDS Integers

CONSTANTS
  Hole,      \* placeholders
  Payload,   \* those forgotPassword has a value for
  Layout,    \* layout ids
  Seeded,    \* that of the seeded layout
  Framed,    \* the placeholders of the seeded layout
  Mail,      \* mails that may be sent
  Request,   \* HTTP requests that may run at the same time
  Worker,    \* jobs that may be processed at once, over all processes
  None,      \* no layout, no row, no mail, a field that is not given
  Attempts,  \* defaultJobOptions.attempts
  MaxStalls, \* how often BullMQ restarts a job whose worker went away
  MaxEdits,  \* bound: how often templates and layouts may be written
  Updates    \* bound: the updates of the template that are tried

ASSUME MailsAssumption ==
  /\ Payload \subseteq Hole /\ Framed \subseteq Payload
  /\ Seeded \in Layout /\ None \notin Layout /\ None \notin Mail
  /\ Attempts \in Nat \ {0} /\ MaxStalls \in Nat /\ MaxEdits \in Nat

VARIABLES
  template,  \* the row of EmailTemplate
  layouts,   \* the rows of EmailLayout
  edits,     \* how many writes of them there were
  pc, req,   \* where each request stands, and what it remembers
  job,       \* the queue: one job per mail
  worker,    \* what each worker does
  copies     \* how many times the SMTP server took each mail

rows  == <<template, layouts, edits>>
queue == <<job, worker, copies>>
vars  == <<rows, pc, req, queue>>

\* holes: of subject and body; vars: the column variables.
Template  == [active : BOOLEAN, holes : SUBSET Hole, vars : SUBSET Hole,
              layout : Layout \cup {None}]
LayoutRow == [active : BOOLEAN, holes : SUBSET Hole]

\* state: "none", "waiting", "active", "delayed", "completed" or "failed"; blank: the
\* placeholders of the mail that had no value.
NoJob == [state |-> "none", blank |-> {}, failures |-> 0, stalls |-> 0]

\* owner: the worker still holds the lock of its job.
Idle == [mail |-> None, sent |-> FALSE, owner |-> FALSE]

\* What an update of a template gives; None is a field left out.  A layout is
\* taken off by "null", and in a build whose classes define their fields (target
\* ES2023: hasOwn finds every field of the DTO) by being left out.
Change == [holes : {None} \cup SUBSET Hole, vars : {None} \cup SUBSET Hole,
           layout : {None, "null"} \cup Layout, active : {None} \cup BOOLEAN]
ASSUME UpdatesAssumption == Updates \subseteq Change
NoChange == [holes |-> None, vars |-> None, layout |-> None, active |-> None]

\* read, skin: the template row and the layout row as read; given: the values
\* of a mail; mail: what is to be sent; blank: what it lacks.
NoReq == [read |-> None, skin |-> None, change |-> NoChange, mail |-> None,
          given |-> {}, fallback |-> FALSE, blank |-> {}]

\* What the seeder writes; the template has some of the placeholders it may have.
SeededLayout == [active |-> TRUE, holes |-> Framed]
Init ==
  /\ \E holes \in SUBSET Payload :
       template = [active |-> TRUE, holes |-> holes, vars |-> Payload,
                   layout |-> Seeded]
  /\ layouts = [l \in Layout |-> IF l = Seeded THEN SeededLayout ELSE None]
  /\ edits = 0
  /\ pc = [r \in Request |-> "idle"] /\ req = [r \in Request |-> NoReq]
  /\ job = [m \in Mail |-> NoJob] /\ worker = [w \in Worker |-> Idle]
  /\ copies = [m \in Mail |-> 0]

Finish(r) == /\ pc' = [pc EXCEPT ![r] = "idle"]
             /\ req' = [req EXCEPT ![r] = NoReq]

Or(given, old) == IF given = None THEN old ELSE given
HolesOf(skin)  == IF skin = None THEN {} ELSE skin.holes

-----------------------------------------------------------------------------
(* Administrators edit.                                                    *)

\* createMailLayout and updateMailLayout: the layout is written as given,
\* whatever templates use it.
WriteLayout(l, new) ==
  /\ edits < MaxEdits
  /\ layouts' = [layouts EXCEPT ![l] = new]
  /\ edits' = edits + 1
  /\ UNCHANGED <<template, pc, req, queue>>

\* updateMailTemplate: the row, then the layout it will have, which must exist
\* if it is a new one.
EditRead(r, c) ==
  /\ pc[r] = "idle" /\ edits < MaxEdits
  /\ pc' = [pc EXCEPT ![r] = "edit.layout"]
  /\ req' = [req EXCEPT ![r] = [NoReq EXCEPT !.read = template, !.change = c]]
  /\ UNCHANGED <<rows, queue>>

\* findExistingEmailLayoutById
NotFound(l) == l \in Layout /\ layouts[l] = None

EditLayout(r) ==
  LET l == Or(req[r].change.layout, req[r].read.layout) IN
  /\ pc[r] = "edit.layout"
  /\ IF NotFound(l)
       THEN Finish(r)
       ELSE /\ pc' = [pc EXCEPT ![r] = "edit.write"]
            /\ req' = [req EXCEPT ![r].skin = IF l \in Layout THEN layouts[l]
                                                              ELSE None]
  /\ UNCHANGED <<rows, queue>>

\* assertTemplateVariablesValid
Declared(holes, skin, variables) == holes \cup HolesOf(skin) \subseteq variables

Accepted(q) ==
  Declared(Or(q.change.holes, q.read.holes), q.skin,
           Or(q.change.vars, q.read.vars))

\* The columns that were given are written, over whatever is there now.
EditWrite(r) ==
  LET c == req[r].change IN
  /\ pc[r] = "edit.write"
  /\ IF Accepted(req[r]) /\ edits < MaxEdits
       THEN /\ template' =
                 [active |-> Or(c.active, template.active),
                  holes  |-> Or(c.holes, template.holes),
                  vars   |-> Or(c.vars, template.vars),
                  layout |-> IF c.layout = "null" THEN None
                             ELSE Or(c.layout, template.layout)]
            /\ edits' = edits + 1
       ELSE UNCHANGED <<template, edits>>
  /\ Finish(r)
  /\ UNCHANGED <<layouts, queue>>

\* seedEmailTemplates, once more: the layout is written as it was at first; of
\* the template the layout and the variables are, and its texts are kept.
SeedLayout(r) ==
  /\ pc[r] = "idle"
  /\ layouts' = [layouts EXCEPT ![Seeded] = SeededLayout]
  /\ pc' = [pc EXCEPT ![r] = "seed.template"]
  /\ UNCHANGED <<template, edits, req, queue>>

SeedTemplate(r) ==
  /\ pc[r] = "seed.template"
  /\ template' = [template EXCEPT !.layout = Seeded, !.vars = Payload]
  /\ Finish(r)
  /\ UNCHANGED <<layouts, edits, queue>>

-----------------------------------------------------------------------------
(* Sending.                                                                *)

\* sendTemplateEmail of forgotPassword, with its payload and its fallback;
\* sendTestMailTemplate, with any payload and none.
SendRead(r, m, given, fallback) ==
  /\ pc[r] = "idle" /\ job[m] = NoJob
  /\ \A q \in Request : req[q].mail # m
  /\ pc' = [pc EXCEPT ![r] = "send.layout"]
  /\ req' = [req EXCEPT ![r] = [NoReq EXCEPT !.read = template, !.mail = m,
                                  !.given = given, !.fallback = fallback]]
  /\ UNCHANGED <<rows, queue>>

\* Mutant: a layout is not looked at.
RenderableBody(t, skin, given) ==
  /\ t.holes \subseteq t.vars
  /\ t.holes \subseteq given

\* assertPayloadHasVariables, which asks for the placeholders of a layout also
\* when the layout is switched off.
Renderable(t, skin, given) ==
  /\ t.holes \cup HolesOf(skin) \subseteq t.vars
  /\ t.holes \cup HolesOf(skin) \subseteq given

\* renderString and renderLayoutString: a placeholder without a value is
\* replaced by nothing.
Blank(t, skin, given) ==
  (IF skin # None /\ skin.active THEN t.holes \cup skin.holes ELSE t.holes)
    \ given

\* The layout is read and the mail rendered.  What cannot be rendered is
\* refused; forgotPassword logs that and answers all the same.
SendLayout(r) ==
  LET q    == req[r]
      skin == IF q.read.layout = None THEN None ELSE layouts[q.read.layout]
      fall == q.fallback /\ ~q.read.active
  IN
  /\ pc[r] = "send.layout"
  /\ IF fall \/ Renderable(q.read, skin, q.given)
       THEN /\ pc' = [pc EXCEPT ![r] = "send.enqueue"]
            /\ req' = [req EXCEPT ![r] =
                 [NoReq EXCEPT !.mail = q.mail,
                    !.blank = IF fall THEN {}
                              ELSE Blank(q.read, skin, q.given)]]
       ELSE Finish(r)
  /\ UNCHANGED <<rows, queue>>

\* EmailQueue.enqueue
Enqueue(r) ==
  /\ pc[r] = "send.enqueue"
  /\ job' = [job EXCEPT ![req[r].mail] =
               [NoJob EXCEPT !.state = "waiting", !.blank = req[r].blank]]
  /\ Finish(r)
  /\ UNCHANGED <<rows, worker, copies>>

\* Redis does not answer, or the process dies.
Abort(r) == pc[r] # "idle" /\ Finish(r) /\ UNCHANGED <<rows, queue>>

-----------------------------------------------------------------------------
(* BullMQ and the processor.                                               *)

Take(w, m) ==
  /\ worker[w] = Idle /\ job[m].state = "waiting"
  /\ worker' = [worker EXCEPT ![w] = [mail |-> m, sent |-> FALSE, owner |-> TRUE]]
  /\ job' = [job EXCEPT ![m].state = "active"]
  /\ UNCHANGED <<rows, pc, req, copies>>

\* MailService.sendEmail, as far as the SMTP server is concerned.
Deliver(w) ==
  /\ worker[w].mail # None /\ ~worker[w].sent
  /\ worker' = [worker EXCEPT ![w].sent = TRUE]
  /\ copies' = [copies EXCEPT ![worker[w].mail] = @ + 1]
  /\ UNCHANGED <<rows, pc, req, job>>

\* The processor returns; a worker that lost the lock changes nothing.
Complete(w) ==
  /\ worker[w].mail # None /\ worker[w].sent
  /\ worker' = [worker EXCEPT ![w] = Idle]
  /\ job' = IF worker[w].owner
              THEN [job EXCEPT ![worker[w].mail].state = "completed"] ELSE job
  /\ UNCHANGED <<rows, pc, req, copies>>

\* Mutant: the last attempt is delayed like the others.
AfterFailureForever(j) ==
  [j EXCEPT !.failures = IF j.failures < Attempts THEN @ + 1 ELSE @,
            !.state = "delayed"]

\* attempts and backoff of defaultJobOptions
AfterFailure(j) ==
  [j EXCEPT !.failures = @ + 1,
            !.state = IF j.failures + 1 < Attempts THEN "delayed" ELSE "failed"]

\* sendMail throws, before the server took the mail or after.
SendFails(w) ==
  /\ worker[w].mail # None
  /\ worker' = [worker EXCEPT ![w] = Idle]
  /\ job' = IF worker[w].owner
              THEN [job EXCEPT ![worker[w].mail] = AfterFailure(@)] ELSE job
  /\ UNCHANGED <<rows, pc, req, copies>>

Backoff(m) ==
  /\ job[m].state = "delayed"
  /\ job' = [job EXCEPT ![m].state = "waiting"]
  /\ UNCHANGED <<rows, pc, req, worker, copies>>

\* The process of a worker dies.
Crash(w) ==
  /\ worker[w].mail # None
  /\ worker' = [worker EXCEPT ![w] = Idle]
  /\ UNCHANGED <<rows, pc, req, job, copies>>

\* Mutant: a job that stalls is not counted.
AfterStallUncounted(j) == [j EXCEPT !.state = "waiting"]

AfterStall(j) ==
  [j EXCEPT !.stalls = @ + 1,
            !.state = IF j.stalls < MaxStalls THEN "waiting" ELSE "failed"]

\* The lock of an active job runs out: its worker is gone, or was too busy to
\* renew it and goes on all the same.
Stall(m) ==
  /\ job[m].state = "active"
  /\ job' = [job EXCEPT ![m] = AfterStall(@)]
  /\ worker' = [w \in Worker |->
                  IF worker[w].mail = m THEN [worker[w] EXCEPT !.owner = FALSE]
                                        ELSE worker[w]]
  /\ UNCHANGED <<rows, pc, req, copies>>

-----------------------------------------------------------------------------
Work(w) == Deliver(w) \/ Complete(w) \/ SendFails(w)

Next ==
  \/ \E l \in Layout, new \in LayoutRow : WriteLayout(l, new)
  \/ \E r \in Request :
       \/ \E c \in Updates : EditRead(r, c)
       \/ EditLayout(r) \/ EditWrite(r) \/ SeedLayout(r) \/ SeedTemplate(r)
       \/ \E m \in Mail : \/ SendRead(r, m, Payload, TRUE)
                          \/ \E given \in SUBSET Hole :
                               SendRead(r, m, given, FALSE)
       \/ SendLayout(r) \/ Enqueue(r) \/ Abort(r)
  \/ \E w \in Worker : (\E m \in Mail : Take(w, m)) \/ Work(w) \/ Crash(w)
  \/ \E m \in Mail : Backoff(m) \/ Stall(m)

Spec == Init /\ [][Next]_vars

\* The worker processes run, timers fire, and BullMQ looks for stalled jobs:
\* one whose worker is gone is found.  Nothing is assumed of the SMTP server.
Orphan(m) == \A w \in Worker : ~(worker[w].mail = m /\ worker[w].owner)
FairSpec ==
  /\ Spec
  /\ \A w \in Worker : WF_vars(Work(w))
  /\ \A m \in Mail : /\ SF_vars(\E w \in Worker : Take(w, m))
                     /\ WF_vars(Backoff(m))
                     /\ WF_vars(Orphan(m) /\ Stall(m))

-----------------------------------------------------------------------------
(* Properties.                                                             *)

\* No mail is queued with a placeholder left blank, whatever administrators do
\* to the template and its layout while it is read and rendered
\* (mail-template.service.ts: renderTemplate refuses instead).
MailsAreComplete == \A m \in Mail : job[m].blank = {}

\* The recipient gets a mail a bounded number of times: once per attempt and
\* once more per restart after a stall, though a worker that lost its job goes
\* on delivering it (email.processor.ts keeps no record of what was sent).
CopiesAreBounded == \A m \in Mail : copies[m] <= Attempts + MaxStalls

\* Every mail that was queued is settled in the end: completed, or failed for
\* good; retries, crashes and stalls cannot keep it in the queue for ever.
EveryMailSettles ==
  \A m \in Mail : job[m].state = "waiting" ~>
                    job[m].state \in {"completed", "failed"}
=============================================================================
