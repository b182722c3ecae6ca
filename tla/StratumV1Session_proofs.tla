------------------------ MODULE StratumV1Session_proofs ------------------------
(***************************************************************************)
(* Proofs about StratumV1Session for every number of handlers, jobs and    *)
(* templates, for all difficulties and qualities, and for every behaviour  *)
(* of the miner: the run takes two handlers and a few events at a time.    *)
(***************************************************************************)
EXTENDS StratumV1Session, TLAPS

-------------------------------------------------------------------------------
(* The inductive invariant. *)

Why == {None, "duplicate", "unknown", "stale", "no template", "low"}

\* Where a call goes on when it has sent its job.
Backs == {"idle", "online"}

CallSet ==
    [at : Labels, tmpl : Nat, route : Schemes \cup {None}, addr : Address \cup {None},
     epoch : Nat, job : Nat, q : Nat, diff : Nat, why : Why, back : Backs, line : BOOLEAN]

SessSet ==
    [started : BOOLEAN, init : BOOLEAN, auth : Address \cup {None},
     diff : Nat, old : Nat, boundary : Nat, changes : Nat,
     suggested : BOOLEAN, used : BOOLEAN, entity : BOOLEAN,
     creating : {"none", "pending", "done", "failed"},
     seen : SUBSET ((1..MaxJobs) \X Quality), accepted : Nat,
     listening : BOOLEAN, ticking : BOOLEAN, online : BOOLEAN, offline : BOOLEAN]

Stamp == Nat \cup {Active}

JobSet ==
    [tmpl : Nat, made : Nat, retired : Stamp, route : Schemes, addr : Address \cup {None},
     epoch : Nat, asked : Nat, clean : BOOLEAN, changes : Nat, late : BOOLEAN]

TemplateSet == [tip : Nat, made : Nat, retired : Stamp]

\* A registry: what is in it has got its id already.
Registry(s) ==
    /\ s = [templates |-> s.templates, jobs |-> s.jobs, nextTemplate |-> s.nextTemplate,
            nextJob |-> s.nextJob, tip |-> s.tip]
    /\ s.nextTemplate \in Nat \ {0} /\ s.nextJob \in Nat \ {0} /\ s.tip \in Nat
    /\ \A i \in DOMAIN s.templates : i \in Nat /\ s.templates[i] \in TemplateSet
    /\ \A j \in DOMAIN s.jobs : j \in 1..MaxJobs /\ j < s.nextJob /\ s.jobs[j] \in JobSet

Typed ==
    /\ clock \in Nat /\ Registry(store)
    /\ port \in {"solo", "pplns"} /\ agent \in {"asic", "cpuminer"}
    /\ membership \in [Address -> Kinds] /\ epoch \in Nat
    /\ sess \in SessSet /\ sock \in {"open", "ended", "closed"} /\ late \in BOOLEAN
    /\ task \in [Task -> CallSet] /\ destroys \subseteq {"bury", "release"}
    /\ registered \subseteq Address
    /\ row \in {"none", "queued", "live", "dead", "lost"} /\ beat \in BOOLEAN
    /\ told \in Nat /\ credits \in [1..MaxJobs -> [Quality -> Nat]]

\* The route of a job or a call, and the address it was read for, are those of now,
\* unless a membership changed since.
Honest(r) == r.epoch <= epoch /\ (r.epoch = epoch => r.route = Route(r.addr))

\* Where a call can stand before the first answer to mining.subscribe.
Early == {"idle", "welcome", "authorized", "online", "suggested"}

TaskOK(r) ==
    /\ r.at = "idle" => r = Idle
    /\ r.tmpl < store.nextTemplate
    /\ r.at \in {"distribution", "credited", "booking"} => Honest(r)
    /\ r.at = "distribution" => r.route \in Schemes
    /\ r.at \in {"credited", "booking", "counting"} => r.diff <= r.q
    /\ r.at \in {"create", "created", "await"} => r.job \in 1..MaxJobs /\ r.q \in Quality
    /\ ~sess.init => r.at \in Early

\* Of the jobs of a registry s and a session x.  A job registered before the block
\* change is retired with its template.
StampOK(s, job) ==
    ~job.late /\ job.tmpl \in DOMAIN s.templates
        => s.templates[job.tmpl].retired = job.retired

\* What a job was asked for is the difficulty of now, or, after one change of it, the
\* one that is remembered for the jobs below the boundary.
TargetOK(x, j, job) ==
    job.clean =>
        /\ job.changes <= x.changes
        /\ x.changes = job.changes =>
              x.diff = job.asked /\ (x.boundary = 0 \/ x.boundary <= j)
        /\ x.changes = job.changes + 1 => x.old = job.asked /\ j < x.boundary

\* The list of hashes has the work that was credited on jobs that are not retired.
SeenOK(x, j, job) ==
    job.retired = Active =>
        \A q \in Quality : credits[j][q] > 0 => <<j, q>> \in x.seen

JobOK(s, x, j, job) ==
    /\ job.tmpl < s.nextTemplate
    /\ Honest(job) /\ StampOK(s, job) /\ TargetOK(x, j, job) /\ SeenOK(x, j, job)

JobsIn(s, x) == \A j \in DOMAIN s.jobs : JobOK(s, x, j, s.jobs[j])

SessOK ==
    /\ sess.boundary <= store.nextJob
    /\ port = "pplns" /\ agent # "cpuminer" => sess.diff >= Floor
    /\ ~sess.init => ~sess.listening /\ ~sess.ticking /\ DOMAIN store.jobs = {}

\* A session that does nothing any more: ids start again when the process does.
Dead ==
    /\ sock = "closed" /\ ~late /\ \A t \in Task : task[t] = Idle
    /\ ~sess.listening /\ ~sess.ticking /\ destroys = {} /\ DOMAIN store.jobs = {}

\* Work is credited for ids that were given out.
Counted ==
    Dead \/ \A j \in 1..MaxJobs, q \in Quality : credits[j][q] > 0 => j < store.nextJob

TasksOK == \A t \in Task : TaskOK(task[t])
JobsOK == JobsIn(store, sess)
Parts == TasksOK /\ JobsOK /\ SessOK

V1Inv == Typed /\ Parts /\ Counted /\ LedgerIsProven /\ BookedAsBuilt

-------------------------------------------------------------------------------
(* What the invariant says of the properties. *)

LEMMA SessionFollows == V1Inv => SessionHolds
<1> SUFFICES ASSUME V1Inv PROVE SessionHolds
  OBVIOUS
<1>1. TypeOK
  <2>1. /\ sess.auth \in Address \cup {None} /\ sess.accepted \in Nat
        /\ sess.creating \in {"none", "pending", "done", "failed"}
        /\ sess.diff \in Nat /\ sess.old \in Nat /\ sess.boundary \in 0..store.nextJob
    BY DEF V1Inv, Typed, Parts, SessOK, SessSet, Registry
  <2>2. ASSUME NEW t \in Task PROVE task[t].at \in Labels /\ (task[t].at = "idle" => task[t] = Idle)
    BY DEF V1Inv, Typed, CallSet, Parts, TasksOK, TaskOK
  <2> QED
    BY <2>1, <2>2 DEF V1Inv, Typed, TypeOK
<1>2. FairTarget
  <2> SUFFICES ASSUME NEW j \in DOMAIN store.jobs, store.jobs[j].clean,
                      sess.changes <= store.jobs[j].changes + 1
               PROVE  EffectiveJobDifficulty(j) <= store.jobs[j].asked
    BY DEF FairTarget
  <2> DEFINE job == store.jobs[j]
  <2>1. TargetOK(sess, j, job) /\ j \in 1..MaxJobs /\ job.changes \in Nat /\ job.asked \in Nat
    BY DEF V1Inv, Typed, Parts, JobsOK, JobsIn, JobOK, Registry, JobSet
  <2>2. sess.changes \in Nat /\ sess.diff \in Nat /\ sess.old \in Nat /\ sess.boundary \in Nat
    BY DEF V1Inv, Typed, SessSet
  <2> HIDE DEF job
  <2>3. job.clean /\ sess.changes <= job.changes + 1
    BY DEF job
  <2>4. EffectiveJobDifficulty(j) <= job.asked
    BY <2>1, <2>2, <2>3 DEF EffectiveJobDifficulty, Lowest, TargetOK
  <2> QED
    BY <2>4 DEF job
<1> QED
  BY <1>1, <1>2 DEF SessionHolds, SessionSound, V1Inv, Parts, SessOK

-------------------------------------------------------------------------------
(* The registry of jobs and templates. *)

\* An entry after a cleanup that deletes nothing.
Kept(entry, clears, now) ==
    IF clears THEN [entry EXCEPT !.retired = IF @ = Active THEN now ELSE @] ELSE entry

LEMMA CleanedIs ==
    ASSUME NEW s, Registry(s), NEW T, NEW J
    PROVE  [s EXCEPT !.templates = T, !.jobs = J] =
                [templates |-> T, jobs |-> J,
                 nextTemplate |-> s.nextTemplate, nextJob |-> s.nextJob, tip |-> s.tip]
<1>1. PICK a, b, c, d, e : s = [templates |-> a, jobs |-> b, nextTemplate |-> c,
                                nextJob |-> d, tip |-> e]
  BY DEF Registry
<1>2. s.templates = a /\ s.jobs = b /\ s.nextTemplate = c /\ s.nextJob = d /\ s.tip = e
  BY ONLY <1>1
<1> DEFINE t == [s EXCEPT !.templates = T]
<1>3. t = [templates |-> T, jobs |-> b, nextTemplate |-> c, nextJob |-> d, tip |-> e]
  BY ONLY <1>1
<1>4. [s EXCEPT !.templates = T, !.jobs = J] = [t EXCEPT !.jobs = J]
  OBVIOUS
<1> HIDE DEF t
<1>5. [t EXCEPT !.jobs = J] =
        [templates |-> T, jobs |-> J, nextTemplate |-> c, nextJob |-> d, tip |-> e]
  BY ONLY <1>3
<1> QED
  BY ONLY <1>2, <1>4, <1>5, Zenon

LEMMA AddedIs ==
    ASSUME NEW s, Registry(s), NEW J, NEW m
    PROVE  [s EXCEPT !.jobs = J, !.nextJob = m] =
                [templates |-> s.templates, jobs |-> J,
                 nextTemplate |-> s.nextTemplate, nextJob |-> m, tip |-> s.tip]
<1>1. PICK a, b, c, d, e : s = [templates |-> a, jobs |-> b, nextTemplate |-> c,
                                nextJob |-> d, tip |-> e]
  BY DEF Registry
<1>2. s.templates = a /\ s.nextTemplate = c /\ s.tip = e
  BY ONLY <1>1
<1> DEFINE j == [s EXCEPT !.jobs = J]
<1>3. j = [templates |-> a, jobs |-> J, nextTemplate |-> c, nextJob |-> d, tip |-> e]
  BY ONLY <1>1
<1>4. [s EXCEPT !.jobs = J, !.nextJob = m] = [j EXCEPT !.nextJob = m]
  OBVIOUS
<1> HIDE DEF j
<1>5. [j EXCEPT !.nextJob = m] =
        [templates |-> a, jobs |-> J, nextTemplate |-> c, nextJob |-> m, tip |-> e]
  BY ONLY <1>3
<1> QED
  BY ONLY <1>2, <1>4, <1>5, Zenon

Swept(entries, clears, now) == Aged(IF clears THEN Retire(entries, now) ELSE entries, now)

LEMMA SweptIs ==
    ASSUME NEW e, NEW clears \in BOOLEAN, NEW now
    PROVE  \E D \in SUBSET (DOMAIN e) :
              Swept(e, clears, now) = [i \in D |-> Kept(e[i], clears, now)]
<1> DEFINE r == IF clears THEN Retire(e, now) ELSE e
           gone == {i \in DOMAIN r : /\ Cardinality(Newer(r, i)) >= MinRetained
                                     /\ Spent(r[i], now)}
           D == DOMAIN r \ gone
<1>1. DOMAIN r = DOMAIN e /\ \A i \in DOMAIN e : r[i] = Kept(e[i], clears, now)
  BY DEF Retire, Kept
<1>2. Swept(e, clears, now) = [i \in D |-> r[i]]
  BY DEF Swept, Aged
<1>3. D \subseteq DOMAIN e
  BY <1>1
<1> HIDE DEF r, D
<1>4. [i \in D |-> r[i]] = [i \in D |-> Kept(e[i], clears, now)]
  BY <1>1, <1>3
<1> QED
  BY <1>2, <1>3, <1>4

LEMMA CleanupIs ==
    ASSUME NEW s, Registry(s), NEW clears \in BOOLEAN, NEW now
    PROVE  \E T \in SUBSET (DOMAIN s.templates), J \in SUBSET (DOMAIN s.jobs) :
              Cleanup(s, clears, now) =
                  [templates |-> [i \in T |-> Kept(s.templates[i], clears, now)],
                   jobs |-> [i \in J |-> Kept(s.jobs[i], clears, now)],
                   nextTemplate |-> s.nextTemplate, nextJob |-> s.nextJob, tip |-> s.tip]
<1> DEFINE a == Swept(s.templates, clears, now)
           b == Swept(s.jobs, clears, now)
<1>1. Cleanup(s, clears, now) = [s EXCEPT !.templates = a, !.jobs = b]
  BY Zenon DEF Cleanup, Swept
<1>2. PICK T \in SUBSET (DOMAIN s.templates) : a = [i \in T |-> Kept(s.templates[i], clears, now)]
  BY SweptIs
<1>3. PICK J \in SUBSET (DOMAIN s.jobs) : b = [i \in J |-> Kept(s.jobs[i], clears, now)]
  BY SweptIs
<1> HIDE DEF a, b
<1>4. Cleanup(s, clears, now) =
        [templates |-> a, jobs |-> b,
         nextTemplate |-> s.nextTemplate, nextJob |-> s.nextJob, tip |-> s.tip]
  BY <1>1, CleanedIs
<1> QED
  BY <1>2, <1>3, <1>4

\* An entry keeps all but its stamp.
LEMMA KeptIs ==
    ASSUME NEW clears \in BOOLEAN, NEW now \in Nat
    PROVE  /\ \A x \in TemplateSet : Kept(x, clears, now) \in TemplateSet
           /\ \A x \in JobSet :
                LET k == Kept(x, clears, now)
                IN  /\ k \in JobSet /\ k.tmpl = x.tmpl /\ k.route = x.route /\ k.addr = x.addr
                    /\ k.epoch = x.epoch /\ k.asked = x.asked /\ k.clean = x.clean
                    /\ k.changes = x.changes /\ k.late = x.late
           /\ \A x \in TemplateSet \cup JobSet : Kept(x, clears, now).retired =
                IF clears /\ x.retired = Active THEN now ELSE x.retired
<1>1. ASSUME NEW x \in TemplateSet PROVE Kept(x, clears, now) \in TemplateSet
  BY DEF Kept, TemplateSet, Stamp
<1>2. ASSUME NEW x \in JobSet
      PROVE  LET k == Kept(x, clears, now)
             IN  /\ k \in JobSet /\ k.tmpl = x.tmpl /\ k.route = x.route /\ k.addr = x.addr
                 /\ k.epoch = x.epoch /\ k.asked = x.asked /\ k.clean = x.clean
                 /\ k.changes = x.changes /\ k.late = x.late
  BY DEF Kept, JobSet, Stamp
<1>3. ASSUME NEW x \in TemplateSet
      PROVE  Kept(x, clears, now).retired =
                IF clears /\ x.retired = Active THEN now ELSE x.retired
  BY DEF Kept, TemplateSet
<1>4. ASSUME NEW x \in JobSet
      PROVE  Kept(x, clears, now).retired =
                IF clears /\ x.retired = Active THEN now ELSE x.retired
  BY DEF Kept, JobSet
<1> QED
  BY <1>1, <1>2, <1>3, <1>4

LEMMA NewTemplateIs ==
    ASSUME NEW s, Registry(s), NEW tip \in Nat, NEW now \in Nat
    PROVE  LET p == NewTemplate(s, tip, now)
               clears == ClearsJobs(s, tip)
           IN  /\ Registry(p)
               /\ p.nextTemplate = s.nextTemplate + 1 /\ p.nextJob = s.nextJob
               /\ \A j \in DOMAIN p.jobs :
                     j \in DOMAIN s.jobs /\ p.jobs[j] = Kept(s.jobs[j], clears, now)
               /\ \A i \in DOMAIN p.templates : i # s.nextTemplate =>
                     /\ i \in DOMAIN s.templates
                     /\ p.templates[i] = Kept(s.templates[i], clears, now)
               /\ p.templates[s.nextTemplate].retired = Active
<1> DEFINE clears == ClearsJobs(s, tip)
           id == s.nextTemplate
           template == [tip |-> tip, made |-> now, retired |-> Active]
           c == Cleanup(s, clears, now)
           all == [i \in DOMAIN c.templates \cup {id} |->
                      IF i = id THEN template ELSE c.templates[i]]
           p == NewTemplate(s, tip, now)
<1>1. clears \in BOOLEAN
  BY DEF ClearsJobs
<1>2. p = [c EXCEPT !.templates = all, !.nextTemplate = id + 1, !.tip = tip]
  BY Zenon DEF NewTemplate
<1>3. template \in TemplateSet /\ template.retired = Active
  BY DEF TemplateSet, Stamp
<1> HIDE DEF clears, template, c, p
<1>4. PICK T \in SUBSET (DOMAIN s.templates), J \in SUBSET (DOMAIN s.jobs) :
            c = [templates |-> [i \in T |-> Kept(s.templates[i], clears, now)],
                 jobs |-> [i \in J |-> Kept(s.jobs[i], clears, now)],
                 nextTemplate |-> s.nextTemplate, nextJob |-> s.nextJob, tip |-> s.tip]
  BY <1>1, CleanupIs DEF c
<1>5. Registry(c)
  <2>1. c.nextTemplate = s.nextTemplate /\ c.nextJob = s.nextJob /\ c.tip = s.tip
    BY ONLY <1>4
  <2>2. ASSUME NEW i \in DOMAIN c.templates PROVE i \in Nat /\ c.templates[i] \in TemplateSet
    BY <1>1, <1>4, KeptIs DEF Registry
  <2>3. ASSUME NEW j \in DOMAIN c.jobs
        PROVE  j \in 1..MaxJobs /\ j < c.nextJob /\ c.jobs[j] \in JobSet
    BY <1>1, <1>4, <2>1, KeptIs DEF Registry
  <2>4. c = [templates |-> c.templates, jobs |-> c.jobs, nextTemplate |-> c.nextTemplate,
             nextJob |-> c.nextJob, tip |-> c.tip]
    BY ONLY <1>4
  <2> QED
    BY <2>1, <2>2, <2>3, <2>4 DEF Registry
<1>6. /\ \A i \in DOMAIN c.templates :
            i \in DOMAIN s.templates /\ c.templates[i] = Kept(s.templates[i], clears, now)
      /\ \A j \in DOMAIN c.jobs :
            j \in DOMAIN s.jobs /\ c.jobs[j] = Kept(s.jobs[j], clears, now)
      /\ c.nextTemplate = s.nextTemplate /\ c.nextJob = s.nextJob
  BY ONLY <1>4
<1>7. /\ DOMAIN all = DOMAIN c.templates \cup {id} /\ all[id] = template
      /\ \A i \in DOMAIN c.templates : i # id => all[i] = c.templates[i]
  OBVIOUS
<1> HIDE DEF all
<1>8. p = [templates |-> all, jobs |-> c.jobs,
           nextTemplate |-> id + 1, nextJob |-> c.nextJob, tip |-> tip]
  <2> DEFINE n == id + 1
             t == [c EXCEPT !.templates = all]
             u == [t EXCEPT !.nextTemplate = n]
  <2> HIDE DEF n
  <2>1. PICK f, g, h, k, l : c = [templates |-> f, jobs |-> g, nextTemplate |-> h,
                                  nextJob |-> k, tip |-> l]
    BY <1>5 DEF Registry
  <2>2. c.jobs = g /\ c.nextJob = k
    BY ONLY <2>1
  <2>3. t = [templates |-> all, jobs |-> g, nextTemplate |-> h, nextJob |-> k, tip |-> l]
    BY ONLY <2>1
  <2>4. p = [u EXCEPT !.tip = tip]
    BY <1>2 DEF n
  <2> HIDE DEF t
  <2>5. u = [templates |-> all, jobs |-> g, nextTemplate |-> n, nextJob |-> k, tip |-> l]
    BY ONLY <2>3
  <2> HIDE DEF u
  <2>6. p = [templates |-> all, jobs |-> g, nextTemplate |-> n, nextJob |-> k, tip |-> tip]
    BY ONLY <2>4, <2>5
  <2> QED
    BY <2>2, <2>6 DEF n
<1>9. p.templates = all /\ p.jobs = c.jobs /\ p.nextTemplate = id + 1
      /\ p.nextJob = c.nextJob /\ p.tip = tip
  BY ONLY <1>8
<1>10. Registry(p)
  <2>1. ASSUME NEW i \in DOMAIN all PROVE i \in Nat /\ all[i] \in TemplateSet
    BY <1>3, <1>5, <1>7 DEF Registry
  <2> QED
    BY <1>5, <1>8, <1>9, <2>1 DEF Registry
<1> QED
  BY <1>3, <1>6, <1>7, <1>9, <1>10 DEF clears, p

LEMMA AddJobIs ==
    ASSUME NEW s, Registry(s), s.nextJob <= MaxJobs, NEW job \in JobSet
    PROVE  LET p == AddJob(s, job)
           IN  /\ Registry(p) /\ p.templates = s.templates
               /\ p.nextTemplate = s.nextTemplate /\ p.nextJob = s.nextJob + 1
               /\ p.jobs[s.nextJob] = job
               /\ \A j \in DOMAIN p.jobs : j # s.nextJob =>
                     j \in DOMAIN s.jobs /\ p.jobs[j] = s.jobs[j]
<1> DEFINE id == s.nextJob
           all == [i \in DOMAIN s.jobs \cup {id} |-> IF i = id THEN job ELSE s.jobs[i]]
           p == AddJob(s, job)
<1>1. p = [s EXCEPT !.jobs = all, !.nextJob = id + 1]
  BY Zenon DEF AddJob
<1>2. /\ DOMAIN all = DOMAIN s.jobs \cup {id} /\ all[id] = job
      /\ \A i \in DOMAIN s.jobs : i # id => all[i] = s.jobs[i]
  OBVIOUS
<1> HIDE DEF all, p
<1>3. p = [templates |-> s.templates, jobs |-> all,
           nextTemplate |-> s.nextTemplate, nextJob |-> id + 1, tip |-> s.tip]
  BY <1>1, AddedIs
<1>4. p.templates = s.templates /\ p.jobs = all /\ p.nextTemplate = s.nextTemplate
      /\ p.nextJob = id + 1 /\ p.tip = s.tip
  BY ONLY <1>3
<1>5. Registry(p)
  <2>1. ASSUME NEW j \in DOMAIN all
        PROVE  j \in 1..MaxJobs /\ j < id + 1 /\ all[j] \in JobSet
    BY <1>2, SessionAssumption DEF Registry
  <2> QED
    BY <1>3, <1>4, <2>1 DEF Registry
<1> QED
  BY <1>2, <1>4, <1>5 DEF p

-------------------------------------------------------------------------------
(* Difficulties. *)

\* A step for every difficulty a miner suggests or its share rate calls for, above the
\* floor of the PPLNS port on that port.
LEMMA StepIsFair ==
    ASSUME NEW r \in Rates, port \in {"solo", "pplns"}
    PROVE  /\ NearestStep(r, MinDiff(port)) \in Nat
           /\ port = "pplns" => NearestStep(r, MinDiff(port)) >= Floor
<1> DEFINE powers == {2, 4, 8, 16, 32, 64, 128, 256}
           lower == CHOOSE p \in powers : p <= r /\ r < 2 * p
           half == lower + lower \div 2
           steps == {lower, half, 2 * lower}
           far(s) == IF s >= r THEN s - r ELSE r - s
           best == CHOOSE s \in steps : \A o \in steps :
                      far(s) < far(o) \/ (far(s) = far(o) /\ s <= o)
           min == MinDiff(port)
<1>1. r \in 2..256 /\ NearestStep(r, Floor) >= Floor /\ Floor \in Nat
  BY SessionAssumption
<1>2. NearestStep(r, min) = IF r < min THEN min ELSE best
  BY Zenon DEF NearestStep
<1>3. min \in Nat /\ (port = "pplns" => min = Floor)
  BY <1>1 DEF MinDiff
<1>4. lower \in powers
  <2>1. \E p \in powers : p <= r /\ r < 2 * p
    BY <1>1
  <2> QED
    BY <2>1
<1> HIDE DEF lower
<1>5. lower \in Nat /\ half \in Nat
  BY <1>4
<1> HIDE DEF half
<1>6. best \in steps
  <2>1. \E s \in steps : \A o \in steps : far(s) < far(o) \/ (far(s) = far(o) /\ s <= o)
    BY <1>1, <1>5
  <2> QED
    BY <2>1
<1> HIDE DEF best
<1>7. best \in Nat
  BY <1>5, <1>6
<1> QED
  BY <1>1, <1>2, <1>3, <1>7

LEMMA EffectiveIs ==
    ASSUME sess.diff \in Nat, sess.old \in Nat, NEW j
    PROVE  EffectiveJobDifficulty(j) \in Nat
  BY DEF EffectiveJobDifficulty, Lowest

-------------------------------------------------------------------------------
(* Calls. *)

\* The call c carries what r does.
Carries(c, r) ==
    /\ c.tmpl = r.tmpl /\ c.route = r.route /\ c.addr = r.addr /\ c.epoch = r.epoch
    /\ c.job = r.job /\ c.q = r.q

LEMMA IdleIs ==
    /\ Idle \in CallSet /\ Idle.at = "idle" /\ Idle.tmpl = 0
    /\ [Idle EXCEPT !.line = TRUE] \in CallSet /\ [Idle EXCEPT !.line = TRUE].tmpl = 0
  BY DEF Idle, CallSet, Labels, Backs, Why

LEMMA GotoIs ==
    ASSUME NEW r \in CallSet, NEW x \in Labels
    PROVE  LET c == [r EXCEPT !.at = x]
           IN  c \in CallSet /\ c.at = x /\ c.diff = r.diff /\ Carries(c, r)
  BY DEF CallSet, Carries

GoneTo(r, x, d) == [r EXCEPT !.at = x, !.diff = d]

LEMMA GotoWithIs ==
    ASSUME NEW r \in CallSet, NEW x \in Labels, NEW d \in Nat
    PROVE  LET c == GoneTo(r, x, d)
           IN  c \in CallSet /\ c.at = x /\ c.diff = d /\ Carries(c, r)
  BY DEF CallSet, Carries, GoneTo

\* A call that has just begun.
LEMMA BegunIs ==
    ASSUME NEW x \in Labels
    PROVE  LET c == [Idle EXCEPT !.at = x, !.line = TRUE]
           IN  c \in CallSet /\ c.at = x /\ c.tmpl = 0
  BY DEF Idle, CallSet, Labels, Backs, Why

Waiting(x, j, q) == [Idle EXCEPT !.at = x, !.job = j, !.q = q, !.line = TRUE]

LEMMA WaitingIs ==
    ASSUME NEW x \in Labels, NEW j \in Nat, NEW q \in Nat
    PROVE  LET c == Waiting(x, j, q)
           IN  c \in CallSet /\ c.at = x /\ c.tmpl = 0 /\ c.job = j /\ c.q = q
  BY DEF Waiting, Idle, CallSet, Labels, Backs, Why

LEMMA RejectIs ==
    ASSUME NEW why \in Why, NEW j \in Nat, NEW q \in Nat
    PROVE  LET c == [Idle EXCEPT !.at = "reject", !.why = why, !.job = j, !.q = q, !.line = TRUE]
           IN  c \in CallSet /\ c.at = "reject" /\ c.tmpl = 0
  BY DEF Idle, CallSet, Labels, Backs, Why

-------------------------------------------------------------------------------
(* The fields of the session. *)

\* What the invariant reads of the session is the same in x and s.
Alike(x, s) ==
    /\ x.init = s.init /\ x.diff = s.diff /\ x.old = s.old /\ x.boundary = s.boundary
    /\ x.changes = s.changes /\ x.seen = s.seen

Minor(x, s) ==
    /\ x \in SessSet /\ Alike(x, s) /\ x.listening = s.listening /\ x.ticking = s.ticking

LEMMA MinorEdits ==
    ASSUME NEW s \in SessSet
    PROVE  /\ \A b \in BOOLEAN : Minor([s EXCEPT !.offline = b], s)
           /\ Minor([s EXCEPT !.started = TRUE], s)
           /\ \A a \in Address : Minor([s EXCEPT !.auth = a], s)
           /\ \A b \in BOOLEAN : Minor([s EXCEPT !.online = TRUE, !.offline = b], s)
           /\ \A b \in BOOLEAN : Minor([s EXCEPT !.used = b], s)
           /\ \A c \in {"none", "pending", "done", "failed"} : Minor([s EXCEPT !.creating = c], s)
           /\ Minor([s EXCEPT !.entity = TRUE], s)
           /\ \A n \in Nat : Minor([s EXCEPT !.accepted = n], s)
<1>1. ASSUME NEW b \in BOOLEAN PROVE Minor([s EXCEPT !.offline = b], s)
  BY DEF Minor, Alike, SessSet
<1>2. Minor([s EXCEPT !.started = TRUE], s)
  BY DEF Minor, Alike, SessSet
<1>3. ASSUME NEW a \in Address PROVE Minor([s EXCEPT !.auth = a], s)
  BY DEF Minor, Alike, SessSet
<1>4. ASSUME NEW b \in BOOLEAN PROVE Minor([s EXCEPT !.online = TRUE, !.offline = b], s)
  BY DEF Minor, Alike, SessSet
<1>5. ASSUME NEW b \in BOOLEAN PROVE Minor([s EXCEPT !.used = b], s)
  BY DEF Minor, Alike, SessSet
<1>6. ASSUME NEW c \in {"none", "pending", "done", "failed"}
      PROVE  Minor([s EXCEPT !.creating = c], s)
  <2> DEFINE x == [s EXCEPT !.creating = c]
  <2>1. x \in SessSet
    BY DEF SessSet
  <2>2. Alike(x, s) /\ x.listening = s.listening /\ x.ticking = s.ticking
    BY DEF Alike, SessSet
  <2> QED
    BY <2>1, <2>2 DEF Minor
<1>7. Minor([s EXCEPT !.entity = TRUE], s)
  BY DEF Minor, Alike, SessSet
<1>8. ASSUME NEW n \in Nat PROVE Minor([s EXCEPT !.accepted = n], s)
  BY DEF Minor, Alike, SessSet
<1> QED
  BY <1>1, <1>2, <1>3, <1>4, <1>5, <1>6, <1>7, <1>8, Zenon

LEMMA Quieted ==
    ASSUME NEW s \in SessSet
    PROVE  LET x == [s EXCEPT !.listening = FALSE, !.ticking = FALSE]
           IN  x \in SessSet /\ Alike(x, s) /\ ~x.listening /\ ~x.ticking
  BY DEF Alike, SessSet

LEMMA Stopped ==
    ASSUME NEW s \in SessSet
    PROVE  LET x == [s EXCEPT !.listening = FALSE, !.ticking = FALSE, !.auth = None,
                              !.boundary = 0]
           IN  /\ x \in SessSet /\ ~x.listening /\ ~x.ticking /\ x.boundary = 0
               /\ x.init = s.init /\ x.diff = s.diff
  BY DEF SessSet

LEMMA Listening ==
    ASSUME NEW s \in SessSet
    PROVE  LET x == [s EXCEPT !.listening = TRUE, !.ticking = TRUE]
           IN  x \in SessSet /\ Alike(x, s)
  BY DEF Alike, SessSet

LEMMA Welcomed ==
    ASSUME NEW s \in SessSet, NEW d \in Nat
    PROVE  LET x == [s EXCEPT !.init = TRUE, !.diff = d]
           IN  x \in SessSet /\ x.init /\ x.diff = d /\ x.boundary = s.boundary
  BY DEF SessSet

LEMMA Seeing ==
    ASSUME NEW s \in SessSet, NEW S \in SUBSET ((1..MaxJobs) \X Quality)
    PROVE  LET x == [s EXCEPT !.seen = S]
           IN  /\ x \in SessSet /\ x.init = s.init /\ x.diff = s.diff /\ x.old = s.old
               /\ x.boundary = s.boundary /\ x.changes = s.changes /\ x.seen = S
               /\ x.listening = s.listening /\ x.ticking = s.ticking
  BY DEF SessSet

LEMMA Changed ==
    ASSUME sess \in SessSet, store.nextJob \in Nat, NEW d \in Nat
    PROVE  LET x == Change(d)
           IN  /\ x \in SessSet /\ x.init = sess.init /\ x.diff = d /\ x.old = sess.diff
               /\ x.boundary = store.nextJob /\ x.changes = sess.changes + 1
               /\ x.seen = sess.seen
               /\ x.listening = sess.listening /\ x.ticking = sess.ticking
<1> DEFINE o == sess.diff
           n == store.nextJob
           m == sess.changes + 1
           x == [sess EXCEPT !.diff = d, !.old = o, !.boundary = n, !.changes = m]
<1>1. o \in Nat /\ m \in Nat /\ n \in Nat
  BY DEF SessSet
<1>2. Change(d) = x
  BY Zenon DEF Change
<1> HIDE DEF o, m, n
<1>3. x \in SessSet
  BY <1>1 DEF SessSet
<1>4. /\ x.init = sess.init /\ x.diff = d /\ x.old = o
      /\ x.boundary = n /\ x.changes = m /\ x.seen = sess.seen
      /\ x.listening = sess.listening /\ x.ticking = sess.ticking
  BY DEF SessSet
<1> QED
  BY <1>2, <1>3, <1>4 DEF o, m, n

LEMMA Suggesting ==
    ASSUME NEW s \in SessSet
    PROVE  Minor([s EXCEPT !.suggested = TRUE], s)
  BY DEF Minor, Alike, SessSet

-------------------------------------------------------------------------------
(* Frames: what a step leaves alone. *)

WorldSame == port' = port /\ agent' = agent /\ membership' = membership /\ epoch' = epoch

LEMMA HonestStays == WorldSame => \A r : Honest(r) <=> Honest(r)'
<1> SUFFICES ASSUME WorldSame, NEW r PROVE Honest(r) <=> Honest(r)'
  OBVIOUS
<1>1. Route(r.addr)' = Route(r.addr)
  BY DEF Route, WorldSame
<1> QED
  BY <1>1 DEF Honest, WorldSame

LEMMA PutIs ==
    ASSUME NEW f \in [Task -> CallSet], NEW t \in Task, NEW r \in CallSet
    PROVE  LET g == [f EXCEPT ![t] = r]
           IN  g \in [Task -> CallSet] /\ g[t] = r /\ \A u \in Task \ {t} : g[u] = f[u]
  OBVIOUS

\* A call stays good while templates are only added and the session stays initialised.
LEMMA TaskStays ==
    ASSUME WorldSame, store.nextTemplate \in Nat, store'.nextTemplate \in Nat,
           store.nextTemplate <= store'.nextTemplate, sess.init => sess'.init,
           NEW r \in CallSet, TaskOK(r)
    PROVE  TaskOK(r)'
<1>1. Honest(r) <=> Honest(r)'
  BY HonestStays
<1>2. r.tmpl < store'.nextTemplate
  BY DEF TaskOK, CallSet
<1> QED
  BY <1>1, <1>2 DEF TaskOK

LEMMA TasksStay ==
    ASSUME Typed, TasksOK, WorldSame, store'.nextTemplate \in Nat,
           store.nextTemplate <= store'.nextTemplate, sess.init => sess'.init,
           NEW t \in Task, \A u \in Task \ {t} : task'[u] = task[u], TaskOK(task[t])'
    PROVE  TasksOK'
<1>1. ASSUME NEW u \in Task \ {t} PROVE TaskOK(task[u])'
  <2>1. task[u] \in CallSet /\ TaskOK(task[u]) /\ store.nextTemplate \in Nat
    BY DEF TasksOK, Typed, Registry
  <2> DEFINE r == task[u]
  <2> HIDE DEF r
  <2>2. \A x \in CallSet : TaskOK(x) => TaskOK(x)'
    BY <2>1, TaskStays
  <2> QED
    BY <2>1, <2>2
<1> QED
  BY <1>1 DEF TasksOK

\* A step that leaves the registry, the credits and what counts of the session alone.
CoreSame == WorldSame /\ store' = store /\ credits' = credits /\ Alike(sess', sess)

LEMMA JobsStay ==
    ASSUME WorldSame, credits' = credits, NEW s, NEW x, JobsIn(s, x)
    PROVE  JobsIn(s, x)'
<1> SUFFICES ASSUME NEW j \in DOMAIN s.jobs PROVE JobOK(s, x, j, s.jobs[j])'
  BY DEF JobsIn
<1> DEFINE job == s.jobs[j]
<1> HIDE DEF job
<1>1. JobOK(s, x, j, job)
  BY DEF job, JobsIn
<1>2. Honest(job)'
  BY <1>1, HonestStays DEF JobOK
<1>3. StampOK(s, job)' /\ TargetOK(x, j, job)' /\ SeenOK(x, j, job)'
  BY <1>1 DEF JobOK, StampOK, TargetOK, SeenOK
<1>4. JobOK(s, x, j, job)'
  BY <1>1, <1>2, <1>3 DEF JobOK
<1> QED
  BY <1>4 DEF job

\* Of the session, only what is alike counts.
LEMMA JobsAlike ==
    ASSUME NEW s, NEW x, NEW y, JobsIn(s, x), Alike(y, x)
    PROVE  JobsIn(s, y)
  BY DEF JobsIn, JobOK, TargetOK, SeenOK, Alike

\* Such a step does not change what is known of jobs and session.
LEMMA CoreStays ==
    ASSUME JobsOK, SessOK, CoreSame,
           ~sess.init => (sess'.listening => sess.listening) /\ (sess'.ticking => sess.ticking)
    PROVE  JobsOK' /\ SessOK'
<1>1. JobsOK'
  <2>1. JobsIn(store, sess')
    BY JobsAlike DEF JobsOK, CoreSame
  <2>2. \A s, x : JobsIn(s, x) => JobsIn(s, x)'
    BY JobsStay DEF CoreSame
  <2> QED
    BY <2>1, <2>2 DEF JobsOK, CoreSame
<1>2. SessOK'
  BY DEF SessOK, CoreSame, WorldSame, Alike
<1> QED
  BY <1>1, <1>2

\* The steps of no call.
LEMMA QuietStep ==
    ASSUME Typed, Parts, CoreSame, task' = task,
           (sess'.listening => sess.listening) /\ (sess'.ticking => sess.ticking)
    PROVE  Parts'
<1>1. JobsOK' /\ SessOK'
  BY CoreStays DEF Parts
<1>2. TasksOK'
  <2> SUFFICES ASSUME NEW t \in Task PROVE TaskOK(task[t])'
    BY DEF TasksOK
  <2>1. store.nextTemplate \in Nat /\ store' = store
    BY DEF Typed, Registry, CoreSame
  <2>2. \A r \in CallSet : TaskOK(r) => TaskOK(r)'
    BY <2>1, TaskStays DEF CoreSame, Alike
  <2>3. task[t] \in CallSet /\ TaskOK(task[t]) /\ task'[t] = task[t]
    BY DEF Typed, Parts, TasksOK
  <2> QED
    BY <2>2, <2>3
<1> QED
  BY <1>1, <1>2 DEF Parts

\* The steps of one call.
LEMMA CallStep ==
    ASSUME Typed, Parts, CoreSame, NEW t \in Task, NEW r \in CallSet,
           task' = [task EXCEPT ![t] = r], TaskOK(r)',
           ~sess.init => (sess'.listening => sess.listening) /\ (sess'.ticking => sess.ticking)
    PROVE  Parts' /\ task' \in [Task -> CallSet]
<1>1. JobsOK' /\ SessOK'
  BY CoreStays DEF Parts
<1>2. task' \in [Task -> CallSet] /\ task'[t] = r /\ \A u \in Task \ {t} : task'[u] = task[u]
  BY PutIs DEF Typed
<1>3. TasksOK'
  <2>1. TaskOK(task[t])'
    BY <1>2
  <2>2. store'.nextTemplate \in Nat /\ store.nextTemplate <= store'.nextTemplate
    BY DEF Typed, Registry, CoreSame
  <2> QED
    BY <1>2, <2>1, <2>2, TasksStay DEF Parts, CoreSame, Alike
<1> QED
  BY <1>1, <1>2, <1>3 DEF Parts

-------------------------------------------------------------------------------
(* Shares. *)

\* What it takes to credit the work q on job j.
Creditable(j, q) ==
    /\ j \in DOMAIN store.jobs /\ <<j, q>> \notin sess.seen
    /\ Classify(store.jobs[j], clock) # "stale-rejected"
    /\ store.jobs[j].tmpl \in DOMAIN store.templates

\* The call after the share was judged, and what the judgement has changed.
Judged(t, j, q) ==
    /\ sess' = [sess EXCEPT !.seen = @ \cup {<<j, q>>}]
    /\ credits' = credits \/ (Creditable(j, q) /\ credits' = [credits EXCEPT ![j][q] = @ + 1])
    /\ \E r \in CallSet :
          /\ task' = [task EXCEPT ![t] = r] /\ r.at \in {"reject", "credited"} /\ r.tmpl = 0
          /\ r.at = "credited" => r.diff <= r.q /\ Honest(r)

LEMMA JudgeIs ==
    ASSUME Typed, Parts, NEW t \in Task, NEW j \in 1..MaxJobs, NEW q \in Quality, Judge(t, j, q)
    PROVE  Judged(t, j, q)
<1> DEFINE class == Classify(store.jobs[j], clock)
           diff == EffectiveJobDifficulty(j)
           reject(why) == [Idle EXCEPT !.at = "reject", !.why = why, !.job = j,
                              !.q = q, !.line = TRUE]
           credit == [Idle EXCEPT !.at = "credited", !.job = j, !.q = q, !.diff = diff,
                         !.route = store.jobs[j].route, !.addr = store.jobs[j].addr,
                         !.epoch = store.jobs[j].epoch, !.line = TRUE]
<1>1. j \in Nat /\ q \in Nat
  BY SessionAssumption
<1>2. sess' = [sess EXCEPT !.seen = @ \cup {<<j, q>>}]
  BY DEF Judge
<1>3. \/ \E why \in Why : task' = [task EXCEPT ![t] = reject(why)] /\ credits' = credits
      \/ /\ Creditable(j, q) /\ ~(q < diff) /\ task' = [task EXCEPT ![t] = credit]
         /\ credits' = [credits EXCEPT ![j][q] = @ + 1]
  BY Zenon DEF Judge, Put, Creditable, Why
<1>4. ASSUME NEW why \in Why, task' = [task EXCEPT ![t] = reject(why)], credits' = credits
      PROVE  Judged(t, j, q)
  <2>1. reject(why) \in CallSet /\ reject(why).at = "reject" /\ reject(why).tmpl = 0
    BY <1>1, RejectIs
  <2> QED
    BY <1>2, <1>4, <2>1 DEF Judged
<1>5. ASSUME Creditable(j, q), ~(q < diff), task' = [task EXCEPT ![t] = credit],
             credits' = [credits EXCEPT ![j][q] = @ + 1]
      PROVE  Judged(t, j, q)
  <2> DEFINE job == store.jobs[j]
  <2>0. ~(q < diff)
    BY <1>5
  <2> HIDE DEF diff, job
  <2>1. job \in JobSet /\ Honest(job)
    BY <1>5 DEF job, Creditable, Typed, Registry, Parts, JobsOK, JobsIn, JobOK
  <2>2. diff \in Nat
    BY EffectiveIs DEF diff, Typed, SessSet
  <2> DEFINE r == [Idle EXCEPT !.at = "credited", !.job = j, !.q = q, !.diff = diff,
                      !.route = job.route, !.addr = job.addr,
                      !.epoch = job.epoch, !.line = TRUE]
  <2>3. /\ r \in CallSet /\ r.at = "credited" /\ r.tmpl = 0 /\ r.q = q /\ r.diff = diff
        /\ r.route = job.route /\ r.addr = job.addr /\ r.epoch = job.epoch
    BY <1>1, <2>1, <2>2 DEF Idle, CallSet, JobSet, Labels, Backs, Why
  <2>4. task' = [task EXCEPT ![t] = r]
    BY <1>5 DEF job, diff
  <2> HIDE DEF r
  <2>5. Honest(r) /\ r.diff <= r.q
    BY <1>1, <2>0, <2>1, <2>2, <2>3 DEF Honest
  <2> QED
    BY <1>2, <1>5, <2>3, <2>4, <2>5 DEF Judged
<1> QED
  BY <1>3, <1>4, <1>5

LEMMA JudgedKeeps ==
    ASSUME Typed, Parts, NEW t \in Task, NEW j \in 1..MaxJobs, NEW q \in Quality,
           Judged(t, j, q), sess.init, WorldSame, store' = store
    PROVE  /\ Parts' /\ sess' \in SessSet /\ task' \in [Task -> CallSet]
           /\ credits' \in [1..MaxJobs -> [Quality -> Nat]]
<1>1. /\ sess' \in SessSet /\ sess'.init = sess.init /\ sess'.diff = sess.diff
      /\ sess'.old = sess.old /\ sess'.boundary = sess.boundary /\ sess'.changes = sess.changes
      /\ sess'.seen = sess.seen \cup {<<j, q>>}
  <2> DEFINE S == sess.seen \cup {<<j, q>>}
  <2>1. S \in SUBSET ((1..MaxJobs) \X Quality) /\ sess \in SessSet
    BY DEF Typed, SessSet
  <2>2. sess' = [sess EXCEPT !.seen = S]
    BY DEF Judged
  <2> HIDE DEF S
  <2>3. /\ sess' \in SessSet /\ sess'.init = sess.init /\ sess'.diff = sess.diff
        /\ sess'.old = sess.old /\ sess'.boundary = sess.boundary
        /\ sess'.changes = sess.changes /\ sess'.seen = S
    BY <2>1, <2>2, Seeing
  <2> QED
    BY <2>3 DEF S
<1>2. /\ credits' \in [1..MaxJobs -> [Quality -> Nat]]
      /\ \A k \in 1..MaxJobs, p \in Quality : credits'[k][p] = credits[k][p] \/ (k = j /\ p = q)
  <2>1. credits' = credits \/ credits' = [credits EXCEPT ![j][q] = @ + 1]
    BY DEF Judged
  <2>2. credits \in [1..MaxJobs -> [Quality -> Nat]]
    BY DEF Typed
  <2>3. CASE credits' = credits
    BY <2>2, <2>3
  <2>4. CASE credits' = [credits EXCEPT ![j][q] = @ + 1]
    <3> DEFINE of == [credits[j] EXCEPT ![q] = @ + 1]
    <3>1. of \in [Quality -> Nat] /\ \A p \in Quality : of[p] = credits[j][p] \/ p = q
      BY <2>2
    <3>2. credits' = [credits EXCEPT ![j] = of]
      BY <2>4, Zenon
    <3> HIDE DEF of
    <3> QED
      BY <2>2, <3>1, <3>2
  <2> QED
    BY <2>1, <2>3, <2>4
<1>3. PICK r \in CallSet :
            /\ task' = [task EXCEPT ![t] = r] /\ r.at \in {"reject", "credited"} /\ r.tmpl = 0
            /\ r.at = "credited" => r.diff <= r.q /\ Honest(r)
  BY DEF Judged
<1>4. task' \in [Task -> CallSet] /\ task'[t] = r /\ \A u \in Task \ {t} : task'[u] = task[u]
  BY <1>3, PutIs DEF Typed
<1>5. TasksOK'
  <2>1. TaskOK(r)'
    <3>1. store'.nextTemplate > 0
      BY DEF Typed, Registry
    <3>2. r.at = "credited" => Honest(r)'
      BY <1>3, HonestStays
    <3> QED
      BY <1>1, <1>3, <3>1, <3>2 DEF TaskOK
  <2>2. TaskOK(task[t])'
    BY <1>4, <2>1
  <2>3. store'.nextTemplate \in Nat /\ store.nextTemplate <= store'.nextTemplate
    BY DEF Typed, Registry
  <2> QED
    BY <1>1, <1>4, <2>2, <2>3, TasksStay DEF Parts
<1>6. JobsOK'
  <2> SUFFICES ASSUME NEW k \in DOMAIN store.jobs PROVE JobOK(store, sess, k, store.jobs[k])'
    BY DEF JobsOK, JobsIn
  <2> DEFINE job == store.jobs[k]
  <2> HIDE DEF job
  <2>1. job' = job /\ JobOK(store, sess, k, job) /\ k \in 1..MaxJobs
    BY DEF job, JobsOK, JobsIn, Parts, Typed, Registry
  <2>2. Honest(job)'
    BY <2>1, HonestStays DEF JobOK
  <2>3. StampOK(store, job)'
    BY <2>1 DEF JobOK, StampOK
  <2>4. TargetOK(sess, k, job)'
    BY <1>1, <2>1 DEF JobOK, TargetOK
  <2>5. SeenOK(sess, k, job)'
    BY <1>1, <1>2, <2>1 DEF JobOK, SeenOK
  <2>6. JobOK(store, sess, k, job)'
    BY <2>1, <2>2, <2>3, <2>4, <2>5 DEF JobOK
  <2> QED
    BY <2>6 DEF job
<1>7. SessOK'
  BY <1>1 DEF Parts, SessOK, WorldSame
<1> QED
  BY <1>1, <1>2, <1>4, <1>5, <1>6, <1>7 DEF Parts

-------------------------------------------------------------------------------
(* Jobs. *)

\* The call is ready to be given a job of registry s.
CallReady(s, r) ==
    r \in CallSet /\ r.tmpl < s.nextTemplate /\ r.route \in Schemes /\ Honest(r)

\* The session as it is when a job is given out: it is initialised, the boundary is not
\* above the next id, and that id was never credited.
JobReady(s, x) ==
    /\ Registry(s) /\ JobsIn(s, x) /\ x \in SessSet /\ x.init /\ x.boundary <= s.nextJob
    /\ x.diff = sess.diff /\ x.changes = sess.changes
    /\ s.nextJob <= MaxJobs => \A q \in Quality : credits[s.nextJob][q] = 0

\* What giving out a job, or its wait for the distribution, makes of the registry.
Given(s, x, p) ==
    /\ Registry(p) /\ JobsIn(p, x) /\ p.nextTemplate = s.nextTemplate
    /\ s.nextJob <= p.nextJob

LEMMA NotifyGives ==
    ASSUME Typed, NEW s, NEW x, JobReady(s, x), NEW t \in Task, NEW call, CallReady(s, call),
           Notify(s, t, call)
    PROVE  Given(s, x, store')
<1> DEFINE job == [NoJob EXCEPT !.tmpl = call.tmpl, !.made = clock,
                      !.route = call.route, !.addr = call.addr, !.epoch = call.epoch,
                      !.asked = told, !.clean = told = sess.diff, !.changes = sess.changes,
                      !.late = \/ call.tmpl \notin DOMAIN s.templates
                               \/ s.templates[call.tmpl].retired # Active]
           p == AddJob(s, job)
           id == s.nextJob
<1>1. store' = IF id <= MaxJobs THEN p ELSE s
  BY Zenon DEF Notify
<1>2. CASE ~(id <= MaxJobs)
  BY <1>1, <1>2 DEF Given, JobReady, Registry
<1>3. CASE id <= MaxJobs
  <2>1. /\ job \in JobSet /\ job.tmpl = call.tmpl /\ job.route = call.route
        /\ job.addr = call.addr /\ job.epoch = call.epoch /\ job.asked = told
        /\ job.clean = (told = sess.diff) /\ job.changes = sess.changes
        /\ job.retired = Active
        /\ ~job.late => call.tmpl \in DOMAIN s.templates /\ s.templates[call.tmpl].retired = Active
    <3>1. /\ call.tmpl \in Nat /\ call.route \in Schemes /\ call.addr \in Address \cup {None}
          /\ call.epoch \in Nat /\ clock \in Nat /\ told \in Nat /\ sess.changes \in Nat
      BY DEF CallReady, CallSet, Typed, SessSet
    <3>2. job \in JobSet
      BY ONLY <3>1 DEF NoJob, JobSet, Stamp
    <3>3. /\ job.tmpl = call.tmpl /\ job.route = call.route
          /\ job.addr = call.addr /\ job.epoch = call.epoch /\ job.asked = told
          /\ job.clean = (told = sess.diff) /\ job.changes = sess.changes
          /\ job.retired = Active
          /\ ~job.late => call.tmpl \in DOMAIN s.templates /\ s.templates[call.tmpl].retired = Active
      BY ONLY DEF NoJob
    <3> QED
      BY <3>2, <3>3
  <2> HIDE DEF job
  <2>2. /\ Registry(p) /\ p.templates = s.templates
        /\ p.nextTemplate = s.nextTemplate /\ p.nextJob = id + 1
        /\ p.jobs[id] = job
        /\ \A j \in DOMAIN p.jobs : j # id => j \in DOMAIN s.jobs /\ p.jobs[j] = s.jobs[j]
    BY <1>3, <2>1, AddJobIs DEF JobReady
  <2> HIDE DEF p
  <2>3. JobOK(s, x, id, job)
    <3>1. Honest(job) /\ job.tmpl < s.nextTemplate
      BY <2>1 DEF CallReady, Honest
    <3>2. StampOK(s, job)
      BY <2>1 DEF StampOK
    <3>3. TargetOK(x, id, job)
      <4>1. job.clean => job.asked = sess.diff
        BY <2>1, Zenon
      <4>2. /\ x.changes \in Nat /\ x.boundary <= id /\ x.diff = sess.diff
            /\ x.changes = sess.changes
        BY DEF JobReady, SessSet
      <4> QED
        BY <2>1, <4>1, <4>2 DEF TargetOK
    <3>4. SeenOK(x, id, job)
      BY <1>3 DEF SeenOK, JobReady
    <3> QED
      BY <3>1, <3>2, <3>3, <3>4 DEF JobOK
  <2>4. JobsIn(p, x)
    <3> SUFFICES ASSUME NEW j \in DOMAIN p.jobs PROVE JobOK(p, x, j, p.jobs[j])
      BY DEF JobsIn
    <3> DEFINE k == p.jobs[j]
    <3> HIDE DEF k
    <3>1. JobOK(s, x, j, k)
      <4>1. CASE j = id
        BY <2>2, <2>3, <4>1 DEF k
      <4>2. CASE j # id
        <5>1. j \in DOMAIN s.jobs /\ k = s.jobs[j]
          BY <2>2, <4>2 DEF k
        <5> QED
          BY <5>1 DEF JobReady, JobsIn
      <4> QED
        BY <4>1, <4>2
    <3>2. JobOK(p, x, j, k)
      BY <2>2, <3>1 DEF JobOK, StampOK
    <3> QED
      BY <3>2 DEF k
  <2>5. s.nextJob <= p.nextJob
    BY <2>2 DEF JobReady, Registry
  <2> QED
    BY <1>1, <1>3, <2>2, <2>4, <2>5 DEF Given
<1> QED
  BY <1>2, <1>3

\* What the call is then.
Sent(s, r) ==
    /\ r \in CallSet /\ r.at \in {"idle", "online", "distribution"} /\ r.tmpl < s.nextTemplate
    /\ r.at = "idle" => r = Idle
    /\ r.at = "distribution" => r.route \in Schemes /\ Honest(r)

LEMMA NotifySends ==
    ASSUME Typed, NEW s, Registry(s), NEW t \in Task, NEW call, CallReady(s, call),
           Notify(s, t, call)
    PROVE  \E r : Sent(s, r) /\ task' = [task EXCEPT ![t] = r]
<1>1. CASE call.back = "idle"
  <2>1. task' = [task EXCEPT ![t] = Idle]
    BY <1>1, Zenon DEF Notify, Put
  <2>2. Sent(s, Idle)
    BY IdleIs DEF Sent, Registry
  <2> QED
    BY <2>1, <2>2
<1>2. CASE call.back = "online"
  <2> DEFINE r == [call EXCEPT !.at = "online"]
  <2>1. task' = [task EXCEPT ![t] = r]
    BY <1>2, Zenon DEF Notify, Put
  <2>2. r \in CallSet /\ r.at = "online" /\ r.tmpl = call.tmpl
    BY ZenonT(60), GotoIs DEF CallReady, Labels, Carries
  <2> HIDE DEF r
  <2>3. Sent(s, r)
    BY <2>2 DEF Sent, CallReady
  <2> QED
    BY <2>1, <2>3
<1>3. call.back \in {"idle", "online"}
  BY DEF CallReady, CallSet, Backs
<1> QED
  BY <1>1, <1>2, <1>3

LEMMA RouteIs == \A a : Route(a) \in Schemes
  BY DEF Route, Schemes

LEMMA SendJobSends ==
    ASSUME Typed, NEW s, NEW x, JobReady(s, x), NEW t \in Task, NEW call \in CallSet,
           NEW m \in Nat, m < s.nextTemplate, NEW back \in Backs, SendJob(s, t, call, m, back)
    PROVE  Given(s, x, store') /\ \E r : Sent(s, r) /\ task' = [task EXCEPT ![t] = r]
<1> DEFINE route == Route(sess.auth)
           a == sess.auth
           sent == [call EXCEPT !.at = "distribution", !.tmpl = m, !.back = back,
                       !.route = route, !.addr = a, !.epoch = epoch]
<1>1. \/ store' = s /\ task' = [task EXCEPT ![t] = sent]
      \/ Notify(s, t, sent)
  BY Zenon DEF SendJob, Put
<1> HIDE DEF route, a
<1>2. route \in Schemes /\ a \in Address \cup {None} /\ epoch \in Nat
  BY RouteIs DEF Typed, SessSet, route, a
<1>3. /\ sent \in CallSet /\ sent.at = "distribution" /\ sent.tmpl = m
      /\ sent.route = route /\ sent.addr = a /\ sent.epoch = epoch
  BY <1>2 DEF CallSet, Labels
<1> HIDE DEF sent
<1>4. Honest(sent)
  BY <1>2, <1>3 DEF Honest, route, a
<1>5. CASE store' = s /\ task' = [task EXCEPT ![t] = sent]
  <2>1. Sent(s, sent)
    BY <1>2, <1>3, <1>4 DEF Sent
  <2>2. Given(s, x, s)
    BY DEF Given, JobReady, Registry
  <2> QED
    BY <1>5, <2>1, <2>2
<1>6. CASE Notify(s, t, sent)
  <2>1. CallReady(s, sent)
    BY <1>2, <1>3, <1>4 DEF CallReady
  <2> QED
    BY <1>6, <2>1, NotifyGives, NotifySends DEF JobReady
<1> QED
  BY <1>1, <1>5, <1>6

\* The jobs of sess' in a registry as good as the one that was given.
LEMMA GivenKeeps ==
    ASSUME Typed, Parts, WorldSame, credits' = credits, NEW s, NEW t \in Task, NEW r,
           store.nextTemplate <= s.nextTemplate, store.nextJob <= s.nextJob,
           Given(s, sess', store'), Sent(s, r), task' = [task EXCEPT ![t] = r],
           sess' \in SessSet, sess'.init, sess'.diff = sess.diff,
           sess'.boundary = sess.boundary, Registry(s)
    PROVE  Parts' /\ Registry(store') /\ task' \in [Task -> CallSet]
<1>1. /\ Registry(store') /\ JobsIn(store', sess') /\ store'.nextTemplate = s.nextTemplate
      /\ s.nextJob <= store'.nextJob
  BY DEF Given
<1>2. JobsOK'
  <2>1. \A p, x : JobsIn(p, x) => JobsIn(p, x)'
    BY JobsStay
  <2> QED
    BY <1>1, <2>1 DEF JobsOK
<1>3. task' \in [Task -> CallSet] /\ task'[t] = r /\ \A u \in Task \ {t} : task'[u] = task[u]
  BY PutIs DEF Typed, Sent
<1>4. TasksOK'
  <2>1. TaskOK(r)'
    <3>1. Honest(r) <=> Honest(r)'
      BY HonestStays
    <3> QED
      BY <1>1, <3>1 DEF TaskOK, Sent
  <2>2. TaskOK(task[t])'
    BY <1>3, <2>1
  <2>3. store'.nextTemplate \in Nat /\ store.nextTemplate <= store'.nextTemplate
    BY <1>1 DEF Registry
  <2>4. sess.init => sess'.init
    OBVIOUS
  <2> QED
    <3>1. TasksOK
      BY DEF Parts
    <3> QED
      BY ONLY Typed, WorldSame, <1>3, <2>2, <2>3, <2>4, <3>1, TasksStay, Zenon
<1>5. SessOK'
  <2>1. sess'.boundary <= store'.nextJob
    <3>1. /\ sess.boundary \in Nat /\ store.nextJob \in Nat
          /\ s.nextJob \in Nat /\ store'.nextJob \in Nat
      BY <1>1 DEF Typed, SessSet, Registry
    <3>2. sess.boundary <= store.nextJob
      BY DEF Parts, SessOK
    <3> QED
      BY <1>1, <3>1, <3>2
  <2> QED
    BY <2>1 DEF Parts, SessOK, WorldSame
<1> QED
  BY <1>1, <1>2, <1>3, <1>4, <1>5 DEF Parts

\* A template is published; a session that listens forgets the hashes if it clears jobs.
LEMMA PublishedIs ==
    ASSUME Typed, Parts, NEW tip \in Nat, NEW x,
           x.diff = sess.diff, x.old = sess.old, x.boundary = sess.boundary,
           x.changes = sess.changes, ~ClearsJobs(store, tip) => x.seen = sess.seen
    PROVE  LET p == NewTemplate(store, tip, clock)
           IN  /\ Registry(p) /\ p.nextTemplate = store.nextTemplate + 1
               /\ p.nextJob = store.nextJob /\ JobsIn(p, x)
               /\ DOMAIN p.jobs \subseteq DOMAIN store.jobs
<1> DEFINE p == NewTemplate(store, tip, clock)
           clears == ClearsJobs(store, tip)
<1> HIDE DEF p, clears
<1>1. /\ Registry(p) /\ p.nextTemplate = store.nextTemplate + 1 /\ p.nextJob = store.nextJob
      /\ \A j \in DOMAIN p.jobs :
            j \in DOMAIN store.jobs /\ p.jobs[j] = Kept(store.jobs[j], clears, clock)
      /\ \A i \in DOMAIN p.templates : i # store.nextTemplate =>
            /\ i \in DOMAIN store.templates
            /\ p.templates[i] = Kept(store.templates[i], clears, clock)
  <2>1. Registry(store) /\ clock \in Nat
    BY DEF Typed
  <2> QED
    BY <2>1, NewTemplateIs, Zenon DEF p, clears
<1>2. clears \in BOOLEAN /\ clock \in Nat
  BY DEF clears, ClearsJobs, Typed
<1>3. ASSUME NEW j \in DOMAIN p.jobs PROVE JobOK(p, x, j, p.jobs[j])
  <2> DEFINE job == store.jobs[j]
             k == p.jobs[j]
  <2> HIDE DEF job, k
  <2>1. k = Kept(job, clears, clock) /\ job \in JobSet /\ JobOK(store, sess, j, job)
    BY <1>1 DEF job, k, Parts, JobsOK, JobsIn, Typed, Registry
  <2>2. /\ k.tmpl = job.tmpl /\ k.route = job.route /\ k.addr = job.addr
        /\ k.epoch = job.epoch /\ k.asked = job.asked /\ k.clean = job.clean
        /\ k.changes = job.changes /\ k.late = job.late
        /\ k.retired = IF clears /\ job.retired = Active THEN clock ELSE job.retired
    <3>1. /\ k.tmpl = job.tmpl /\ k.route = job.route /\ k.addr = job.addr
          /\ k.epoch = job.epoch /\ k.asked = job.asked /\ k.clean = job.clean
          /\ k.changes = job.changes /\ k.late = job.late
      BY ONLY <1>2, <2>1, KeptIs
    <3>2. k.retired = IF clears /\ job.retired = Active THEN clock ELSE job.retired
      BY ONLY <1>2, <2>1, KeptIs
    <3> QED
      BY <3>1, <3>2
  <2>3. k.tmpl < p.nextTemplate /\ Honest(k)
    BY <1>1, <2>1, <2>2 DEF JobOK, Honest, JobSet, Typed, Registry
  <2>4. StampOK(p, k)
    <3> SUFFICES ASSUME ~k.late, k.tmpl \in DOMAIN p.templates
                 PROVE  p.templates[k.tmpl].retired = k.retired
      BY DEF StampOK
    <3> DEFINE m == job.tmpl
               old == store.templates[m]
    <3> HIDE DEF m, old
    <3>1. m # store.nextTemplate /\ k.tmpl = m
      BY <2>1, <2>2 DEF m, JobOK, JobSet, Typed, Registry
    <3>2. m \in DOMAIN store.templates /\ p.templates[m] = Kept(old, clears, clock)
      BY <1>1, <3>1 DEF old
    <3>3. old \in TemplateSet
      BY <3>2 DEF old, Typed, Registry
    <3>4. old.retired = job.retired
      BY <2>1, <2>2, <3>2 DEF JobOK, StampOK, m, old
    <3>5. Kept(old, clears, clock).retired =
            IF clears /\ old.retired = Active THEN clock ELSE old.retired
      BY <1>2, <3>3, KeptIs
    <3> QED
      BY <2>2, <3>1, <3>2, <3>4, <3>5
  <2>5. TargetOK(x, j, k)
    BY <2>1, <2>2 DEF JobOK, TargetOK
  <2>6. SeenOK(x, j, k)
    <3> SUFFICES ASSUME k.retired = Active PROVE SeenOK(x, j, k)
      BY DEF SeenOK
    <3>1. ~clears /\ job.retired = Active
      BY <1>2, <2>2 DEF Active
    <3>2. x.seen = sess.seen
      BY <3>1 DEF clears
    <3> QED
      BY <2>1, <3>1, <3>2 DEF JobOK, SeenOK
  <2>7. JobOK(p, x, j, k)
    BY <2>3, <2>4, <2>5, <2>6 DEF JobOK
  <2> QED
    BY <2>7 DEF k
<1>4. JobsIn(p, x)
  BY <1>3 DEF JobsIn
<1>5. DOMAIN p.jobs \subseteq DOMAIN store.jobs
  BY <1>1
<1> QED
  BY <1>1, <1>4, <1>5 DEF p

-------------------------------------------------------------------------------
(* The steps of no call. *)

Numbered == \A j \in 1..MaxJobs, q \in Quality : credits[j][q] > 0 => j < store.nextJob

LedgersSame == paid' = paid /\ booked' = booked

Keeps == Typed' /\ Parts' /\ (Numbered => Numbered')

\* The variables the invariant only gives a type.
Surroundings ==
    /\ clock \in Nat /\ sock \in {"open", "ended", "closed"} /\ late \in BOOLEAN
    /\ destroys \subseteq {"bury", "release"} /\ registered \subseteq Address
    /\ row \in {"none", "queued", "live", "dead", "lost"} /\ beat \in BOOLEAN /\ told \in Nat

LEMMA TypedWhen ==
    ASSUME Typed, WorldSame, Surroundings', Registry(store'), sess' \in SessSet,
           task' \in [Task -> CallSet], credits' \in [1..MaxJobs -> [Quality -> Nat]]
    PROVE  Typed'
  BY DEF Typed, WorldSame, Surroundings, Registry

LEMMA QuietKeeps ==
    ASSUME Typed, Parts, CoreSame, task' = task, Surroundings', sess' \in SessSet,
           (sess'.listening => sess.listening) /\ (sess'.ticking => sess.ticking)
    PROVE  Keeps
<1>1. Parts'
  BY QuietStep
<1>2. Registry(store') /\ task' \in [Task -> CallSet] /\ credits' \in [1..MaxJobs -> [Quality -> Nat]]
  BY DEF Typed, CoreSame
<1>3. Typed'
  BY <1>2, TypedWhen DEF CoreSame
<1>4. Numbered => Numbered'
  BY DEF Numbered, CoreSame
<1> QED
  BY <1>1, <1>3, <1>4 DEF Keeps

\* The session and all that counts of the system stay.
StillSame == CoreSame /\ sess' = sess /\ task' = task

LEMMA StillKeeps == Typed /\ Parts /\ StillSame /\ Surroundings' => Keeps
  BY QuietKeeps DEF StillSame, Typed

LEMMA SocketSteps ==
    ASSUME Typed, Parts,
           \/ Close \/ Ended \/ \E a \in Address : ResetClients(a)
           \/ \E t \in Task : AuthorizeInvalid(t) \/ SubmitEarly(t)
    PROVE  Keeps /\ LedgersSame
<1>1. CASE Close \/ Ended
  <2>1. StillSame /\ LedgersSame
    BY <1>1 DEF Close, Ended, StillSame, CoreSame, WorldSame, Alike, LedgersSame, world, ghost
  <2>2. Surroundings'
    BY <1>1 DEF Close, Ended, OnClose, Looping, Surroundings, Typed, rowvars
  <2> QED
    BY <2>1, <2>2, StillKeeps
<1>2. CASE \E a \in Address : ResetClients(a)
  <2>1. StillSame /\ LedgersSame
    BY <1>2 DEF ResetClients, StillSame, CoreSame, WorldSame, Alike, LedgersSame, world, ghost
  <2>2. Surroundings'
    BY <1>2 DEF ResetClients, EndSocket, Surroundings, Typed, rowvars
  <2> QED
    BY <2>1, <2>2, StillKeeps
<1>3. CASE \E t \in Task : AuthorizeInvalid(t) \/ SubmitEarly(t)
  <2>1. StillSame /\ LedgersSame
    BY <1>3 DEF AuthorizeInvalid, SubmitEarly, StillSame, CoreSame, WorldSame, Alike, LedgersSame,
                world, ghost
  <2>2. Surroundings'
    BY <1>3 DEF AuthorizeInvalid, SubmitEarly, OnClose, Looping, Write, Surroundings, Typed, rowvars
  <2> QED
    BY <2>1, <2>2, StillKeeps
<1> QED
  BY <1>1, <1>2, <1>3

LEMMA RowSteps ==
    ASSUME Typed, Parts, Rows \/ Tick
    PROVE  Keeps /\ LedgersSame
<1>1. StillSame /\ LedgersSame
  BY DEF Rows, Tick, InsertClients, InsertFails, FlushHeartbeats, KillDeadClients,
         DeleteOldClients, RowStep, StillSame, CoreSame, WorldSame, Alike, LedgersSame, world, ghost
<1>2. Surroundings'
  <2>1. CASE Tick
    BY <2>1 DEF Tick, Surroundings, Typed, rowvars
  <2>2. CASE Rows
    <3>1. /\ row' \in {"none", "queued", "live", "dead", "lost"}
          /\ beat' \in {beat, FALSE}
      BY <2>2 DEF Rows, InsertClients, InsertFails, FlushHeartbeats, KillDeadClients,
                  DeleteOldClients, Typed
    <3>2. RowStep
      BY <2>2, Zenon DEF Rows, InsertClients, InsertFails, FlushHeartbeats, KillDeadClients,
                  DeleteOldClients
    <3> QED
      BY <3>1, <3>2 DEF RowStep, Surroundings, Typed
  <2> QED
    BY <2>1, <2>2
<1> QED
  BY <1>1, <1>2, StillKeeps

LEMMA DestroySteps ==
    ASSUME Typed, Parts, Bury \/ Release
    PROVE  Keeps /\ LedgersSame
<1> sess \in SessSet
  BY DEF Typed
<1>1. Surroundings'
  BY DEF Bury, Release, Buried, Surroundings, Typed, rowvars
<1>2. CASE Bury
  <2> DEFINE b == sess.offline \/ (sess.auth # None /\ sess.online)
  <2>1. b \in BOOLEAN
    BY DEF SessSet
  <2>2. sess' = [sess EXCEPT !.offline = b]
    BY <1>2, Zenon DEF Bury
  <2> HIDE DEF b
  <2>3. Minor(sess', sess)
    BY <2>1, <2>2, MinorEdits
  <2>4. CoreSame /\ task' = task /\ LedgersSame
    BY <1>2, <2>3 DEF Bury, CoreSame, WorldSame, Minor, LedgersSame, world, ghost
  <2> QED
    BY <1>1, <2>3, <2>4, QuietKeeps DEF Minor
<1>3. CASE Release
  <2>1. sess' = [sess EXCEPT !.listening = FALSE, !.ticking = FALSE]
    BY <1>3, Zenon DEF Release
  <2>2. sess' \in SessSet /\ Alike(sess', sess) /\ ~sess'.listening /\ ~sess'.ticking
    BY <2>1, Quieted
  <2>3. CoreSame /\ task' = task /\ LedgersSame
    BY <1>3, <2>2 DEF Release, CoreSame, WorldSame, LedgersSame, world, ghost
  <2> QED
    BY <1>1, <2>2, <2>3, QuietKeeps
<1> QED
  BY <1>2, <1>3

-------------------------------------------------------------------------------
(* The steps of a call that leave the registry and what counts of the session. *)

LEMMA CallKeeps ==
    ASSUME Typed, Parts, NEW t \in Task, NEW r \in CallSet, TaskOK(r),
           task' = [task EXCEPT ![t] = r], WorldSame, store' = store, credits' = credits,
           Minor(sess', sess), Surroundings'
    PROVE  Keeps
<1>1. CoreSame /\ sess' \in SessSet
  BY DEF CoreSame, Minor
<1>2. TaskOK(r)'
  BY <1>1, TaskStays DEF CoreSame, Alike, Typed, Registry
<1>3. Parts' /\ task' \in [Task -> CallSet]
  BY <1>1, <1>2, CallStep DEF Minor
<1>4. Typed'
  BY <1>1, <1>3, TypedWhen DEF CoreSame, Typed
<1>5. Numbered => Numbered'
  BY DEF Numbered
<1> QED
  BY <1>3, <1>4, <1>5 DEF Keeps

LEMMA MinorSelf == Typed => Minor(sess, sess)
  BY DEF Minor, Alike, Typed

LEMMA IdleOK == Typed => TaskOK(Idle)
  BY IdleIs DEF TaskOK, Typed, Registry, Early

\* Where a call may stand that has nothing but the marks of how it came there.
Plain == Labels \ {"idle", "distribution", "credited", "booking", "counting",
                   "create", "created", "await"}

LEMMA PlainOK ==
    ASSUME Typed, NEW r, r.at \in Plain, r.tmpl < store.nextTemplate,
           sess.init \/ r.at \in Early
    PROVE  TaskOK(r)
  BY DEF TaskOK, Plain

LEMMA TheCall == Typed /\ Parts => \A t \in Task : task[t] \in CallSet /\ TaskOK(task[t])
  BY DEF Typed, Parts, TasksOK

LEMMA HandshakeSteps ==
    ASSUME Typed, Parts, NEW t \in Task,
           \/ Subscribe(t) \/ Online(t) \/ Announce(t) \/ AnswerSuggest(t)
           \/ \E a \in Address : Authorize(t, a)
    PROVE  Keeps /\ LedgersSame
<1> DEFINE r == task[t]
<1> sess \in SessSet /\ TaskOK(Idle) /\ Minor(sess, sess)
  BY IdleOK, MinorSelf DEF Typed
<1> HIDE DEF r
<1>0. r \in CallSet /\ TaskOK(r) /\ Idle \in CallSet
  BY TheCall, IdleIs DEF r
<1>1. CASE Subscribe(t)
  <2> DEFINE c == [Idle EXCEPT !.at = "welcome", !.line = TRUE]
  <2>1. c \in CallSet /\ c.at = "welcome" /\ c.tmpl = 0
    BY BegunIs DEF Labels
  <2>2. task' = [task EXCEPT ![t] = c]
    BY <1>1, Zenon DEF Subscribe, Put
  <2> HIDE DEF c
  <2>3. TaskOK(c)
    BY <2>1, PlainOK DEF Plain, Labels, Early, Typed, Registry
  <2>4. Minor(sess', sess)
    BY <1>1, MinorEdits DEF Subscribe
  <2>5. Surroundings'
    BY <1>1 DEF Subscribe, Write, Surroundings, Typed, rowvars
  <2>6. WorldSame /\ store' = store /\ credits' = credits /\ LedgersSame
    BY <1>1 DEF Subscribe, WorldSame, LedgersSame, world, ghost
  <2> QED
    BY <2>1, <2>2, <2>3, <2>4, <2>5, <2>6, CallKeeps
<1>2. CASE Online(t)
  <2>1. task' = [task EXCEPT ![t] = Idle]
    BY <1>2, Zenon DEF Online, Done, Put
  <2>2. Minor(sess', sess)
    <3> DEFINE b == sess.offline /\ sess.online
    <3>1. b \in BOOLEAN
      BY DEF SessSet
    <3>2. sess' = [sess EXCEPT !.online = TRUE, !.offline = b]
      BY <1>2, Zenon DEF Online
    <3> HIDE DEF b
    <3> QED
      BY <3>1, <3>2, MinorEdits
  <2>3. Surroundings'
    BY <1>2 DEF Online, Surroundings, Typed, rowvars
  <2>4. WorldSame /\ store' = store /\ credits' = credits /\ LedgersSame
    BY <1>2 DEF Online, WorldSame, LedgersSame, world, ghost
  <2> QED
    BY <1>0, <2>1, <2>2, <2>3, <2>4, CallKeeps
<1>3. CASE Announce(t)
  <2> DEFINE c == [r EXCEPT !.at = "listen"]
  <2>1. c \in CallSet /\ c.at = "listen" /\ c.tmpl = r.tmpl
    <3>1. "listen" \in Labels
      BY DEF Labels
    <3> QED
      BY ONLY <1>0, <3>1, GotoIs DEF Carries
  <2>2. task' = [task EXCEPT ![t] = c] \/ task' = [task EXCEPT ![t] = Idle]
    BY <1>3, Zenon DEF Announce, Goto, Done, Put, r
  <2> HIDE DEF c
  <2>3. r.at = "announce" /\ r.diff \in Nat
    BY <1>0, <1>3 DEF Announce, r, CallSet
  <2>4. TaskOK(c)
    <3>1. sess.init /\ r.tmpl < store.nextTemplate
      BY <1>0, <2>3 DEF TaskOK, Early
    <3> QED
      BY <2>1, <3>1, PlainOK DEF Plain, Labels
  <2>5. Surroundings'
    BY <1>3, <2>3 DEF Announce, Write, Surroundings, Typed, rowvars, r
  <2>6. WorldSame /\ store' = store /\ credits' = credits /\ LedgersSame /\ sess' = sess
    BY <1>3 DEF Announce, WorldSame, LedgersSame, world, ghost
  <2> QED
    BY <1>0, <2>1, <2>2, <2>4, <2>5, <2>6, CallKeeps
<1>4. CASE AnswerSuggest(t)
  <2>1. task' = [task EXCEPT ![t] = Idle]
    BY <1>4, Zenon DEF AnswerSuggest, Done, Put
  <2>2. Minor(sess', sess)
    <3> DEFINE b == sess.used \/ Writable
    <3>1. b \in BOOLEAN
      BY DEF SessSet, Writable
    <3>2. sess' = [sess EXCEPT !.used = b]
      BY <1>4, Zenon DEF AnswerSuggest
    <3> HIDE DEF b
    <3> QED
      BY <3>1, <3>2, MinorEdits
  <2>3. Surroundings'
    <3>1. sess.diff \in Nat
      BY DEF SessSet
    <3> QED
      BY <1>4, <3>1 DEF AnswerSuggest, Write, Surroundings, Typed, rowvars
  <2>4. WorldSame /\ store' = store /\ credits' = credits /\ LedgersSame
    BY <1>4 DEF AnswerSuggest, WorldSame, LedgersSame, world, ghost
  <2> QED
    BY <1>0, <2>1, <2>2, <2>3, <2>4, CallKeeps
<1>5. ASSUME NEW a \in Address, Authorize(t, a) PROVE Keeps /\ LedgersSame
  <2> DEFINE c == [Idle EXCEPT !.at = "authorized", !.line = TRUE]
  <2>1. c \in CallSet /\ c.at = "authorized" /\ c.tmpl = 0
    BY BegunIs DEF Labels
  <2>2. task' = [task EXCEPT ![t] = c] \/ task' = [task EXCEPT ![t] = Idle]
    BY <1>5, Zenon DEF Authorize, Put
  <2> HIDE DEF c
  <2>3. TaskOK(c)
    BY <2>1, PlainOK DEF Plain, Labels, Early, Typed, Registry
  <2>4. Minor(sess', sess)
    BY <1>5, MinorEdits DEF Authorize
  <2>5. Surroundings'
    BY <1>5 DEF Authorize, Write, Surroundings, Typed, rowvars
  <2>6. WorldSame /\ store' = store /\ credits' = credits /\ LedgersSame
    BY <1>5 DEF Authorize, WorldSame, LedgersSame, world, ghost
  <2> QED
    BY <1>0, <2>1, <2>2, <2>3, <2>4, <2>5, <2>6, CallKeeps
<1> QED
  BY <1>1, <1>2, <1>3, <1>4, <1>5

LEMMA RowCallSteps ==
    ASSUME Typed, Parts, NEW t \in Task, Create(t) \/ Created(t) \/ CreateFails(t)
    PROVE  Keeps /\ LedgersSame
<1> DEFINE r == task[t]
<1> sess \in SessSet
  BY DEF Typed
<1> HIDE DEF r
<1>1. r \in CallSet /\ TaskOK(r)
  BY TheCall DEF r
<1>2. r.at \in {"create", "created"}
  BY DEF Create, Created, CreateFails, r
<1>3. Create(t) => task' = [task EXCEPT ![t] = [r EXCEPT !.at = "created"]]
  BY Zenon DEF Create, Goto, Put, r
<1>4. Created(t) \/ CreateFails(t) => task' = [task EXCEPT ![t] = [r EXCEPT !.at = "await"]]
  BY Zenon DEF Created, CreateFails, Goto, Put, r
<1>5. PICK c \in CallSet : /\ task' = [task EXCEPT ![t] = c] /\ c.at \in {"created", "await"}
                           /\ Carries(c, r)
  BY <1>1, <1>3, <1>4, GotoIs DEF Labels
<1>6. TaskOK(c)
  BY <1>1, <1>2, <1>5 DEF TaskOK, Carries, Early
<1>7. Minor(sess', sess)
  BY MinorEdits DEF Create, Created, CreateFails
<1>8. Surroundings'
  BY DEF Create, Created, CreateFails, Surroundings, Typed, rowvars
<1>9. WorldSame /\ store' = store /\ credits' = credits /\ LedgersSame
  BY DEF Create, Created, CreateFails, WorldSame, LedgersSame, world, ghost
<1> QED
  BY <1>5, <1>6, <1>7, <1>8, <1>9, CallKeeps

LEMMA BookSteps ==
    ASSUME Typed, Parts, NEW t \in Task, SubmitBlock(t) \/ BookBlock(t)
    PROVE  Keeps
<1> DEFINE r == task[t]
<1> HIDE DEF r
<1>1. r \in CallSet /\ TaskOK(r)
  BY TheCall DEF r
<1>2. r.at \in {"credited", "booking"}
  BY DEF SubmitBlock, BookBlock, r
<1>3. \E x \in {"booking", "counting"} : task' = [task EXCEPT ![t] = [r EXCEPT !.at = x]]
  BY Zenon DEF SubmitBlock, BookBlock, Goto, Put, r
<1>4. PICK c \in CallSet : /\ task' = [task EXCEPT ![t] = c] /\ c.at \in {"booking", "counting"}
                           /\ Carries(c, r) /\ c.diff = r.diff
  <2>1. PICK x \in {"booking", "counting"} : task' = [task EXCEPT ![t] = [r EXCEPT !.at = x]]
    BY ONLY <1>3
  <2> DEFINE c == [r EXCEPT !.at = x]
  <2>2. x \in Labels
    BY DEF Labels
  <2> HIDE DEF c
  <2>3. c \in CallSet /\ c.at = x /\ c.diff = r.diff /\ Carries(c, r)
    BY ONLY <1>1, <2>2, GotoIs DEF c
  <2>4. task' = [task EXCEPT ![t] = c]
    BY ONLY <2>1 DEF c
  <2> QED
    BY <2>3, <2>4
<1>5. TaskOK(c)
  <2>1. Honest(c)
    BY <1>1, <1>2, <1>4 DEF TaskOK, Carries, Honest
  <2> QED
    BY <1>1, <1>2, <1>4, <2>1 DEF TaskOK, Carries, Early
<1>6. Surroundings'
  BY DEF SubmitBlock, BookBlock, Surroundings, Typed, rowvars
<1>7. WorldSame /\ store' = store /\ credits' = credits /\ sess' = sess
  BY DEF SubmitBlock, BookBlock, WorldSame, world, ghost
<1> QED
  BY <1>4, <1>5, <1>6, <1>7, MinorSelf, CallKeeps

LEMMA RecordSteps ==
    ASSUME Typed, Parts, NEW t \in Task, RecordShare(t) \/ RecordFails(t)
    PROVE  Keeps
<1> DEFINE r == task[t]
<1> HIDE DEF r
<1> sess \in SessSet /\ TaskOK(Idle) /\ Idle \in CallSet
  BY IdleOK, IdleIs DEF Typed
<1>1. r \in CallSet /\ TaskOK(r)
  BY TheCall DEF r
<1>2. r.at \in {"credited", "counting"}
  BY DEF RecordShare, RecordFails, r
<1>3. task' = [task EXCEPT ![t] = [r EXCEPT !.at = "tail"]] \/ task' = [task EXCEPT ![t] = Idle]
  BY Zenon DEF RecordShare, RecordFails, Goto, Done, Put, r
<1>4. PICK c \in CallSet : /\ task' = [task EXCEPT ![t] = c]
                           /\ (c.at = "tail" /\ Carries(c, r)) \/ c = Idle
  BY <1>1, <1>3, GotoIs DEF Labels
<1>5. TaskOK(c)
  <2>1. CASE c.at = "tail" /\ Carries(c, r)
    <3>1. sess.init /\ r.tmpl < store.nextTemplate
      BY <1>1, <1>2 DEF TaskOK, Early
    <3> QED
      BY <2>1, <3>1, PlainOK DEF Plain, Labels, Carries
  <2> QED
    BY <1>4, <2>1
<1>6. Minor(sess', sess)
  <2> DEFINE n == sess.accepted + 1
  <2>1. n \in Nat
    BY DEF SessSet
  <2>2. sess' = [sess EXCEPT !.accepted = n]
    BY Zenon DEF RecordShare, RecordFails
  <2> HIDE DEF n
  <2> QED
    BY <2>1, <2>2, MinorEdits
<1>7. Surroundings'
  BY DEF RecordShare, RecordFails, Surroundings, Typed, rowvars
<1>8. WorldSame /\ store' = store /\ credits' = credits
  BY DEF RecordShare, RecordFails, WorldSame, world, ghost
<1> QED
  BY <1>4, <1>5, <1>6, <1>7, <1>8, CallKeeps

LEMMA NoJobSteps ==
    ASSUME Typed, Parts, NEW t \in Task, NoDistribution(t)
    PROVE  Keeps /\ LedgersSame
<1> DEFINE r == task[t]
<1> HIDE DEF r
<1> TaskOK(Idle) /\ Idle \in CallSet
  BY IdleOK, IdleIs
<1>1. r \in CallSet /\ TaskOK(r)
  BY TheCall DEF r
<1>2. r.at = "distribution" /\ r.back \in Backs
  BY <1>1 DEF NoDistribution, r, CallSet
<1>3. task' = [task EXCEPT ![t] = [r EXCEPT !.at = "online"]] \/ task' = [task EXCEPT ![t] = Idle]
  <2>1. task' = [task EXCEPT ![t] = IF r.back = "idle" THEN Idle ELSE [r EXCEPT !.at = r.back]]
    BY Zenon DEF NoDistribution, Put, r
  <2>2. CASE r.back = "idle"
    BY <2>1, <2>2, Zenon
  <2>3. CASE r.back = "online"
    BY <2>1, <2>3
  <2> QED
    BY <1>2, <2>2, <2>3 DEF Backs
<1>4. PICK c \in CallSet : /\ task' = [task EXCEPT ![t] = c]
                           /\ (c.at = "online" /\ Carries(c, r)) \/ c = Idle
  BY <1>1, <1>3, GotoIs DEF Labels
<1>5. TaskOK(c)
  <2>1. CASE c.at = "online" /\ Carries(c, r)
    <3>1. r.tmpl < store.nextTemplate
      BY <1>1 DEF TaskOK
    <3> QED
      BY <2>1, <3>1, PlainOK DEF Plain, Labels, Carries, Early
  <2> QED
    BY <1>4, <2>1
<1>6. Surroundings'
  BY DEF NoDistribution, Surroundings, Typed, rowvars
<1>7. WorldSame /\ store' = store /\ credits' = credits /\ sess' = sess /\ LedgersSame
  BY DEF NoDistribution, WorldSame, LedgersSame, world, ghost
<1> QED
  BY <1>4, <1>5, <1>6, <1>7, MinorSelf, CallKeeps

-------------------------------------------------------------------------------
(* The steps that change the difficulty. *)

\* Any other difficulty, remembered for the jobs there are.
LEMMA ChangeKeeps ==
    ASSUME Typed, Parts, NEW t \in Task, NEW c \in CallSet, NEW d \in Nat,
           c.at \in {"suggested", "ratchet"}, c.tmpl = 0, sess.init \/ c.at = "suggested",
           port = "pplns" => d >= Floor, task' = [task EXCEPT ![t] = c],
           sess' \in SessSet, sess'.init = sess.init, sess'.diff = d, sess'.old = sess.diff,
           sess'.boundary = store.nextJob, sess'.changes = sess.changes + 1,
           sess'.seen = sess.seen, sess'.listening = sess.listening,
           sess'.ticking = sess.ticking,
           WorldSame, store' = store, credits' = credits, Surroundings'
    PROVE  Keeps
<1>1. task' \in [Task -> CallSet] /\ task'[t] = c /\ \A u \in Task \ {t} : task'[u] = task[u]
  BY PutIs DEF Typed
<1>2. store.nextTemplate \in Nat \ {0} /\ store.nextJob \in Nat
  BY DEF Typed, Registry
<1>3. TasksOK'
  <2>1. TaskOK(c)'
    BY <1>2 DEF TaskOK, Early
  <2>2. TaskOK(task[t])'
    BY <1>1, <2>1
  <2> QED
    BY <1>1, <1>2, <2>2, TasksStay DEF Parts
<1>4. JobsOK'
  <2> SUFFICES ASSUME NEW j \in DOMAIN store.jobs PROVE JobOK(store, sess, j, store.jobs[j])'
    BY DEF JobsOK, JobsIn
  <2> DEFINE job == store.jobs[j]
  <2> HIDE DEF job
  <2>1. /\ job' = job /\ JobOK(store, sess, j, job) /\ j \in 1..MaxJobs /\ j < store.nextJob
        /\ job \in JobSet
    BY DEF job, JobsOK, JobsIn, Parts, Typed, Registry
  <2>2. Honest(job)'
    BY <2>1, HonestStays DEF JobOK
  <2>3. StampOK(store, job)' /\ SeenOK(sess, j, job)'
    BY <2>1 DEF JobOK, StampOK, SeenOK
  <2>4. TargetOK(sess, j, job)'
    <3>1. sess.changes \in Nat /\ job.changes \in Nat
      BY <2>1 DEF Typed, SessSet, JobSet
    <3> QED
      BY <1>2, <2>1, <3>1 DEF JobOK, TargetOK
  <2>5. JobOK(store, sess, j, job)'
    BY <2>1, <2>2, <2>3, <2>4 DEF JobOK
  <2> QED
    BY <2>5 DEF job
<1>5. SessOK'
  BY <1>2 DEF Parts, SessOK, WorldSame
<1>6. Typed'
  BY <1>1, TypedWhen DEF Typed
<1>7. Numbered => Numbered'
  BY DEF Numbered
<1> QED
  BY <1>3, <1>4, <1>5, <1>6, <1>7 DEF Keeps, Parts

LEMMA RatchetKeeps ==
    ASSUME Typed, Parts, NEW t \in Task, NEW call \in {Idle, [Idle EXCEPT !.line = TRUE]},
           NEW rate \in Rates, Ratchet(t, call, rate), sess.init,
           WorldSame, store' = store, credits' = credits, Surroundings'
    PROVE  Keeps
<1> DEFINE d == NearestStep(rate, MinDiff(port))
           c == GoneTo(call, "ratchet", d)
<1>1. sess' = Change(d) /\ task' = [task EXCEPT ![t] = c]
  BY Zenon DEF Ratchet, Put, GoneTo
<1> HIDE DEF d
<1>2. d \in Nat /\ (port = "pplns" => d >= Floor)
  BY StepIsFair DEF d, Typed
<1>3. call \in CallSet /\ call.tmpl = 0
  BY IdleIs
<1>4. c \in CallSet /\ c.at = "ratchet" /\ c.tmpl = 0
  <2>1. "ratchet" \in Labels
    BY DEF Labels
  <2> QED
    BY ONLY <1>2, <1>3, <2>1, GotoWithIs DEF Carries
<1> HIDE DEF c
<1>5. /\ sess' \in SessSet /\ sess'.init = sess.init /\ sess'.diff = d
      /\ sess'.old = sess.diff /\ sess'.boundary = store.nextJob
      /\ sess'.changes = sess.changes + 1 /\ sess'.seen = sess.seen
      /\ sess'.listening = sess.listening /\ sess'.ticking = sess.ticking
  <2>1. sess \in SessSet /\ store.nextJob \in Nat
    BY DEF Typed, Registry
  <2> QED
    BY ONLY <1>1, <1>2, <2>1, Changed
<1> QED
  BY <1>1, <1>2, <1>4, <1>5, ChangeKeeps

LEMMA SuggestKeeps ==
    ASSUME Typed, Parts, NEW t \in Task, NEW wanted \in Rates, Suggest(t, wanted)
    PROVE  Keeps /\ LedgersSame
<1> DEFINE d == Suggested(wanted)
           c == [Idle EXCEPT !.at = "suggested", !.line = TRUE]
           y == Change(d)
<1>1. c \in CallSet /\ c.at = "suggested" /\ c.tmpl = 0
  BY BegunIs DEF Labels
<1>2. task' = [task EXCEPT ![t] = c]
  BY Zenon DEF Suggest, Put
<1>3. d \in Nat /\ (port = "pplns" => d >= Floor)
  <2>1. wanted \in Nat /\ Floor \in Nat
    BY SessionAssumption
  <2> QED
    BY <2>1 DEF Suggested, Highest, MinDiff
<1>4. sess' = [IF d # sess.diff THEN y ELSE sess EXCEPT !.suggested = TRUE]
  BY Zenon DEF Suggest
<1> HIDE DEF c, d, y
<1>5. /\ WorldSame /\ store' = store /\ credits' = credits /\ LedgersSame /\ Surroundings'
      /\ sess \in SessSet /\ store.nextJob \in Nat
  BY DEF Suggest, WorldSame, LedgersSame, world, ghost, Surroundings, Typed, rowvars, Registry
<1>6. CASE d = sess.diff
  <2>1. Minor(sess', sess)
    BY <1>4, <1>5, <1>6, Suggesting
  <2>2. TaskOK(c)
    BY <1>1, PlainOK DEF Plain, Labels, Early, Typed, Registry
  <2> QED
    BY <1>1, <1>2, <1>5, <2>1, <2>2, CallKeeps
<1>7. CASE d # sess.diff
  <2>1. /\ y \in SessSet /\ y.init = sess.init /\ y.diff = d /\ y.old = sess.diff
        /\ y.boundary = store.nextJob /\ y.changes = sess.changes + 1
        /\ y.seen = sess.seen
        /\ y.listening = sess.listening /\ y.ticking = sess.ticking
    BY ONLY <1>3, <1>5, Changed DEF y
  <2>2. sess' = [y EXCEPT !.suggested = TRUE]
    BY <1>4, <1>7
  <2>3. Minor(sess', y)
    BY ONLY <2>1, <2>2, Suggesting
  <2> QED
    BY <1>1, <1>2, <1>3, <1>5, <2>1, <2>3, ChangeKeeps DEF Minor, Alike
<1> QED
  BY <1>6, <1>7

LEMMA TimerSteps ==
    ASSUME Typed, Parts, NEW t \in Task, Tail(t) \/ \E rate \in Rates : Check(t, rate)
    PROVE  Keeps /\ LedgersSame
<1> DEFINE r == task[t]
<1> HIDE DEF r
<1> TaskOK(Idle) /\ Idle \in CallSet
  BY IdleOK, IdleIs
<1>0. r \in CallSet /\ TaskOK(r)
  BY TheCall DEF r
<1>1. /\ WorldSame /\ store' = store /\ credits' = credits /\ LedgersSame /\ Surroundings'
  BY DEF Tail, Check, WorldSame, LedgersSame, world, ghost, Surroundings, Typed, rowvars
<1>2. ASSUME NEW rate \in Rates, Check(t, rate) PROVE Keeps
  <2>1. Ratchet(t, Idle, rate) /\ sess.ticking
    BY <1>2 DEF Check
  <2>2. sess.init
    BY <2>1 DEF Parts, SessOK, Typed, SessSet
  <2> QED
    BY <1>1, <2>1, <2>2, RatchetKeeps
<1>3. CASE Tail(t)
  <2>1. sess.init /\ r.tmpl < store.nextTemplate /\ r.at = "tail"
    BY <1>0, <1>3 DEF Tail, TaskOK, Early, r
  <2>2. \/ sess' = sess /\ task' = [task EXCEPT ![t] = Idle]
        \/ sess' = sess /\ task' = [task EXCEPT ![t] = [r EXCEPT !.at = "tail"]]
        \/ \E rate \in Rates : Ratchet(t, [Idle EXCEPT !.line = TRUE], rate)
    BY <1>3, Zenon DEF Tail, Goto, Done, Put, r
  <2>3. CASE sess' = sess /\ task' = [task EXCEPT ![t] = Idle]
    BY <1>1, <2>3, MinorSelf, CallKeeps
  <2>4. CASE sess' = sess /\ task' = [task EXCEPT ![t] = [r EXCEPT !.at = "tail"]]
    <3> DEFINE c == [r EXCEPT !.at = "tail"]
    <3>1. "tail" \in Labels
      BY DEF Labels
    <3> HIDE DEF c
    <3>2. c \in CallSet /\ c.at = "tail" /\ c.tmpl = r.tmpl
      BY ONLY <1>0, <3>1, GotoIs DEF Carries, c
    <3>3. TaskOK(c)
      BY <2>1, <3>2, PlainOK DEF Plain, Labels
    <3>4. task' = [task EXCEPT ![t] = c]
      BY <2>4 DEF c
    <3> QED
      BY <1>1, <2>4, <3>2, <3>3, <3>4, MinorSelf, CallKeeps
  <2>5. CASE \E rate \in Rates : Ratchet(t, [Idle EXCEPT !.line = TRUE], rate)
    BY <1>1, <2>1, <2>5, RatchetKeeps
  <2> QED
    BY <2>2, <2>3, <2>4, <2>5
<1> QED
  BY <1>1, <1>2, <1>3

LEMMA InitSteps ==
    ASSUME Typed, Parts, NEW t \in Task, InitStratum(t)
    PROVE  Keeps /\ LedgersSame
<1> DEFINE r == task[t]
<1> HIDE DEF r
<1> TaskOK(Idle) /\ Idle \in CallSet /\ sess \in SessSet
  BY IdleOK, IdleIs DEF Typed
<1>0. r \in CallSet /\ TaskOK(r)
  BY TheCall DEF r
<1>1. /\ WorldSame /\ store' = store /\ credits' = credits /\ LedgersSame /\ Surroundings'
  BY DEF InitStratum, WorldSame, LedgersSame, world, ghost, Surroundings, Typed, rowvars
<1>2. CASE sess.init
  <2>1. sess' = sess /\ task' = [task EXCEPT ![t] = Idle]
    BY <1>2, Zenon DEF InitStratum, Done, Put
  <2> QED
    BY <1>1, <2>1, MinorSelf, CallKeeps
<1>3. CASE ~sess.init
  <2> DEFINE d == IF agent = "cpuminer" THEN Fallback ELSE sess.diff
             g == GoneTo(r, "announce", d)
  <2>1. sess' = [sess EXCEPT !.init = TRUE, !.diff = d] /\ task' = [task EXCEPT ![t] = g]
    BY <1>3, Zenon DEF InitStratum, Put, GoneTo, r
  <2>2. d \in Nat /\ (agent # "cpuminer" => d = sess.diff)
    BY SessionAssumption DEF SessSet
  <2> HIDE DEF d
  <2> HIDE DEF g
  <2>3. PICK c \in CallSet : /\ c.at = "announce" /\ c.tmpl = r.tmpl
                             /\ task' = [task EXCEPT ![t] = c]
    <3>1. "announce" \in Labels
      BY DEF Labels
    <3>2. g \in CallSet /\ g.at = "announce" /\ g.tmpl = r.tmpl
      BY ONLY <1>0, <2>2, <3>1, GotoWithIs DEF Carries, g
    <3> QED
      BY <2>1, <3>2
  <2>4. sess' \in SessSet /\ sess'.init /\ sess'.diff = d /\ sess'.boundary = sess.boundary
    BY <2>1, <2>2, Welcomed
  <2>5. task' \in [Task -> CallSet] /\ task'[t] = c /\ \A u \in Task \ {t} : task'[u] = task[u]
    BY <2>1, <2>3, PutIs DEF Typed
  <2>6. TasksOK'
    <3>1. TaskOK(c)'
      <4>1. r.tmpl < store.nextTemplate
        BY <1>0 DEF TaskOK
      <4> QED
        BY <1>1, <2>3, <2>4, <4>1 DEF TaskOK
    <3>2. TaskOK(task[t])'
      BY <2>5, <3>1
    <3>3. store'.nextTemplate \in Nat /\ store.nextTemplate <= store'.nextTemplate
      BY <1>1 DEF Typed, Registry
    <3> QED
      BY <1>1, <2>4, <2>5, <3>2, <3>3, TasksStay DEF Parts
  <2>7. JobsOK'
    BY <1>1, <1>3 DEF Parts, SessOK, JobsOK, JobsIn
  <2>8. SessOK'
    BY <1>1, <2>2, <2>4 DEF Parts, SessOK, WorldSame
  <2>9. Typed'
    BY <1>1, <2>4, <2>5, TypedWhen DEF Typed
  <2> QED
    BY <1>1, <2>6, <2>7, <2>8, <2>9 DEF Keeps, Parts, Numbered
<1> QED
  BY <1>2, <1>3

-------------------------------------------------------------------------------
(* The steps that send a job. *)

\* What the job was sent to is as it was, and the ids only grow.
LEMMA SentKeeps ==
    ASSUME Typed, Parts, WorldSame, credits' = credits, NEW t \in Task,
           Given(store, sess', store'),
           \E r : Sent(store, r) /\ task' = [task EXCEPT ![t] = r],
           sess' \in SessSet, sess'.init, Alike(sess', sess), Surroundings'
    PROVE  Keeps
<1>1. PICK r : Sent(store, r) /\ task' = [task EXCEPT ![t] = r]
  OBVIOUS
<1>2. Registry(store) /\ store.nextTemplate \in Nat /\ store.nextJob \in Nat
  BY DEF Typed, Registry
<1>3. sess'.diff = sess.diff /\ sess'.boundary = sess.boundary
  BY DEF Alike
<1> DEFINE s == store
<1>4. /\ Registry(s) /\ store.nextTemplate <= s.nextTemplate /\ store.nextJob <= s.nextJob
      /\ Given(s, sess', store') /\ Sent(s, r)
  BY <1>1, <1>2
<1> HIDE DEF s
<1>5. Parts' /\ Registry(store') /\ task' \in [Task -> CallSet]
  BY <1>1, <1>3, <1>4, GivenKeeps
<1>6. Typed'
  BY <1>5, TypedWhen DEF Typed
<1>7. Numbered => Numbered'
  BY <1>2 DEF Numbered, Given, Registry
<1> QED
  BY <1>5, <1>6, <1>7 DEF Keeps

LEMMA ReadyFor ==
    ASSUME Typed, Parts, Numbered, NEW x \in SessSet, x.init, Alike(x, sess)
    PROVE  JobReady(store, x)
<1>1. JobsIn(store, x)
  BY JobsAlike DEF Parts, JobsOK
<1>2. store.nextJob \in Nat \ {0} /\ credits \in [1..MaxJobs -> [Quality -> Nat]]
      /\ Registry(store) /\ MaxJobs \in Nat
  BY SessionAssumption DEF Typed, Registry
<1>3. store.nextJob <= MaxJobs => \A q \in Quality : credits[store.nextJob][q] = 0
  <2> SUFFICES ASSUME store.nextJob <= MaxJobs, NEW q \in Quality
               PROVE  credits[store.nextJob][q] = 0
    OBVIOUS
  <2> DEFINE j == store.nextJob
  <2>1. j \in 1..MaxJobs /\ ~(j < j)
    BY <1>2
  <2>2. credits[j][q] \in Nat /\ ~(credits[j][q] > 0)
    BY <1>2, <2>1 DEF Numbered
  <2> QED
    BY <2>2
<1> QED
  BY <1>1, <1>2, <1>3 DEF JobReady, Alike, Parts, SessOK

LEMMA NewestIs == Typed => Newest \in Nat /\ Newest < store.nextTemplate
  BY DEF Newest, Typed, Registry

LEMMA SendKeeps ==
    ASSUME Typed, Parts, Numbered, WorldSame, credits' = credits, NEW t \in Task,
           NEW call \in CallSet, NEW back \in Backs, SendJob(store, t, call, Newest, back),
           sess' \in SessSet, sess'.init, Alike(sess', sess), Surroundings'
    PROVE  Keeps
<1>1. JobReady(store, sess')
  BY ReadyFor
<1>2. Newest \in Nat /\ Newest < store.nextTemplate
  BY NewestIs
<1>3. Given(store, sess', store') /\ \E r : Sent(store, r) /\ task' = [task EXCEPT ![t] = r]
  BY <1>1, <1>2, SendJobSends
<1> QED
  BY <1>3, SentKeeps

LEMMA SendSteps ==
    ASSUME Typed, Parts, Numbered, NEW t \in Task,
           Ratcheted(t) \/ Listen(t) \/ Authorized(t) \/ Refresh(t) \/ Distribution(t)
    PROVE  Keeps /\ LedgersSame
<1> DEFINE r == task[t]
<1> HIDE DEF r
<1> TaskOK(Idle) /\ Idle \in CallSet /\ sess \in SessSet /\ Minor(sess, sess)
  BY IdleOK, IdleIs, MinorSelf DEF Typed
<1> "idle" \in Backs /\ "online" \in Backs /\ "online" \in Labels
  BY DEF Backs, Labels
<1>0. r \in CallSet /\ TaskOK(r)
  BY TheCall DEF r
<1>1. /\ WorldSame /\ credits' = credits /\ LedgersSame
  BY DEF Ratcheted, Listen, Authorized, Refresh, Distribution, WorldSame, LedgersSame,
         world, ghost
<1>2. r.diff \in Nat /\ r.back \in Backs
  BY <1>0 DEF CallSet
<1>3. Surroundings'
  <2>1. destroys' \subseteq destroys \cup {"bury"}
    BY DEF Ratcheted, Listen, Authorized, Refresh, Distribution, SendJob, Notify, Write
  <2>2. told' \in {told, r.diff}
    BY DEF Ratcheted, Listen, Authorized, Refresh, Distribution, r
  <2>3. UNCHANGED <<clock, sock, late, registered, rowvars>>
    BY DEF Ratcheted, Listen, Authorized, Refresh, Distribution
  <2> QED
    BY <1>2, <2>1, <2>2, <2>3 DEF Surroundings, Typed, rowvars
<1>4. CASE Ratcheted(t)
  <2>1. sess' = sess /\ r.at = "ratchet"
    BY <1>4 DEF Ratcheted, r
  <2>2. sess.init
    BY <1>0, <2>1 DEF TaskOK, Early
  <2>3. CASE Writable
    <3>1. SendJob(store, t, r, Newest, r.back)
      BY <1>4, <2>3, Zenon DEF Ratcheted, r
    <3> QED
      BY <1>0, <1>1, <1>2, <1>3, <2>1, <2>2, <3>1, SendKeeps DEF Minor
  <2>4. CASE ~Writable
    <3>1. /\ store' = store
          /\ task' = [task EXCEPT ![t] = IF r.back = "idle" THEN Idle ELSE [r EXCEPT !.at = r.back]]
      BY <1>4, <2>4, Zenon DEF Ratcheted, Put, r
    <3>2. CASE r.back = "idle"
      <4>1. task' = [task EXCEPT ![t] = Idle]
        BY <3>1, <3>2, Zenon
      <4> QED
        BY <1>1, <1>3, <2>1, <3>1, <4>1, CallKeeps
    <3>3. CASE r.back = "online"
      <4> DEFINE c == [r EXCEPT !.at = "online"]
      <4>1. task' = [task EXCEPT ![t] = c]
        BY <3>1, <3>3
      <4> HIDE DEF c
      <4>2. c \in CallSet /\ c.at = "online" /\ c.tmpl = r.tmpl
        BY <1>0, GotoIs DEF Carries, c
      <4>3. TaskOK(c)
        BY <1>0, <2>2, <4>2, PlainOK DEF Plain, Labels, TaskOK
      <4> QED
        BY <1>1, <1>3, <2>1, <3>1, <4>1, <4>2, <4>3, CallKeeps
    <3> QED
      BY <1>2, <3>2, <3>3 DEF Backs
  <2> QED
    BY <1>1, <2>3, <2>4
<1>5. CASE Listen(t)
  <2>1. sess' \in SessSet /\ Alike(sess', sess)
    BY <1>5, Listening DEF Listen
  <2>2. r.at = "listen" /\ SendJob(store, t, [Idle EXCEPT !.line = TRUE], Newest, "idle")
    BY <1>5 DEF Listen, r
  <2>3. sess'.init
    BY <1>0, <2>1, <2>2 DEF TaskOK, Early, Alike
  <2>4. [Idle EXCEPT !.line = TRUE] \in CallSet
    BY IdleIs
  <2> QED
    BY <1>1, <1>3, <2>1, <2>2, <2>3, <2>4, SendKeeps
<1>6. CASE Authorized(t)
  <2>1. sess' = sess /\ r.at = "authorized"
    BY <1>6 DEF Authorized, r
  <2>2. CASE sess.init
    <3>1. SendJob(store, t, r, Newest, "online")
      BY <1>6, <2>2, Zenon DEF Authorized, r
    <3> QED
      BY <1>0, <1>1, <1>3, <2>1, <2>2, <3>1, SendKeeps DEF Minor
  <2>3. CASE ~sess.init
    <3> DEFINE c == [r EXCEPT !.at = "online"]
    <3>1. task' = [task EXCEPT ![t] = c] /\ store' = store
      BY <1>6, <2>3, Zenon DEF Authorized, Goto, Put, r
    <3> HIDE DEF c
    <3>2. c \in CallSet /\ c.at = "online" /\ c.tmpl = r.tmpl
      BY <1>0, GotoIs DEF Carries, c
    <3>3. TaskOK(c)
      BY <1>0, <3>2, PlainOK DEF Plain, Labels, TaskOK, Early
    <3> QED
      BY <1>1, <1>3, <2>1, <3>1, <3>2, <3>3, CallKeeps
  <2> QED
    BY <2>2, <2>3
<1>7. CASE Refresh(t)
  <2>1. sess' = sess /\ sess.listening /\ SendJob(store, t, Idle, Newest, "idle")
    BY <1>7 DEF Refresh
  <2>2. sess.init
    BY <2>1 DEF Parts, SessOK, SessSet
  <2> QED
    BY <1>1, <1>3, <2>1, <2>2, SendKeeps DEF Minor
<1>8. CASE Distribution(t)
  <2>1. sess' = sess /\ r.at = "distribution" /\ Notify(store, t, r)
    BY <1>8 DEF Distribution, r
  <2>2. sess.init /\ CallReady(store, r)
    BY <1>0, <2>1 DEF TaskOK, Early, CallReady
  <2>3. JobReady(store, sess)
    BY <2>2, ReadyFor DEF Minor
  <2>4. Given(store, sess, store')
    BY <2>1, <2>2, <2>3, NotifyGives
  <2>5. \E c : Sent(store, c) /\ task' = [task EXCEPT ![t] = c]
    BY <2>1, <2>2, NotifySends DEF Typed
  <2> QED
    BY <1>1, <1>3, <2>1, <2>2, <2>4, <2>5, SentKeeps DEF Minor
<1> QED
  BY <1>4, <1>5, <1>6, <1>7, <1>8

-------------------------------------------------------------------------------
(* The steps of a share, from the line to the answer. *)

LEMMA JudgeKeeps ==
    ASSUME Typed, Parts, NEW t \in Task, NEW j \in 1..MaxJobs, NEW q \in Quality,
           Judge(t, j, q), sess.init, WorldSame, store' = store, Surroundings'
    PROVE  Keeps
<1>1. Judged(t, j, q)
  BY JudgeIs
<1>2. /\ Parts' /\ sess' \in SessSet /\ task' \in [Task -> CallSet]
      /\ credits' \in [1..MaxJobs -> [Quality -> Nat]]
  BY <1>1, JudgedKeeps
<1>3. Typed'
  BY <1>2, TypedWhen DEF Typed
<1>4. ASSUME Numbered PROVE Numbered'
  <2>1. CASE credits' = credits
    BY <1>4, <2>1 DEF Numbered
  <2>2. CASE Creditable(j, q) /\ credits' = [credits EXCEPT ![j][q] = @ + 1]
    <3>1. j < store.nextJob
      BY <2>2 DEF Creditable, Typed, Registry
    <3>2. ASSUME NEW k \in 1..MaxJobs, NEW p \in Quality, k # j
          PROVE  credits'[k][p] = credits[k][p]
      BY <2>2, <3>2 DEF Typed
    <3> QED
      BY <1>4, <3>1, <3>2 DEF Numbered
  <2> QED
    BY <1>1, <2>1, <2>2 DEF Judged
<1> QED
  BY <1>2, <1>3, <1>4 DEF Keeps

LEMMA ShareSteps ==
    ASSUME Typed, Parts, NEW t \in Task,
           Awaited(t) \/ \E j \in Issued, q \in Quality : Submit(t, j, q)
    PROVE  Keeps /\ LedgersSame
<1> DEFINE r == task[t]
<1> HIDE DEF r
<1> TaskOK(Idle) /\ Idle \in CallSet /\ sess \in SessSet
  BY IdleOK, IdleIs DEF Typed
<1>0. r \in CallSet /\ TaskOK(r)
  BY TheCall DEF r
<1>1. WorldSame /\ store' = store /\ LedgersSame
  BY DEF Awaited, Submit, WorldSame, LedgersSame, world
<1>2. Surroundings'
  <2>1. destroys' \subseteq destroys \cup {"bury"}
    <3>1. \A j, q : Judge(t, j, q) => destroys' = destroys \/ Write(Writable)
      BY Zenon DEF Judge
    <3>2. destroys' = destroys \/ Write(Writable)
      BY <3>1, Zenon DEF Awaited, Submit
    <3> QED
      BY <3>2 DEF Write
  <2>2. sock' \in {sock, "ended"}
    BY DEF Awaited, Submit, EndSocket
  <2>3. UNCHANGED <<clock, late, registered, rowvars, told>>
    BY DEF Awaited, Submit
  <2> QED
    BY <2>1, <2>2, <2>3 DEF Surroundings, Typed, rowvars
<1>3. CASE Awaited(t)
  <2>1. r.at = "await"
    BY <1>3 DEF Awaited, r
  <2>2. r.job \in 1..MaxJobs /\ r.q \in Quality /\ sess.init
    BY <1>0, <2>1 DEF TaskOK, Early
  <2>3. CASE Judge(t, r.job, r.q)
    <3>1. \A j \in 1..MaxJobs, q \in Quality : Judge(t, j, q) => Keeps
      BY <1>1, <1>2, <2>2, JudgeKeeps
    <3> QED
      BY <1>1, <2>2, <2>3, <3>1
  <2>4. CASE task' = [task EXCEPT ![t] = Idle] /\ sess' = sess /\ credits' = credits
    BY <1>1, <1>2, <2>4, MinorSelf, CallKeeps
  <2> QED
    BY <1>3, <2>3, <2>4, Zenon DEF Awaited, Done, Put, r
<1>4. ASSUME NEW j \in Issued, NEW q \in Quality, Submit(t, j, q) PROVE Keeps
  <2>1. sess.init /\ j \in 1..MaxJobs /\ j \in Nat /\ q \in Nat
    <3>1. sess.init
      BY <1>4 DEF Submit
    <3>2. j \in 1..MaxJobs
      BY DEF Issued
    <3>3. q \in Nat
      BY SessionAssumption
    <3> QED
      BY <3>1, <3>2, <3>3
  <2>2. CASE sess.entity
    <3>1. Judge(t, j, q)
      BY <1>4, <2>2 DEF Submit
    <3> QED
      BY <1>1, <1>2, <2>1, <3>1, JudgeKeeps
  <2>3. CASE ~sess.entity
    <3> DEFINE x == IF sess.creating = "none" THEN "create" ELSE "await"
               p == IF sess.creating = "none" THEN "pending" ELSE sess.creating
    <3>1. x \in Labels /\ x \in {"create", "await"}
      BY DEF Labels
    <3>2. p \in {"none", "pending", "done", "failed"}
      BY DEF SessSet
    <3>3. /\ task' = [task EXCEPT ![t] = Waiting(x, j, q)]
          /\ sess' = [sess EXCEPT !.creating = p] /\ credits' = credits
      BY <1>4, <2>3, Zenon DEF Submit, Put, Waiting
    <3> HIDE DEF x, p
    <3>4. PICK c \in CallSet : /\ task' = [task EXCEPT ![t] = c]
                               /\ c.at = x /\ c.tmpl = 0 /\ c.job = j /\ c.q = q
      <4> DEFINE w == Waiting(x, j, q)
      <4>1. w \in CallSet /\ w.at = x /\ w.tmpl = 0 /\ w.job = j /\ w.q = q
        BY ONLY <2>1, <3>1, WaitingIs
      <4>2. task' = [task EXCEPT ![t] = w]
        BY <3>3
      <4> HIDE DEF w
      <4> QED
        BY <4>1, <4>2
    <3>5. TaskOK(c)
      BY <2>1, <3>1, <3>4 DEF TaskOK, Typed, Registry
    <3>6. Minor(sess', sess)
      BY <3>2, <3>3, MinorEdits
    <3> QED
      BY <1>1, <1>2, <3>3, <3>4, <3>5, <3>6, CallKeeps
  <2> QED
    BY <2>2, <2>3
<1> QED
  BY <1>1, <1>3, <1>4

\* A job whose template is gone is taken out.
LEMMA RejectSteps ==
    ASSUME Typed, Parts, NEW t \in Task, Reject(t)
    PROVE  Keeps /\ LedgersSame
<1> DEFINE r == task[t]
           D == DOMAIN store.jobs \ {r.job}
           J == [j \in D |-> store.jobs[j]]
<1> HIDE DEF r
<1> TaskOK(Idle) /\ Idle \in CallSet /\ sess \in SessSet
  BY IdleOK, IdleIs DEF Typed
<1>0. r \in CallSet /\ TaskOK(r)
  BY TheCall DEF r
<1>1. /\ WorldSame /\ credits' = credits /\ LedgersSame /\ Surroundings' /\ sess' = sess
  BY DEF Reject, Write, WorldSame, LedgersSame, world, ghost, Surroundings, Typed, rowvars
<1>2. store' = store \/ store' = [store EXCEPT !.jobs = J]
  BY Zenon DEF Reject, r
<1>3. task' = [task EXCEPT ![t] = Idle]
  BY Zenon DEF Reject, Done, Put
<1>4. CASE store' = store
  BY <1>1, <1>3, <1>4, MinorSelf, CallKeeps
<1>5. CASE store' = [store EXCEPT !.jobs = J]
  <2>1. /\ DOMAIN J \subseteq DOMAIN store.jobs
        /\ \A j \in DOMAIN J : J[j] = store.jobs[j]
    BY DEF J
  <2> HIDE DEF J
  <2>2. PICK a, b, c, d, e : store = [templates |-> a, jobs |-> b, nextTemplate |-> c,
                                      nextJob |-> d, tip |-> e]
    BY DEF Typed, Registry
  <2>3. store' = [templates |-> a, jobs |-> J, nextTemplate |-> c, nextJob |-> d, tip |-> e]
    BY ONLY <1>5, <2>2
  <2>4. /\ store'.jobs = J /\ store'.templates = store.templates
        /\ store'.nextTemplate = store.nextTemplate /\ store'.nextJob = store.nextJob
        /\ store'.tip = store.tip
    BY ONLY <2>2, <2>3
  <2>5. Registry(store')
    <3>1. store' = [templates |-> store'.templates, jobs |-> store'.jobs,
                    nextTemplate |-> store'.nextTemplate, nextJob |-> store'.nextJob,
                    tip |-> store'.tip]
      BY ONLY <2>3
    <3>2. ASSUME NEW j \in DOMAIN J PROVE j \in 1..MaxJobs /\ j < store.nextJob /\ J[j] \in JobSet
      BY <2>1 DEF Typed, Registry
    <3> QED
      BY <2>4, <3>1, <3>2 DEF Typed, Registry
  <2>6. JobsIn(store', sess)
    <3> SUFFICES ASSUME NEW j \in DOMAIN J PROVE JobOK(store', sess, j, J[j])
      BY <2>4 DEF JobsIn
    <3> DEFINE job == J[j]
    <3> HIDE DEF job
    <3>1. JobOK(store, sess, j, job)
      BY <2>1 DEF job, Parts, JobsOK, JobsIn
    <3>2. JobOK(store', sess, j, job)
      BY <2>4, <3>1 DEF JobOK, StampOK
    <3> QED
      BY <3>2 DEF job
  <2>7. JobsOK'
    <3>1. \A p, x : JobsIn(p, x) => JobsIn(p, x)'
      BY <1>1, JobsStay
    <3> QED
      BY <1>1, <2>6, <3>1 DEF JobsOK
  <2>8. SessOK'
    BY <1>1, <2>1, <2>4 DEF Parts, SessOK, WorldSame
  <2>9. task' \in [Task -> CallSet] /\ task'[t] = Idle /\ \A u \in Task \ {t} : task'[u] = task[u]
    BY <1>3, PutIs DEF Typed
  <2>10. TasksOK'
    <3>1. TaskOK(task[t])'
      BY <2>4, <2>9, IdleIs DEF TaskOK, Typed, Registry, Early
    <3> QED
      BY <1>1, <2>4, <2>9, <3>1, TasksStay DEF Parts, Typed, Registry
  <2>11. Typed'
    BY <1>1, <2>5, <2>9, TypedWhen DEF Typed
  <2>12. Numbered => Numbered'
    BY <1>1, <2>4 DEF Numbered
  <2> QED
    BY <1>1, <2>7, <2>8, <2>10, <2>11, <2>12 DEF Keeps, Parts
<1> QED
  BY <1>2, <1>4, <1>5

-------------------------------------------------------------------------------
(* Templates, and changes of a membership. *)

LEMMA TemplateSteps ==
    ASSUME Typed, Parts, sess.listening => Numbered, NEW t \in Task, NEW tip \in {store.tip, store.tip + 1},
           Template(t, tip)
    PROVE  Keeps /\ LedgersSame
<1> DEFINE p == NewTemplate(store, tip, clock)
           clears == ClearsJobs(store, tip)
           m == store.nextTemplate
<1> Idle \in CallSet /\ sess \in SessSet
  BY IdleIs DEF Typed
<1>1. /\ WorldSame /\ credits' = credits /\ LedgersSame
  BY DEF Template, WorldSame, LedgersSame, world, ghost
<1>2. Surroundings'
  <2>1. destroys' \subseteq destroys \cup {"bury"}
    BY DEF Template, SendJob, Notify, Write
  <2>2. UNCHANGED <<clock, sock, late, registered, rowvars, told>>
    BY DEF Template
  <2> QED
    BY <2>1, <2>2 DEF Surroundings, Typed, rowvars
<1>3. \/ /\ sess.listening /\ sess' = [sess EXCEPT !.seen = Seen(clears)]
         /\ SendJob(p, t, Idle, m, "idle")
      \/ ~sess.listening /\ store' = p /\ UNCHANGED <<sess, task, destroys>>
  BY Zenon DEF Template
<1> HIDE DEF p, clears, m
<1>4. tip \in Nat /\ Registry(store) /\ m \in Nat /\ m = store.nextTemplate
  BY DEF Typed, Registry, m
<1>5. ASSUME NEW x, x.diff = sess.diff, x.old = sess.old, x.boundary = sess.boundary,
             x.changes = sess.changes, ~clears => x.seen = sess.seen
      PROVE  /\ Registry(p) /\ p.nextTemplate = m + 1
             /\ p.nextJob = store.nextJob /\ JobsIn(p, x)
             /\ DOMAIN p.jobs \subseteq DOMAIN store.jobs
  BY <1>4, <1>5, PublishedIs DEF p, clears
<1>6. /\ Registry(p) /\ p.nextTemplate = m + 1 /\ p.nextJob = store.nextJob
      /\ JobsIn(p, sess) /\ DOMAIN p.jobs \subseteq DOMAIN store.jobs
  BY <1>5
<1>7. CASE /\ sess.listening /\ sess' = [sess EXCEPT !.seen = Seen(clears)]
           /\ SendJob(p, t, Idle, m, "idle")
  <2> DEFINE S == Seen(clears)
  <2>1. S \in SUBSET ((1..MaxJobs) \X Quality) /\ (~clears => S = sess.seen)
    BY DEF Seen, SessSet
  <2> HIDE DEF S
  <2>2. /\ sess' \in SessSet /\ sess'.init = sess.init /\ sess'.diff = sess.diff
        /\ sess'.old = sess.old /\ sess'.boundary = sess.boundary
        /\ sess'.changes = sess.changes /\ sess'.seen = S
    BY <1>7, <2>1, Seeing DEF S
  <2>3. JobsIn(p, sess')
    <3>1. \A x : (/\ x.diff = sess.diff /\ x.old = sess.old /\ x.boundary = sess.boundary
                  /\ x.changes = sess.changes /\ (~clears => x.seen = sess.seen))
                 => JobsIn(p, x)
      BY <1>5
    <3> QED
      BY <2>1, <2>2, <3>1
  <2>4. sess.init /\ JobReady(store, sess)
    <3>1. sess.init
      BY <1>7 DEF Parts, SessOK, SessSet
    <3> QED
      BY <1>7, <3>1, ReadyFor, MinorSelf DEF Minor
  <2>5. JobReady(p, sess')
    BY <1>6, <2>2, <2>3, <2>4 DEF JobReady
  <2>6. m < p.nextTemplate /\ "idle" \in Backs
    BY <1>4, <1>6 DEF Backs
  <2>7. Given(p, sess', store') /\ \E r : Sent(p, r) /\ task' = [task EXCEPT ![t] = r]
    BY <1>4, <1>7, <2>5, <2>6, SendJobSends
  <2>8. PICK r : Sent(p, r) /\ task' = [task EXCEPT ![t] = r]
    BY <2>7
  <2>9. store.nextTemplate <= p.nextTemplate /\ store.nextJob <= p.nextJob
    BY <1>4, <1>6 DEF Registry
  <2>10. Parts' /\ Registry(store') /\ task' \in [Task -> CallSet]
    BY <1>1, <1>6, <2>2, <2>4, <2>7, <2>8, <2>9, GivenKeeps
  <2>11. Typed'
    BY <1>1, <1>2, <2>2, <2>10, TypedWhen DEF Typed
  <2>12. Numbered => Numbered'
    BY <1>1, <1>4, <1>6, <2>7 DEF Numbered, Given, Registry
  <2> QED
    BY <1>1, <2>10, <2>11, <2>12 DEF Keeps
<1>8. CASE ~sess.listening /\ store' = p /\ UNCHANGED <<sess, task, destroys>>
  <2>1. JobsOK'
    <3>1. \A s, x : JobsIn(s, x) => JobsIn(s, x)'
      BY <1>1, JobsStay
    <3> QED
      BY <1>6, <1>8, <3>1 DEF JobsOK
  <2>2. SessOK'
    BY <1>1, <1>6, <1>8 DEF Parts, SessOK, WorldSame
  <2>3. TasksOK'
    <3>1. store'.nextTemplate \in Nat /\ store.nextTemplate <= store'.nextTemplate
      BY <1>4, <1>6, <1>8
    <3>2. \A r \in CallSet : TaskOK(r) => TaskOK(r)'
      BY <1>1, <1>4, <1>8, <3>1, TaskStays
    <3> QED
      BY <1>8, <3>2, TheCall DEF TasksOK
  <2>4. Typed'
    BY <1>1, <1>2, <1>6, <1>8, TypedWhen DEF Typed
  <2>5. Numbered => Numbered'
    BY <1>1, <1>6, <1>8 DEF Numbered
  <2> QED
    BY <1>1, <2>1, <2>2, <2>3, <2>4, <2>5 DEF Keeps, Parts
<1> QED
  BY <1>3, <1>7, <1>8

\* What is older than the change need not be what is paid now.
LEMMA MoveSteps ==
    ASSUME Typed, Parts, NEW a \in Address, NEW k \in Kinds, Move(a, k)
    PROVE  Keeps /\ LedgersSame
<1>1. /\ epoch' = epoch + 1 /\ epoch \in Nat /\ LedgersSame
      /\ UNCHANGED <<clock, store, port, agent, sess, sock, late, task, destroys, registered,
                     row, beat, told, credits>>
  BY DEF Move, Typed, LedgersSame, ghost, rowvars
<1>2. ASSUME NEW r, Honest(r), r.epoch \in Nat PROVE Honest(r)'
  BY <1>1, <1>2 DEF Honest
<1>3. TasksOK'
  <2> SUFFICES ASSUME NEW t \in Task PROVE TaskOK(task[t])'
    BY DEF TasksOK
  <2> DEFINE r == task[t]
  <2> HIDE DEF r
  <2>1. r \in CallSet /\ TaskOK(r) /\ r' = r
    BY <1>1, TheCall DEF r
  <2>2. Honest(r) => Honest(r)'
    <3>1. r.epoch \in Nat
      BY <2>1 DEF CallSet
    <3>2. \A x : Honest(x) /\ x.epoch \in Nat => Honest(x)'
      BY <1>2
    <3> QED
      BY <2>1, <3>1, <3>2
  <2>3. TaskOK(r)'
    BY <1>1, <2>1, <2>2 DEF TaskOK
  <2> QED
    BY <2>3 DEF r
<1>4. JobsOK'
  <2> SUFFICES ASSUME NEW j \in DOMAIN store.jobs PROVE JobOK(store, sess, j, store.jobs[j])'
    BY <1>1 DEF JobsOK, JobsIn
  <2> DEFINE job == store.jobs[j]
  <2> HIDE DEF job
  <2>1. job' = job /\ JobOK(store, sess, j, job) /\ job \in JobSet
    BY <1>1 DEF job, JobsOK, JobsIn, Parts, Typed, Registry
  <2>2. Honest(job)'
    <3>1. job.epoch \in Nat /\ Honest(job)
      BY <2>1 DEF JobSet, JobOK
    <3>2. \A x : Honest(x) /\ x.epoch \in Nat => Honest(x)'
      BY <1>2
    <3> QED
      BY <2>1, <3>1, <3>2
  <2>3. StampOK(store, job)' /\ TargetOK(sess, j, job)' /\ SeenOK(sess, j, job)'
    BY <1>1, <2>1 DEF JobOK, StampOK, TargetOK, SeenOK
  <2>4. JobOK(store, sess, j, job)'
    BY <1>1, <2>1, <2>2, <2>3 DEF JobOK
  <2> QED
    BY <2>4 DEF job
<1>5. SessOK'
  BY <1>1 DEF Parts, SessOK
<1>6. Typed'
  <2>1. membership' \in [Address -> Kinds]
    BY DEF Move, Typed
  <2> QED
    BY <1>1, <2>1 DEF Typed, Registry
<1>7. Numbered => Numbered'
  BY <1>1 DEF Numbered
<1> QED
  BY <1>1, <1>3, <1>4, <1>5, <1>6, <1>7 DEF Keeps, Parts

-------------------------------------------------------------------------------
(* The end of a process, and what follows it. *)

LEMMA EmptyIs ==
    /\ Registry(EmptyStore) /\ DOMAIN EmptyStore.jobs = {}
    /\ EmptyStore.nextTemplate = 1 /\ EmptyStore.nextJob = 1 /\ EmptyStore.tip = 0
<1>1. /\ EmptyStore.jobs = << >> /\ EmptyStore.templates = << >>
      /\ EmptyStore.nextTemplate = 1 /\ EmptyStore.nextJob = 1 /\ EmptyStore.tip = 0
  BY DEF EmptyStore
<1>2. EmptyStore = [templates |-> EmptyStore.templates, jobs |-> EmptyStore.jobs,
                    nextTemplate |-> EmptyStore.nextTemplate,
                    nextJob |-> EmptyStore.nextJob, tip |-> EmptyStore.tip]
  BY DEF EmptyStore
<1>3. DOMAIN EmptyStore.jobs = {} /\ DOMAIN EmptyStore.templates = {}
  BY <1>1
<1> QED
  BY <1>1, <1>2, <1>3 DEF Registry

LEMMA RestartSteps ==
    ASSUME Typed, Parts, Restart
    PROVE  Typed' /\ Parts' /\ Dead' /\ LedgersSame
<1>1. sess \in SessSet /\ Idle \in CallSet /\ Idle.at = "idle" /\ Idle.tmpl = 0
  BY IdleIs DEF Typed
<1>2. /\ sess' \in SessSet /\ ~sess'.listening /\ ~sess'.ticking /\ sess'.boundary = 0
      /\ sess'.init = sess.init /\ sess'.diff = sess.diff
  <2>1. sess' = [sess EXCEPT !.listening = FALSE, !.ticking = FALSE, !.auth = None,
                             !.boundary = 0]
    BY Zenon DEF Restart
  <2> QED
    BY <1>1, <2>1, Stopped
<1>3. /\ store' = EmptyStore /\ task' = [t \in Task |-> Idle] /\ sock' = "closed"
      /\ late' = FALSE /\ destroys' = {} /\ WorldSame /\ credits' = credits /\ LedgersSame
  BY DEF Restart, WorldSame, LedgersSame, world, ghost
<1>4. Surroundings'
  <2>1. row' \in {"none", "queued", "live", "dead", "lost"}
    BY DEF Restart, Buried, Typed
  <2>2. registered' = {} /\ beat' = FALSE /\ UNCHANGED <<clock, told>>
    BY DEF Restart
  <2> QED
    BY <1>3, <2>1, <2>2 DEF Surroundings, Typed
<1>5. Typed'
  BY <1>1, <1>2, <1>3, <1>4, EmptyIs, TypedWhen DEF Typed
<1>6. Dead'
  BY <1>2, <1>3, EmptyIs DEF Dead
<1>7. TasksOK'
  BY <1>1, <1>3, EmptyIs DEF TasksOK, TaskOK, Early
<1>8. JobsOK'
  BY <1>3, EmptyIs DEF JobsOK, JobsIn
<1>9. SessOK'
  BY <1>2, <1>3, EmptyIs DEF Parts, SessOK, WorldSame
<1> QED
  BY <1>3, <1>5, <1>6, <1>7, <1>8, <1>9 DEF Parts

\* Of a session that does nothing any more only the surroundings move.
LEMMA DeadSteps ==
    ASSUME Typed, Parts, Dead, Next
    PROVE  Typed' /\ Parts' /\ Dead' /\ LedgersSame
<1>1. /\ sock = "closed" /\ ~late /\ ~sess.listening /\ ~sess.ticking /\ destroys = {}
      /\ DOMAIN store.jobs = {} /\ Idle.at = "idle" /\ \A t \in Task : task[t] = Idle
  BY IdleIs DEF Dead
<1>2. \A t, event : ~Line(t, event)
  BY <1>1 DEF Line
<1>3. ASSUME NEW t \in Task
      PROVE  ~Resume(t) /\ ~Message(t) /\ ~Faults(t) /\ \A r \in Rates : ~Check(t, r)
  <2>1. task[t].at = "idle" /\ ~sess.listening /\ ~sess.ticking
    BY <1>1
  <2>2. ~Resume(t)
    BY <2>1 DEF Resume, InitStratum, Announce, Listen, Authorized, Online, AnswerSuggest,
                Ratcheted, Distribution, Refresh, Create, Created, Awaited, Reject,
                SubmitBlock, BookBlock, RecordShare, Tail
  <2>3. ~Message(t)
    BY <1>2, Zenon DEF Message, Subscribe, AuthorizeInvalid, SubmitEarly, Authorize, Suggest, Submit
  <2>4. ~Faults(t) /\ \A r \in Rates : ~Check(t, r)
    BY <2>1 DEF Faults, NoDistribution, CreateFails, RecordFails, Check
  <2> QED
    BY <2>2, <2>3, <2>4
<1>4. ~Close /\ ~Ended /\ ~Bury /\ ~Release
  BY <1>1 DEF Close, Ended, Bury, Release
<1>5. CASE \E t \in Task, tip \in {store.tip, store.tip + 1} : Template(t, tip)
  <2>1. PICK t \in Task, tip \in {store.tip, store.tip + 1} : Template(t, tip)
    BY <1>5
  <2>2. Keeps /\ LedgersSame
    BY <1>1, <2>1, TemplateSteps
  <2>3. /\ store' = NewTemplate(store, tip, clock)
        /\ UNCHANGED <<sess, task, destroys, sock, late>>
    BY <1>1, <2>1, Zenon DEF Template
  <2>4. DOMAIN store'.jobs = {}
    <3> DEFINE p == NewTemplate(store, tip, clock)
    <3>1. Registry(store) /\ clock \in Nat /\ tip \in Nat
      BY DEF Typed, Registry
    <3>2. \A j \in DOMAIN p.jobs : j \in DOMAIN store.jobs
      BY <3>1, NewTemplateIs
    <3> QED
      BY <1>1, <2>3, <3>2
  <2> QED
    BY <1>1, <2>2, <2>3, <2>4 DEF Keeps, Dead
<1>6. CASE Rows \/ Tick
  <2>1. Keeps /\ LedgersSame
    BY <1>6, RowSteps
  <2>2. UNCHANGED <<store, sess, task, destroys, sock, late>>
    BY <1>6 DEF Rows, Tick, InsertClients, InsertFails, FlushHeartbeats, KillDeadClients,
                DeleteOldClients, RowStep
  <2> QED
    BY <2>1, <2>2 DEF Keeps, Dead
<1>7. CASE \E a \in Address : ResetClients(a)
  <2>1. Keeps /\ LedgersSame
    BY <1>7, SocketSteps
  <2>2. UNCHANGED <<store, sess, task, destroys, sock, late>>
    BY <1>1, <1>7 DEF ResetClients, EndSocket
  <2> QED
    BY <2>1, <2>2 DEF Keeps, Dead
<1>8. CASE \E a \in Address, k \in Kinds : Move(a, k)
  <2>1. Keeps /\ LedgersSame
    BY <1>8, MoveSteps
  <2>2. UNCHANGED <<store, sess, task, destroys, sock, late>>
    BY <1>8 DEF Move
  <2> QED
    BY <2>1, <2>2 DEF Keeps, Dead
<1>9. CASE Restart
  BY <1>9, RestartSteps
<1> QED
  BY <1>3, <1>4, <1>5, <1>6, <1>7, <1>8, <1>9, Zenon DEF Next, Timed

-------------------------------------------------------------------------------
(* The first state. *)

LEMMA FreshIs ==
    /\ Fresh \in SessSet /\ ~Fresh.init /\ ~Fresh.listening /\ ~Fresh.ticking
    /\ Fresh.boundary = 0 /\ Fresh.diff = InitialDiff
<1>1. InitialDiff \in Nat
  BY SessionAssumption
<1> QED
  BY <1>1 DEF Fresh, SessSet

LEMMA MiningIs ==
    ASSUME NEW a \in Address, NEW shared \in BOOLEAN
    PROVE  LET x == Mining(a, shared)
           IN  x \in SessSet /\ x.init /\ x.boundary = 0 /\ x.diff = InitialDiff /\ x.changes = 0
<1>1. InitialDiff \in Nat
  BY SessionAssumption
<1> DEFINE c == IF shared THEN "done" ELSE "none"
           n == IF shared THEN 1 ELSE 0
           x == [Fresh EXCEPT !.started = TRUE, !.init = TRUE, !.auth = a, !.entity = shared,
                              !.creating = c, !.accepted = n,
                              !.listening = TRUE, !.ticking = TRUE, !.online = TRUE]
<1>2. c \in {"none", "pending", "done", "failed"} /\ n \in Nat
  OBVIOUS
<1>3. Mining(a, shared) = x
  BY Zenon DEF Mining
<1> HIDE DEF c, n
<1>4. x \in SessSet
  BY <1>1, <1>2 DEF Fresh, SessSet
<1>5. x.init /\ x.boundary = 0 /\ x.diff = InitialDiff /\ x.changes = 0
  BY DEF Fresh
<1> QED
  BY <1>3, <1>4, <1>5

LEMMA FirstJobIs ==
    ASSUME NEW p \in {"solo", "pplns"}, NEW a \in Address
    PROVE  LET job == FirstJob(p, a)
           IN  /\ job \in JobSet /\ job.tmpl = 1 /\ job.retired = Active /\ job.epoch = 0
               /\ job.route = p /\ job.addr = a /\ job.asked = InitialDiff /\ job.changes = 0
<1>1. InitialDiff \in Nat
  BY SessionAssumption
<1> DEFINE route == IF p = "pplns" THEN p ELSE "solo"
           job == [NoJob EXCEPT !.tmpl = 1, !.route = route, !.addr = a,
                                !.asked = InitialDiff, !.clean = TRUE]
<1>2. route = p /\ p \in Schemes
  BY DEF Schemes
<1>3. FirstJob(p, a) = job
  BY Zenon DEF FirstJob
<1> HIDE DEF route
<1>4. job \in JobSet
  BY <1>1, <1>2 DEF NoJob, JobSet, Stamp
<1>5. /\ job.tmpl = 1 /\ job.retired = Active /\ job.epoch = 0 /\ job.route = route
      /\ job.addr = a /\ job.asked = InitialDiff /\ job.changes = 0
  BY DEF NoJob
<1> QED
  BY <1>2, <1>3, <1>4, <1>5

LEMMA InitHolds == Init => V1Inv
<1> SUFFICES ASSUME Init PROVE V1Inv
  OBVIOUS
<1> DEFINE first == NewTemplate(EmptyStore, 0, 0)
           shared(c) == c.from = "working"
<1>1. PICK c \in Cases :
        /\ port = c.port /\ agent = c.agent
        /\ \/ /\ sess = Fresh /\ registered = {} /\ told = 0
              /\ store = first /\ row = "none"
           \/ /\ row = IF shared(c) THEN "live" ELSE "none"
              /\ \E a \in Address :
                    /\ sess = Mining(a, shared(c)) /\ registered = {a} /\ told = InitialDiff
                    /\ store = AddJob(first, FirstJob(c.port, a))
  BY Zenon DEF Init
<1>2. /\ clock = 0 /\ membership = [a \in Address |-> "none"] /\ epoch = 0
      /\ sock = "open" /\ late = FALSE /\ task = [t \in Task |-> Idle] /\ destroys = {}
      /\ beat = FALSE
      /\ credits = [j \in 1..MaxJobs |-> [q \in Quality |-> 0]] /\ paid = {} /\ booked = {}
  BY DEF Init
<1>3. shared(c) \in BOOLEAN
  OBVIOUS
<1> HIDE DEF first, shared
<1>4. /\ Registry(first) /\ first.nextTemplate = 2 /\ first.nextJob = 1
      /\ DOMAIN first.jobs = {} /\ first.templates[1].retired = Active
  <2> DEFINE e == EmptyStore
  <2>1. Registry(e) /\ DOMAIN e.jobs = {} /\ e.nextTemplate = 1 /\ e.nextJob = 1
    BY EmptyIs
  <2> HIDE DEF e
  <2>2. first = NewTemplate(e, 0, 0)
    BY DEF first, e
  <2>3. 0 \in Nat
    OBVIOUS
  <2>4. /\ Registry(first) /\ first.nextTemplate = e.nextTemplate + 1
        /\ first.nextJob = e.nextJob /\ first.templates[e.nextTemplate].retired = Active
        /\ \A j \in DOMAIN first.jobs : j \in DOMAIN e.jobs
    BY ONLY <2>1, <2>2, <2>3, NewTemplateIs, SMTT(30)
  <2> QED
    BY <2>1, <2>4
<1>5. /\ c.port \in {"solo", "pplns"} /\ c.agent \in {"asic", "cpuminer"}
      /\ InitialDiff \in Nat /\ Floor \in Nat /\ InitialDiff >= Floor
      /\ MaxJobs \in Nat /\ 1 <= MaxJobs
  BY SessionAssumption
<1>6. ASSUME Registry(store), sess \in SessSet, store.nextTemplate = 2, store.nextJob >= 1,
             registered \subseteq Address, told \in Nat,
             row \in {"none", "live"}, sess.boundary = 0, sess.diff = InitialDiff,
             sess.init \/ (~sess.listening /\ ~sess.ticking /\ DOMAIN store.jobs = {}),
             JobsOK
      PROVE  V1Inv
  <2>1. task \in [Task -> CallSet] /\ \A t \in Task : task[t] = Idle
    BY <1>2, IdleIs
  <2>2. credits \in [1..MaxJobs -> [Quality -> Nat]]
    BY <1>2
  <2>3. membership \in [Address -> Kinds]
    BY <1>2 DEF Kinds
  <2>4. Typed
    BY <1>1, <1>2, <1>5, <1>6, <2>1, <2>2, <2>3 DEF Typed
  <2>5. TasksOK
    BY <2>1, <2>4, IdleOK DEF TasksOK
  <2>6. SessOK
    BY <1>5, <1>6 DEF SessOK, Registry
  <2>7. Counted /\ LedgerIsProven /\ BookedAsBuilt
    BY <1>2 DEF Counted, LedgerIsProven, BookedAsBuilt
  <2> QED
    BY <1>6, <2>4, <2>5, <2>6, <2>7 DEF V1Inv, Parts
<1>7. CASE /\ sess = Fresh /\ registered = {} /\ told = 0 /\ store = first /\ row = "none"
  <2>1. JobsOK
    BY <1>4, <1>7 DEF JobsOK, JobsIn
  <2> QED
    BY <1>4, <1>6, <1>7, <2>1, FreshIs
<1>8. ASSUME NEW a \in Address, sess = Mining(a, shared(c)), registered = {a},
             told = InitialDiff, store = AddJob(first, FirstJob(c.port, a)),
             row = IF shared(c) THEN "live" ELSE "none"
      PROVE  V1Inv
  <2> DEFINE job == FirstJob(c.port, a)
  <2>1. /\ sess \in SessSet /\ sess.init /\ sess.boundary = 0 /\ sess.diff = InitialDiff
        /\ sess.changes = 0
    BY <1>3, <1>8, MiningIs
  <2>2. /\ job \in JobSet /\ job.tmpl = 1 /\ job.retired = Active /\ job.epoch = 0
        /\ job.route = c.port /\ job.addr = a /\ job.asked = InitialDiff /\ job.changes = 0
    BY <1>5, FirstJobIs
  <2>3. store = AddJob(first, job)
    BY <1>8
  <2> HIDE DEF job
  <2>4. /\ Registry(store) /\ store.templates = first.templates
        /\ store.nextTemplate = 2 /\ store.nextJob = 2 /\ store.jobs[1] = job
        /\ \A j \in DOMAIN store.jobs : j = 1
    <3>1. first.nextJob <= MaxJobs
      BY <1>4, <1>5
    <3> QED
      BY <1>4, <2>2, <2>3, <3>1, AddJobIs
  <2>5. JobOK(store, sess, 1, job)
    <3>1. Honest(job)
      BY <1>1, <1>2, <1>5, <2>2, SessionAssumption DEF Honest, Route
    <3>2. StampOK(store, job)
      BY <1>4, <2>2, <2>4 DEF StampOK
    <3>3. TargetOK(sess, 1, job)
      BY <1>5, <2>1, <2>2 DEF TargetOK
    <3>4. SeenOK(sess, 1, job)
      BY <1>2, <1>5 DEF SeenOK
    <3> QED
      BY <2>2, <2>4, <3>1, <3>2, <3>3, <3>4 DEF JobOK
  <2>6. JobsOK
    BY <2>4, <2>5 DEF JobsOK, JobsIn
  <2> QED
    BY <1>5, <1>6, <1>8, <2>1, <2>4, <2>6
<1> QED
  BY <1>1, <1>7, <1>8

-------------------------------------------------------------------------------
(* Every step. *)

LEMMA PortStays == Next => port' = port
<1> SUFFICES ASSUME Next PROVE port' = port
  OBVIOUS
<1>1. ASSUME NEW t \in Task, Resume(t) PROVE port' = port
  BY <1>1 DEF Resume, InitStratum, Announce, Listen, Authorized, Online, AnswerSuggest,
              Ratcheted, Distribution, Refresh, Create, Created, Awaited, Reject,
              SubmitBlock, BookBlock, RecordShare, Tail, world
<1>2. ASSUME NEW t \in Task, Message(t) PROVE port' = port
  BY <1>2 DEF Message, Subscribe, AuthorizeInvalid, SubmitEarly, Authorize, Suggest, Submit, world
<1>3. ASSUME NEW t \in Task, Timed(t) \/ Faults(t) PROVE port' = port
  BY <1>3 DEF Timed, Template, Check, Faults, NoDistribution, CreateFails, RecordFails, world
<1>4. CASE Close \/ Ended \/ Bury \/ Release \/ Rows \/ Restart \/ Tick
  BY <1>4 DEF Close, Ended, Bury, Release, Rows, InsertClients, InsertFails, FlushHeartbeats,
              KillDeadClients, DeleteOldClients, RowStep, Restart, Tick, world
<1>5. CASE \/ \E a \in Address : ResetClients(a)
           \/ \E a \in Address, k \in Kinds : Move(a, k)
  BY <1>5 DEF ResetClients, Move, world
<1> QED
  BY <1>1, <1>2, <1>3, <1>4, <1>5, Zenon DEF Next

\* What the ledgers have comes from the call of a share and its route.
LEMMA RecordIsProven ==
    ASSUME Typed, Parts, LedgerIsProven, BookedAsBuilt, NEW t \in Task, RecordShare(t) \/ RecordFails(t)
    PROVE  LedgerIsProven' /\ BookedAsBuilt'
<1> DEFINE r == task[t]
<1>1. TaskOK(r) /\ r.at \in {"credited", "counting"}
  BY TheCall DEF RecordShare, RecordFails
<1>2. r.diff <= r.q
  BY <1>1 DEF TaskOK
<1>3. port' = port /\ booked' = booked
  BY DEF RecordShare, RecordFails, world, ghost
<1>4. \/ paid' = paid
      \/ paid' = paid \cup {Recorded(t)} /\ (port = "pplns" => sess.accepted + 1 > Warmup)
  <2>1. port = "pplns" => Route(sess.auth) # "group-solo"
    BY DEF Route
  <2> QED
    BY <2>1 DEF RecordShare, RecordFails, ghost
<1>5. /\ Recorded(t).diff = r.diff /\ Recorded(t).q = r.q
      /\ Recorded(t).n = sess.accepted + 1
  BY DEF Recorded
<1> HIDE DEF r
<1>6. LedgerIsProven'
  BY <1>2, <1>3, <1>4, <1>5 DEF LedgerIsProven
<1> QED
  BY <1>3, <1>6 DEF BookedAsBuilt

LEMMA BlockIsBooked ==
    ASSUME Typed, Parts, LedgerIsProven, BookedAsBuilt, NEW t \in Task, SubmitBlock(t) \/ BookBlock(t)
    PROVE  LedgerIsProven' /\ BookedAsBuilt'
<1> DEFINE r == task[t]
           b == [built |-> r.route, as |-> BookingRoute(sess.auth),
                 moved |-> r.epoch # epoch \/ r.addr # sess.auth]
<1>1. port' = port /\ paid' = paid
  BY DEF SubmitBlock, BookBlock, world, ghost
<1>2. booked' = booked \/ (r.at = "booking" /\ booked' = booked \cup {b})
  BY Zenon DEF SubmitBlock, BookBlock, ghost
<1>3. r.at = "booking" => b.moved \/ b.as = b.built
  <2> SUFFICES ASSUME r.at = "booking", ~b.moved PROVE b.as = b.built
    OBVIOUS
  <2>1. Honest(r)
    BY TheCall DEF TaskOK
  <2>2. r.epoch = epoch /\ r.addr = sess.auth
    OBVIOUS
  <2> QED
    BY <2>1, <2>2 DEF Honest, BookingRoute
<1> HIDE DEF b
<1>4. BookedAsBuilt'
  BY <1>2, <1>3 DEF BookedAsBuilt
<1> QED
  BY <1>1, <1>4 DEF LedgerIsProven

\* A call, or the socket, does one thing at a time.
LEMMA StepKeeps ==
    ASSUME Typed, Parts, Numbered, LedgerIsProven, BookedAsBuilt, Next, ~Restart
    PROVE  Keeps /\ LedgerIsProven' /\ BookedAsBuilt'
<1>0. ASSUME Keeps, LedgersSame PROVE Keeps /\ LedgerIsProven' /\ BookedAsBuilt'
  BY <1>0, PortStays DEF LedgersSame, LedgerIsProven, BookedAsBuilt
<1>1. ASSUME NEW t \in Task, Resume(t) PROVE Keeps /\ LedgerIsProven' /\ BookedAsBuilt'
  <2>1. CASE Announce(t) \/ Online(t) \/ AnswerSuggest(t)
    BY <1>0, <2>1, HandshakeSteps
  <2>2. CASE InitStratum(t)
    BY <1>0, <2>2, InitSteps
  <2>3. CASE Listen(t) \/ Authorized(t) \/ Ratcheted(t) \/ Distribution(t) \/ Refresh(t)
    BY <1>0, <2>3, SendSteps
  <2>4. CASE Create(t) \/ Created(t)
    BY <1>0, <2>4, RowCallSteps
  <2>5. CASE Awaited(t)
    BY <1>0, <2>5, ShareSteps
  <2>6. CASE Reject(t)
    BY <1>0, <2>6, RejectSteps
  <2>7. CASE SubmitBlock(t) \/ BookBlock(t)
    BY <2>7, BookSteps, BlockIsBooked
  <2>8. CASE RecordShare(t)
    BY <2>8, RecordSteps, RecordIsProven
  <2>9. CASE Tail(t)
    BY <1>0, <2>9, TimerSteps
  <2> QED
    BY <1>1, <2>1, <2>2, <2>3, <2>4, <2>5, <2>6, <2>7, <2>8, <2>9, Zenon DEF Resume
<1>2. ASSUME NEW t \in Task, Message(t) PROVE Keeps /\ LedgerIsProven' /\ BookedAsBuilt'
  <2>1. CASE Subscribe(t) \/ \E a \in Address : Authorize(t, a)
    BY <1>0, <2>1, HandshakeSteps
  <2>2. CASE AuthorizeInvalid(t) \/ SubmitEarly(t)
    BY <1>0, <2>2, SocketSteps
  <2>3. CASE \E r \in Rates : Suggest(t, r)
    BY <1>0, <2>3, SuggestKeeps
  <2>4. CASE \E j \in Issued, q \in Quality : Submit(t, j, q)
    BY <1>0, <2>4, ShareSteps
  <2> QED
    BY <1>2, <2>1, <2>2, <2>3, <2>4, Zenon DEF Message
<1>3. ASSUME NEW t \in Task, Timed(t) PROVE Keeps /\ LedgerIsProven' /\ BookedAsBuilt'
  <2>1. CASE \E tip \in {store.tip, store.tip + 1} : Template(t, tip)
    BY <1>0, <2>1, TemplateSteps
  <2>2. CASE \E r \in Rates : Check(t, r)
    BY <1>0, <2>2, TimerSteps
  <2> QED
    BY <1>3, <2>1, <2>2, Zenon DEF Timed
<1>4. ASSUME NEW t \in Task, Faults(t) PROVE Keeps /\ LedgerIsProven' /\ BookedAsBuilt'
  <2>1. CASE NoDistribution(t)
    BY <1>0, <2>1, NoJobSteps
  <2>2. CASE CreateFails(t)
    BY <1>0, <2>2, RowCallSteps
  <2>3. CASE RecordFails(t)
    BY <2>3, RecordSteps, RecordIsProven
  <2> QED
    BY <1>4, <2>1, <2>2, <2>3, Zenon DEF Faults
<1>5. CASE Close \/ Ended \/ \E a \in Address : ResetClients(a)
  BY <1>0, <1>5, SocketSteps
<1>6. CASE Bury \/ Release
  BY <1>0, <1>6, DestroySteps
<1>7. CASE Rows \/ Tick
  BY <1>0, <1>7, RowSteps
<1>8. CASE \E a \in Address, k \in Kinds : Move(a, k)
  BY <1>0, <1>8, MoveSteps
<1> QED
  BY <1>1, <1>2, <1>3, <1>4, <1>5, <1>6, <1>7, <1>8, Zenon DEF Next

LEMMA NextHolds == V1Inv /\ [Next]_vars => V1Inv'
<1> SUFFICES ASSUME V1Inv, [Next]_vars PROVE V1Inv'
  OBVIOUS
<1> USE DEF V1Inv
<1>1. CASE Next /\ (Dead \/ Restart)
  <2>1. Typed' /\ Parts' /\ Dead' /\ LedgersSame
    BY <1>1, DeadSteps, RestartSteps
  <2>2. LedgerIsProven' /\ BookedAsBuilt'
    BY <1>1, <2>1, PortStays DEF LedgersSame, LedgerIsProven, BookedAsBuilt
  <2> QED
    BY <2>1, <2>2 DEF Counted
<1>2. CASE Next /\ ~Dead /\ ~Restart
  <2>1. Numbered
    BY <1>2 DEF Counted, Numbered
  <2>2. Keeps /\ LedgerIsProven' /\ BookedAsBuilt'
    BY <1>2, <2>1, StepKeeps
  <2>3. Counted'
    BY <2>1, <2>2 DEF Keeps, Numbered, Counted
  <2> QED
    BY <2>2, <2>3 DEF Keeps
<1>3. CASE UNCHANGED vars
  <2>1. StillSame /\ LedgersSame
    BY <1>3 DEF vars, world, rowvars, ghost, StillSame, CoreSame, WorldSame, Alike, LedgersSame
  <2>2. Surroundings'
    BY <1>3 DEF vars, rowvars, Surroundings, Typed
  <2>3. Keeps
    BY <2>1, <2>2, StillKeeps
  <2>4. LedgerIsProven' /\ BookedAsBuilt'
    BY <2>1 DEF LedgersSame, StillSame, CoreSame, WorldSame, LedgerIsProven, BookedAsBuilt
  <2>5. Dead => Dead'
    BY <1>3 DEF vars, Dead
  <2>6. Counted'
    BY <2>3, <2>5 DEF Keeps, Numbered, Counted
  <2> QED
    BY <2>3, <2>4, <2>6 DEF Keeps
<1> QED
  BY <1>1, <1>2, <1>3

-------------------------------------------------------------------------------
(* The theorems. *)

\* The inductive invariant holds in every state: what is true at every await of every
\* handler of the connection.
THEOREM V1IsInductive == Spec => []V1Inv
  BY InitHolds, NextHolds, PTL DEF Spec

\* However the handlers of a connection interleave: a share is judged by no more than the
\* miner was asked for when it got the job, after one change of the difficulty too; the
\* difficulty of a PPLNS session respects the floor of the port; and the ledgers are
\* given proven work only, of a PPLNS session what comes after the warm-up.
THEOREM SessionAlwaysHolds == Spec => []SessionHolds
  BY V1IsInductive, SessionFollows, PTL

\* A block is booked with the scheme its coinbase pays, although the route is read again
\* after the block was sent, saved and announced, unless the membership or the address of
\* the session changed in between.
THEOREM BlocksAreBookedAsBuilt == Spec => []BookedAsBuilt
<1>1. V1Inv => BookedAsBuilt
  BY DEF V1Inv
<1> QED
  BY <1>1, V1IsInductive, PTL

\* Nothing but the judgement of a share gives credit.
LEMMA OnlySharesCredit ==
    ASSUME Next
    PROVE  \/ credits' = credits
           \/ \E t \in Task : Awaited(t) \/ \E j \in Issued, q \in Quality : Submit(t, j, q)
<1>1. ASSUME NEW t \in Task, Resume(t), ~Awaited(t) PROVE credits' = credits
  BY <1>1 DEF Resume, InitStratum, Announce, Listen, Authorized, Online, AnswerSuggest,
              Ratcheted, Distribution, Refresh, Create, Created, Reject,
              SubmitBlock, BookBlock, RecordShare, Tail, ghost
<1>2. ASSUME NEW t \in Task, Message(t), ~\E j \in Issued, q \in Quality : Submit(t, j, q)
      PROVE  credits' = credits
  BY <1>2 DEF Message, Subscribe, AuthorizeInvalid, SubmitEarly, Authorize, Suggest, ghost
<1>3. ASSUME NEW t \in Task, Timed(t) \/ Faults(t) PROVE credits' = credits
  BY <1>3 DEF Timed, Template, Check, Faults, NoDistribution, CreateFails, RecordFails, ghost
<1>4. ASSUME Close \/ Ended \/ Bury \/ Release \/ Rows \/ Restart \/ Tick PROVE credits' = credits
  BY <1>4 DEF Close, Ended, Bury, Release, Rows, InsertClients, InsertFails, FlushHeartbeats,
              KillDeadClients, DeleteOldClients, RowStep, Restart, Tick, ghost
<1>5. ASSUME \/ \E a \in Address : ResetClients(a)
             \/ \E a \in Address, k \in Kinds : Move(a, k)
      PROVE  credits' = credits
  BY <1>5 DEF ResetClients, Move, ghost
<1> QED
  BY <1>1, <1>2, <1>3, <1>4, <1>5, Zenon DEF Next

\* Work that is credited was creditable.
LEMMA CreditIsDue ==
    ASSUME V1Inv, [Next]_vars, NEW j \in 1..MaxJobs, NEW q \in Quality,
           credits'[j][q] > credits[j][q]
    PROVE  Creditable(j, q)
<1>1. credits \in [1..MaxJobs -> [Quality -> Nat]] /\ ~(credits[j][q] > credits[j][q])
  BY DEF V1Inv, Typed
<1>2. credits' # credits
  BY <1>1
<1>3. PICK t \in Task : Awaited(t) \/ \E k \in Issued, p \in Quality : Submit(t, k, p)
  BY <1>2, OnlySharesCredit DEF vars, ghost
<1>4. \E k \in 1..MaxJobs, p \in Quality : Judge(t, k, p)
  <2>1. CASE Awaited(t)
    <3> DEFINE r == task[t]
    <3> HIDE DEF r
    <3>1. r.at = "await" /\ Judge(t, r.job, r.q)
      BY <1>2, <2>1, Zenon DEF Awaited, r
    <3>2. TaskOK(r)
      BY TheCall DEF V1Inv, r
    <3> QED
      BY <3>1, <3>2 DEF TaskOK
  <2>2. CASE \E k \in Issued, p \in Quality : Submit(t, k, p)
    <3>1. PICK k \in Issued, p \in Quality : Submit(t, k, p)
      BY <2>2
    <3>2. Judge(t, k, p)
      BY <1>2, <3>1, Zenon DEF Submit
    <3> QED
      BY <3>2 DEF Issued
  <2> QED
    BY <1>3, <2>1, <2>2
<1>5. PICK k \in 1..MaxJobs, p \in Quality : Judged(t, k, p)
  BY <1>4, JudgeIs DEF V1Inv
<1>6. Creditable(k, p) /\ credits' = [credits EXCEPT ![k][p] = @ + 1]
  BY <1>2, <1>5, Zenon DEF Judged
<1>7. j = k /\ q = p
  <2> SUFFICES ASSUME j # k \/ q # p PROVE credits'[j][q] = credits[j][q]
    BY <1>1
  <2> QED
    BY <1>1, <1>6
<1> QED
  BY <1>6, <1>7

LEMMA CreditedOnce ==
    V1Inv /\ [Next]_vars =>
        \A j \in 1..MaxJobs, q \in Quality :
            credits'[j][q] > credits[j][q] /\ credits[j][q] > 0
                => store.jobs[j].retired # Active
<1> SUFFICES ASSUME V1Inv, [Next]_vars, NEW j \in 1..MaxJobs, NEW q \in Quality,
                    credits'[j][q] > credits[j][q], credits[j][q] > 0
             PROVE  store.jobs[j].retired # Active
  OBVIOUS
<1>1. Creditable(j, q)
  BY CreditIsDue
<1>2. SeenOK(sess, j, store.jobs[j])
  BY <1>1 DEF Creditable, V1Inv, Parts, JobsOK, JobsIn, JobOK
<1> QED
  BY <1>1, <1>2 DEF Creditable, SeenOK

LEMMA LateIsBounded ==
    V1Inv /\ [Next]_vars =>
        \A j \in DOMAIN store.jobs : \A q \in Quality :
            credits'[j][q] > credits[j][q] /\ ~store.jobs[j].late
                => LET tmpl == store.templates[store.jobs[j].tmpl]
                   IN  tmpl.retired = Active \/ clock - tmpl.retired <= Grace
<1> SUFFICES ASSUME V1Inv, [Next]_vars, NEW j \in DOMAIN store.jobs, NEW q \in Quality,
                    credits'[j][q] > credits[j][q], ~store.jobs[j].late
             PROVE  LET tmpl == store.templates[store.jobs[j].tmpl]
                    IN  tmpl.retired = Active \/ clock - tmpl.retired <= Grace
  OBVIOUS
<1>1. Creditable(j, q)
  BY CreditIsDue DEF V1Inv, Typed, Registry
<1>2. StampOK(store, store.jobs[j])
  BY DEF V1Inv, Parts, JobsOK, JobsIn, JobOK
<1>3. /\ store.jobs[j].retired = Active \/ clock - store.jobs[j].retired <= Grace
      /\ store.jobs[j].tmpl \in DOMAIN store.templates
  BY <1>1 DEF Creditable, Classify
<1> QED
  BY <1>2, <1>3 DEF StampOK

\* The same work is credited again only on a job that a block change has retired, and
\* work on a retired template only within the grace time, unless the job was registered
\* after the block change: however shares, templates and changes of the difficulty meet.
THEOREM WorkAlwaysCounts == Spec => WorkCounts
<1>1. V1Inv /\ [Next]_vars =>
        [\A j \in 1..MaxJobs, q \in Quality :
            credits'[j][q] > credits[j][q] /\ credits[j][q] > 0
                => store.jobs[j].retired # Active]_vars
  BY CreditedOnce
<1>2. V1Inv /\ [Next]_vars =>
        [\A j \in DOMAIN store.jobs : \A q \in Quality :
            credits'[j][q] > credits[j][q] /\ ~store.jobs[j].late
                => LET tmpl == store.templates[store.jobs[j].tmpl]
                   IN  tmpl.retired = Active \/ clock - tmpl.retired <= Grace]_vars
  BY LateIsBounded
<1> QED
  BY <1>1, <1>2, InitHolds, NextHolds, PTL DEF Spec, WorkCounts, WorkCreditedOnce, LateWorkBounded
===============================================================================
