------------------------ MODULE StratumV2Session_proofs ------------------------
(***************************************************************************)
(* Proofs about StratumV2Session for every number of asynchronous runs,    *)
(* channels, jobs and templates, for all prefixes, difficulties and        *)
(* qualities, and for every behaviour of the miner: the run takes two runs *)
(* at a time and a few events.                                             *)
(***************************************************************************)
EXTENDS StratumV2Session, TLAPS, FiniteSetTheorems, WellFoundedInduction

-------------------------------------------------------------------------------
(* The inductive invariant. *)

(* What the records of the state are made of. *)
ChanFields ==
    {"kind", "jd", "prefix", "diff", "max", "jobDiff", "roots", "ext", "latest", "seen", "sig",
     "told", "asked", "tip", "mined", "last", "raced", "misnamed", "shared", "kept", "ignored"}
CallFields ==
    {"at", "c", "why", "tmpl", "built", "prev", "first", "jd", "route", "job", "q", "diff", "entry"}
ConnFields ==
    {"workSel", "diff", "primary", "next", "prefix", "sub", "nsub", "timer", "registered",
     "creating", "entity", "accepted", "custom", "destroyed", "leaky", "refused"}
ExtFields == {"tmpl", "built", "prev", "made", "retired", "late", "route", "nth"}

ChanRec(r) ==
    /\ DOMAIN r = ChanFields
    /\ r.diff \in Nat /\ r.told \in Nat /\ r.max \in Nat
    /\ \A j \in DOMAIN r.jobDiff : r.jobDiff[j] \in Nat
    /\ \A j \in DOMAIN r.ext : DOMAIN r.ext[j] = ExtFields
Chans(ch) == DOMAIN ch = Channel /\ \A c \in Channel : ChanRec(ch[c])

\* Where a call stands that works on the channel it names, or that tells targets.
Working ==
    {"create", "entity", "success", "payout", "sent", "prev", "judge", "credited", "counting",
     "tail"}
Telling == {"row", "targets"}
Opening == {"create", "entity", "success"}

CallRec(r) ==
    /\ DOMAIN r = CallFields
    /\ r.at \in Labels /\ r.c \in Nat /\ r.diff \in Nat /\ r.q \in Nat
    /\ r.tmpl \in Nat /\ r.built \in Nat
    /\ r.at \in Working => r.c \in Channel
Calls == DOMAIN task = Task /\ \A t \in Task : CallRec(task[t]) /\ task[t].c < conn.next

ConnTyped ==
    /\ DOMAIN conn = ConnFields
    /\ conn.next \in Nat /\ conn.next > 0 /\ conn.prefix \in Nat
    /\ \A c \in channels : c < conn.next
    /\ \A c \in Channel : chan[c].jd => c < conn.next
    /\ conn.primary \in channels \cup {0} /\ (channels # {} => conn.primary # 0)
    /\ conn.accepted \in Nat /\ conn.timer \in BOOLEAN /\ conn.destroyed \in BOOLEAN

WorldTyped ==
    /\ clock \in Nat /\ jdp \in BOOLEAN /\ scheme \in Schemes
    /\ env.port \in Port /\ env.rates \subseteq Nat \ {0} /\ env.limits \subseteq Nat
    /\ env.port = "pplns" <=> scheme = "pplns"
    /\ channels \subseteq Channel /\ used \subseteq 1..MaxPrefix
    /\ \A c \in channels : chan[c].kind \in {"standard", "extended"}
    /\ sock \in {"open", "closed"} /\ destroys \subseteq {"bury", "release"}

StoreFields == {"templates", "jobs", "nextTemplate", "nextJob", "tip"}
Templates == [tip : Nat, clears : BOOLEAN, content : Nat]
StoreTyped ==
    /\ DOMAIN store = StoreFields
    /\ tmpls \in Seq(Templates) /\ Newest >= 1
    /\ store.tip = tmpls[Newest].tip /\ store.nextTemplate = Newest + 1

Typed == Chans(chan) /\ Calls /\ ConnTyped /\ WorldTyped /\ StoreTyped

\* The prefixes of refused channels are those of no open one.
PrefixInv ==
    /\ PrefixesAccounted /\ conn.refused \subseteq 1..MaxPrefix
    /\ \A c \in channels : chan[c].kind = "extended" =>
            chan[c].prefix \in 1..MaxPrefix /\ chan[c].prefix \notin conn.refused

\* There is one subscription at most; an opening that is left without its channel has
\* made the connection leaky.
ReleaseInv ==
    /\ \A s \in subs : s.id = conn.sub
    /\ \A r, s \in subs : r = s
    /\ channels = {} /\ ~conn.leaky => ~Orphan /\ subs = {} /\ ~conn.timer
    /\ conn.destroyed /\ conn.registered => "release" \in destroys

\* What is credited was proved, and no target that is on its way is below the floor.
WorkInv ==
    /\ WorkIsProven
    /\ \A t \in Task :
        /\ task[t].at \in {"credited", "counting"} => task[t].diff <= task[t].q
        /\ task[t].at \in Telling /\ ~Declaring /\ env.port = "pplns" => task[t].diff >= Floor

\* Call t has still to tell channel c the difficulty diff.
Pending(t, c, diff) == task[t].at \in Telling /\ task[t].c < c /\ task[t].diff = diff

\* A difficulty of a declaring client that channel c is still to be told.
Due(c, diff) == Declaring /\ \E t \in Task : Pending(t, c, diff)

\* A channel that was told another difficulty than its own, or has a job with another
\* one, will be told that one; a job that was recorded was written.
ToldRight(c) ==
    /\ \A j \in DOMAIN chan[c].asked : chan[c].told \in chan[c].asked[j]
    /\ DOMAIN chan[c].jobDiff \subseteq DOMAIN chan[c].asked
    /\ chan[c].told = 0 \/ chan[c].diff = chan[c].told \/ Due(c, chan[c].diff)
    /\ \A j \in DOMAIN chan[c].jobDiff \ chan[c].shared :
          \/ 0 \in chan[c].asked[j]
          \/ \E told \in chan[c].asked[j] :
                chan[c].jobDiff[j] = told \/ (Declaring /\ chan[c].jobDiff[j] < told)
          \/ Due(c, chan[c].jobDiff[j])
    /\ \A t \in Task : task[t].at = "sent" /\ task[t].c = c
                            => task[t].job \in DOMAIN chan[c].asked
ToldInv == Writable => \A c \in channels : ToldRight(c)

\* Two sends to a channel race, and the one whose frame is under way is the last.
NameInv ==
    /\ NewestIsNamed
    /\ \A t \in Task : Writable /\ task[t].at = "sent" /\ ~chan[task[t].c].raced
                            => chan[task[t].c].last = task[t].job
    /\ \A t, u \in Task :
        /\ t # u /\ task[t].at \in Sending /\ task[u].at \in Sending /\ task[t].c = task[u].c
                => chan[task[t].c].raced
        /\ t # u /\ task[t].why = "publish" /\ task[u].why = "publish"
                => task[t].tmpl # task[u].tmpl
    /\ \A t \in Task : task[t].why = "publish"
                            => task[t].at \in Sending /\ task[t].tmpl <= Newest

-------------------------------------------------------------------------------
(* Sets of numbers, records. *)

\* A set of naturals that is not empty has a least element.
LEMMA LeastIs ==
    ASSUME NEW S \in SUBSET Nat, S # {}
    PROVE  Least(S) \in S /\ \A y \in S : Least(S) <= y
<1> DEFINE R == {p \in Nat \X Nat : p[1] < p[2]}
<1>1. IsWellFoundedOn(R, Nat)
  BY NatLessThanWellFounded, Zenon DEF OpToRel
<1>2. PICK x \in S : \A y \in S : ~(<<y, x>> \in R)
  BY <1>1, WFMin, Zenon
<1>3. ASSUME NEW y \in S PROVE x <= y
  <2> DEFINE q == <<y, x>>
  <2>1. q \in Nat \X Nat /\ q[1] = y /\ q[2] = x
    OBVIOUS
  <2>2. q \notin R
    BY <1>2
  <2> HIDE DEF q
  <2> QED
    BY <2>1, <2>2
<1> QED
  BY <1>3, Zenon DEF Least

LEMMA ChannelIs == Channel \subseteq Nat /\ 0 \notin Channel
  BY SessionAssumption DEF Channel

\* The rotation finds a prefix that is free.
LEMMA NextPrefixIs ==
    ASSUME used \subseteq 1..MaxPrefix, ~Exhausted, conn.prefix \in Nat
    PROVE  NextPrefix \in (1..MaxPrefix) \ used
<1> DEFINE after(p) == (p + MaxPrefix - conn.prefix) % MaxPrefix
           free == (1..MaxPrefix) \ used
           S == {after(p) : p \in free}
<1>1. \A p \in free : after(p) \in Nat
  BY SessionAssumption
<1>2. free # {}
  BY DEF Exhausted
<1> HIDE DEF after, free
<1>3. S \in SUBSET Nat /\ S # {}
  BY <1>1, <1>2
<1>4. Least(S) \in S /\ \A y \in S : Least(S) <= y
  BY <1>3, LeastIs
<1>5. \E p \in free : \A o \in free : after(p) <= after(o)
  BY <1>4
<1>6. NextPrefix = CHOOSE p \in free : \A o \in free : after(p) <= after(o)
  BY DEF NextPrefix, after, free
<1>7. NextPrefix \in free
  BY <1>5, <1>6
<1> QED
  BY <1>7 DEF free

\* The extended jobs of a channel are retired, or a block change left them alone.
NoneActive(s) == s.kept \/ \A j \in DOMAIN s.ext : s.ext[j].retired # Active

(* What a channel keeps when only its work, or only its targets are touched. *)
SameWork(r, s) ==
    /\ s.kind = r.kind /\ s.prefix = r.prefix /\ s.shared = r.shared /\ (r.jd => s.jd)
    /\ s.tip = r.tip /\ s.mined = r.mined /\ s.last = r.last /\ s.latest = r.latest
    /\ s.misnamed = r.misnamed /\ (r.raced => s.raced)
    /\ DOMAIN s.asked = DOMAIN r.asked /\ s.roots \subseteq r.roots
    /\ \A j \in DOMAIN s.ext :
          /\ j \in DOMAIN r.ext
          /\ s.ext[j].prev = r.ext[j].prev /\ s.ext[j].late = r.ext[j].late
          /\ \/ s.ext[j].retired = r.ext[j].retired
             \/ r.ext[j].retired = Active /\ s.ext[j].retired = clock
    /\ (r.kept => s.kept) /\ (r.seen \subseteq s.seen \/ (s.roots = {} /\ NoneActive(s)))

SameTargets(r, s) ==
    /\ s.kind = r.kind /\ s.prefix = r.prefix /\ s.shared = r.shared /\ (r.jd => s.jd)
    /\ s.diff = r.diff /\ s.told = r.told /\ s.asked = r.asked
    /\ s.max = r.max /\ s.ignored = r.ignored
    /\ \A j \in DOMAIN s.jobDiff : j \in DOMAIN r.jobDiff /\ s.jobDiff[j] = r.jobDiff[j]

\* Jobs are forgotten and retired, a channel is noticed or raced, and that is all.
Settled(ch, new) ==
    /\ Chans(new)
    /\ \A c \in Channel : SameWork(ch[c], new[c]) /\ SameTargets(ch[c], new[c])
    /\ \A c \in Channel \ channels : new[c].jd => ch[c].jd

LEMMA SettledSelf == ASSUME NEW ch, Chans(ch) PROVE Settled(ch, ch)
  BY DEF Settled, SameWork, SameTargets

LEMMA NoneActiveStays ==
    ASSUME NEW r, NEW s, SameWork(r, s), NoneActive(r) PROVE NoneActive(s)
  BY DEF SameWork, NoneActive

LEMMA SettledTrans ==
    ASSUME NEW a, NEW b, NEW c, Settled(a, b), Settled(b, c) PROVE Settled(a, c)
<1> SUFFICES ASSUME NEW x \in Channel
             PROVE  SameWork(a[x], c[x]) /\ SameTargets(a[x], c[x])
  BY DEF Settled, SameWork
<1>1. SameWork(a[x], b[x]) /\ SameWork(b[x], c[x])
  BY DEF Settled
<1>2. SameTargets(a[x], b[x]) /\ SameTargets(b[x], c[x])
  BY DEF Settled
<1>3. SameWork(a[x], c[x])
  BY <1>1 DEF SameWork, NoneActive
<1>4. SameTargets(a[x], c[x])
  BY <1>2 DEF SameTargets
<1> QED
  BY <1>3, <1>4

LEMMA MissedIs ==
    ASSUME NEW ch, Chans(ch), NEW S
    PROVE  Settled(ch, Missed(ch, S)) /\ \A c \in Channel \cap S : Missed(ch, S)[c].raced
<1> DEFINE new == Missed(ch, S)
<1>1. DOMAIN new = Channel /\ \A c \in Channel : new[c] = [ch[c] EXCEPT !.raced = @ \/ c \in S]
  BY DEF Missed
<1> HIDE DEF new
<1>2. ASSUME NEW c \in Channel
      PROVE  /\ ChanRec(new[c]) /\ SameWork(ch[c], new[c]) /\ SameTargets(ch[c], new[c])
             /\ c \in S => new[c].raced
             /\ new[c].jd => ch[c].jd
  <2> DEFINE b == ch[c].raced \/ c \in S
  <2>1. new[c] = [ch[c] EXCEPT !.raced = b]
    BY <1>1
  <2>2. (ch[c].raced => b) /\ (c \in S => b)
    OBVIOUS
  <2> HIDE DEF b
  <2>3. ChanRec(ch[c])
    BY DEF Chans
  <2>4. ChanRec(new[c])
    BY <2>1, <2>3 DEF ChanRec, ChanFields
  <2>5. new[c].raced = b /\ new[c].jd = ch[c].jd
    BY <2>1, <2>3 DEF ChanRec, ChanFields
  <2>6. SameWork(ch[c], new[c]) /\ SameTargets(ch[c], new[c])
    BY <2>1, <2>2, <2>3, <2>5 DEF SameWork, SameTargets, ChanRec, ChanFields
  <2> QED
    BY <2>2, <2>4, <2>5, <2>6
<1> QED
  BY <1>1, <1>2 DEF Settled, Chans, new

\* cleanupRetiredExtendedJobs only deletes.
LEMMA CleanupExtIs == ASSUME NEW ch, Chans(ch) PROVE Settled(ch, CleanupExt(ch))
<1> DEFINE new == CleanupExt(ch)
<1>1. /\ DOMAIN new = Channel
      /\ \A c \in Channel : new[c] = IF c \in channels
                                     THEN [ch[c] EXCEPT !.ext = [j \in Kept(@) |-> @[j]]]
                                     ELSE ch[c]
  BY DEF CleanupExt
<1>2. ASSUME NEW e PROVE Kept(e) \subseteq DOMAIN e
  BY DEF Kept
<1> HIDE DEF new
<1>3. ASSUME NEW c \in Channel
      PROVE  /\ ChanRec(new[c]) /\ SameWork(ch[c], new[c]) /\ SameTargets(ch[c], new[c])
             /\ new[c].jd => ch[c].jd
  <2> DEFINE e == ch[c].ext
             a == [j \in Kept(e) |-> e[j]]
  <2>1. \A j \in DOMAIN a : j \in DOMAIN e /\ a[j] = e[j]
    BY <1>2
  <2>2. new[c] = ch[c] \/ new[c] = [ch[c] EXCEPT !.ext = a]
    BY <1>1
  <2> HIDE DEF a
  <2> QED
    BY <2>1, <2>2 DEF Chans, ChanRec, ChanFields, SameWork, SameTargets
<1> QED
  BY <1>1, <1>3 DEF Settled, Chans, new

\* A block change for every open channel.
LEMMA ClearedIs ==
    ASSUME NEW ch, Chans(ch), NEW clear, clock \in Nat
    PROVE  /\ Settled(ch, Cleared(ch, clear))
           /\ \A c \in Channel : NoneActive(Cleared(ch, clear)[c])
<1> DEFINE new == Cleared(ch, clear)
<1>1. /\ DOMAIN new = Channel
      /\ \A c \in Channel :
            new[c] = IF c \notin channels THEN [ch[c] EXCEPT !.kept = TRUE]
                     ELSE [ch[c] EXCEPT !.seen = {}, !.roots = {}, !.jobDiff = Empty,
                                        !.ext = IF clear THEN Retire(@, clock) ELSE @,
                                        !.kept = @ \/ ~clear]
  BY DEF Cleared
<1>2. ASSUME NEW e, \A j \in DOMAIN e : DOMAIN e[j] = ExtFields
      PROVE  LET r == Retire(e, clock)
             IN  \A j \in DOMAIN r :
                    /\ j \in DOMAIN e /\ r[j].prev = e[j].prev /\ r[j].late = e[j].late
                    /\ r[j].retired = IF e[j].retired = Active THEN clock ELSE e[j].retired
                    /\ DOMAIN r[j] = ExtFields
  BY <1>2 DEF Retire, ExtFields
<1> HIDE DEF new
<1>3. ASSUME NEW c \in Channel
      PROVE  /\ ChanRec(new[c]) /\ SameWork(ch[c], new[c]) /\ SameTargets(ch[c], new[c])
             /\ NoneActive(new[c])
             /\ new[c].jd => ch[c].jd
  <2> DEFINE e == ch[c].ext
             r == IF clear THEN Retire(e, clock) ELSE e
             kept == ch[c].kept \/ ~clear
  <2>1. \A j \in DOMAIN r :
            /\ j \in DOMAIN e /\ r[j].prev = e[j].prev /\ r[j].late = e[j].late
            /\ r[j].retired = e[j].retired \/ (e[j].retired = Active /\ r[j].retired = clock)
            /\ DOMAIN r[j] = ExtFields
    BY <1>2 DEF Chans, ChanRec
  <2>2. \/ new[c] = [ch[c] EXCEPT !.kept = TRUE]
        \/ new[c] = [ch[c] EXCEPT !.seen = {}, !.roots = {}, !.jobDiff = Empty, !.ext = r,
                                  !.kept = kept]
    BY <1>1
  <2>3. DOMAIN Empty = {}
    BY DEF Empty
  <2>4. (ch[c].kept => kept) /\ (kept \/ \A j \in DOMAIN r : r[j].retired # Active)
    BY <1>2 DEF Chans, ChanRec, Active
  <2> HIDE DEF r, kept
  <2>5. ChanRec(ch[c])
    BY DEF Chans
  <2>6. CASE new[c] = [ch[c] EXCEPT !.kept = TRUE]
    <3>1. new[c].kept
      BY <2>5, <2>6 DEF ChanRec, ChanFields
    <3> QED
      BY <2>5, <2>6, <3>1 DEF ChanRec, ChanFields, SameWork, SameTargets, NoneActive
  <2>7. CASE new[c] = [ch[c] EXCEPT !.seen = {}, !.roots = {}, !.jobDiff = Empty, !.ext = r,
                                  !.kept = kept]
    <3>1. /\ new[c].kept = kept /\ new[c].ext = r /\ new[c].seen = {} /\ new[c].roots = {}
          /\ new[c].jobDiff = Empty
      BY <2>5, <2>7 DEF ChanRec, ChanFields
    <3>2. NoneActive(new[c])
      BY <2>4, <3>1 DEF NoneActive
    <3>3. ChanRec(new[c]) /\ SameTargets(ch[c], new[c]) /\ (new[c].jd => ch[c].jd)
      BY <2>1, <2>3, <2>5, <2>7 DEF ChanRec, ChanFields, SameTargets
    <3>4. SameWork(ch[c], new[c])
      BY <2>1, <2>4, <2>5, <2>7, <3>1, <3>2 DEF ChanRec, ChanFields, SameWork
    <3> QED
      BY <3>2, <3>3, <3>4
  <2> QED
    BY <2>2, <2>6, <2>7
<1> QED
  BY <1>1, <1>3 DEF Settled, Chans, new

-------------------------------------------------------------------------------
(* Sending. *)

\* Call k is a job on its way to a channel of ch, made for the given call by t; if
\* the channel counts as not raced, nothing else was on its way.
Sends(t, ch, call, newest, k) ==
    /\ CallRec(k) /\ k.at = "payout" /\ k.c \in Channel
    /\ k.why = call.why /\ k.tmpl = call.tmpl /\ k.prev = call.prev /\ k.first = call.first
    /\ k.built = IF ch[k.c].kind = "extended" /\ env.tdp THEN newest ELSE call.tmpl
    /\ ~ch[k.c].raced => call.tmpl = newest /\ ~Overlaps(t, k.c, call)

LEMMA StartSendIs ==
    ASSUME NEW t, NEW ch, Chans(ch), NEW c \in Channel, NEW call, CallRec(call),
           NEW newest \in Nat
    PROVE  LET send == StartSend(t, ch, c, call, newest)
           IN  /\ Settled(ch, send.chan) /\ Sends(t, send.chan, call, newest, send.call)
               /\ send.call.c = c
<1> DEFINE send == StartSend(t, ch, c, call, newest)
           b == ch[c].raced \/ call.tmpl # newest \/ Overlaps(t, c, call)
           built == IF ch[c].kind = "extended" /\ env.tdp THEN newest ELSE call.tmpl
           new == send.chan
           k == send.call
<1>1. new = [ch EXCEPT ![c].raced = b]
  BY DEF StartSend
<1>2. k = [call EXCEPT !.at = "payout", !.c = c, !.route = scheme, !.built = built]
  BY DEF StartSend
<1>3. (ch[c].raced => b) /\ (~b => call.tmpl = newest /\ ~Overlaps(t, c, call))
  OBVIOUS
<1>4. built \in Nat
  BY DEF CallRec
<1>5. ChanRec(ch[c]) /\ DOMAIN ch = Channel
  BY DEF Chans
<1> HIDE DEF send, b, new, k
<1>6. /\ DOMAIN new = Channel /\ new[c] = [ch[c] EXCEPT !.raced = b]
      /\ \A d \in Channel \ {c} : new[d] = ch[d]
  BY <1>1, <1>5
<1>7. new[c].raced = b /\ new[c].kind = ch[c].kind /\ new[c].jd = ch[c].jd
  BY <1>5, <1>6 DEF ChanRec, ChanFields
<1>8. ChanRec(new[c])
  BY <1>5, <1>6 DEF ChanRec, ChanFields
<1>9. SameWork(ch[c], new[c]) /\ SameTargets(ch[c], new[c])
  BY <1>3, <1>5, <1>6, <1>7 DEF ChanRec, ChanFields, SameWork, SameTargets
<1>10. Settled(ch, new)
  <2> SUFFICES ASSUME NEW d \in Channel
               PROVE  /\ ChanRec(new[d]) /\ SameWork(ch[d], new[d]) /\ SameTargets(ch[d], new[d])
                      /\ new[d].jd => ch[d].jd
    BY <1>6 DEF Settled, Chans
  <2>1. CASE d = c
    BY <2>1, <1>7, <1>8, <1>9
  <2>2. CASE d # c
    BY <2>2, <1>6 DEF SameWork, SameTargets, Chans
  <2> QED
    BY <2>1, <2>2
<1> HIDE DEF built
<1>11. /\ DOMAIN k = CallFields /\ k.at = "payout" /\ k.c = c /\ k.built = built
       /\ k.why = call.why /\ k.tmpl = call.tmpl /\ k.prev = call.prev /\ k.first = call.first
       /\ k.diff = call.diff /\ k.q = call.q
  BY <1>2 DEF CallRec, CallFields
<1>12. CallRec(k)
  BY <1>4, <1>11 DEF CallRec, Labels, Channel
<1> QED
  BY <1>3, <1>7, <1>10, <1>11, <1>12 DEF Sends, new, k, send, built

\* The work of the template goes to the next channel the pool feeds, and the channels
\* that were passed over declare their jobs or count as raced.
Dispatched(t, ch, call, after, newest, new, k) ==
    /\ Settled(ch, new)
    /\ \/ k = Idle /\ \A c \in channels : c > after => new[c].jd \/ new[c].raced
       \/ /\ Sends(t, new, call, newest, k)
          /\ k.c \in channels /\ k.c > after /\ ~new[k.c].jd
          /\ \A c \in channels : after < c /\ c < k.c => new[c].jd

LEMMA BroadcastIs ==
    ASSUME NEW t, NEW ch, Chans(ch), NEW call, CallRec(call), NEW after \in Nat,
           NEW newest \in Nat, channels \subseteq Channel
    PROVE  LET b == Broadcast(t, ch, call, after, newest)
           IN  Dispatched(t, ch, call, after, newest, b.chan, b.call)
<1> DEFINE b == Broadcast(t, ch, call, after, newest)
           rest == {c \in channels : c > after}
           noticed == [c \in Channel |->
                          IF c \in rest /\ jdp THEN [ch[c] EXCEPT !.jd = TRUE] ELSE ch[c]]
           fed == {c \in rest : ~noticed[c].jd}
<1>1. b = IF conn.workSel /\ after = 0
          THEN [chan |-> CleanupExt(Missed(ch, channels)), call |-> Idle]
          ELSE IF fed = {} THEN [chan |-> CleanupExt(noticed), call |-> Idle]
          ELSE StartSend(t, noticed, Least(fed), call, newest)
  BY DEF Broadcast
<1>2. /\ DOMAIN noticed = Channel
      /\ \A c \in Channel : noticed[c] = ch[c] \/ noticed[c] = [ch[c] EXCEPT !.jd = TRUE]
      /\ \A c \in Channel \ channels : noticed[c] = ch[c]
  OBVIOUS
<1> HIDE DEF b, noticed
<1>3. Settled(ch, noticed)
  <2> SUFFICES ASSUME NEW c \in Channel
               PROVE  /\ ChanRec(noticed[c])
                      /\ SameWork(ch[c], noticed[c]) /\ SameTargets(ch[c], noticed[c])
    BY <1>2 DEF Settled, Chans
  <2>1. CASE noticed[c] = ch[c]
    BY <2>1 DEF SameWork, SameTargets, Chans
  <2>2. CASE noticed[c] = [ch[c] EXCEPT !.jd = TRUE]
    BY <2>2 DEF SameWork, SameTargets, Chans, ChanRec, ChanFields
  <2> QED
    BY <1>2, <2>1, <2>2
<1>4. Chans(noticed)
  BY <1>3 DEF Settled
<1>5. CASE conn.workSel /\ after = 0
  <2>1. Settled(ch, Missed(ch, channels)) /\ \A c \in channels : Missed(ch, channels)[c].raced
    BY MissedIs
  <2>2. Chans(Missed(ch, channels))
    BY <2>1 DEF Settled
  <2>3. Settled(Missed(ch, channels), CleanupExt(Missed(ch, channels)))
    BY <2>2, CleanupExtIs
  <2>4. Settled(ch, CleanupExt(Missed(ch, channels)))
    BY <2>1, <2>3, SettledTrans
  <2>5. \A c \in channels : CleanupExt(Missed(ch, channels))[c].raced
    BY <2>1, <2>3 DEF Settled, SameWork
  <2> QED
    BY <1>1, <1>5, <2>4, <2>5 DEF Dispatched, b
<1>6. CASE ~(conn.workSel /\ after = 0) /\ fed = {}
  <2>1. Settled(noticed, CleanupExt(noticed))
    BY <1>4, CleanupExtIs
  <2>2. Settled(ch, CleanupExt(noticed))
    BY <1>3, <2>1, SettledTrans
  <2>3. \A c \in channels : c > after => noticed[c].jd
    BY <1>6
  <2>4. \A c \in channels : c > after => CleanupExt(noticed)[c].jd
    BY <2>1, <2>3 DEF Settled, SameWork
  <2>5. b.chan = CleanupExt(noticed) /\ b.call = Idle
    BY <1>1, <1>6
  <2> QED
    BY <2>2, <2>4, <2>5 DEF Dispatched, b
<1>7. CASE ~(conn.workSel /\ after = 0) /\ fed # {}
  <2> DEFINE c == Least(fed)
             send == StartSend(t, noticed, c, call, newest)
  <2>1. c \in fed /\ \A d \in fed : c <= d
    <3>1. fed \in SUBSET Nat
      BY ChannelIs
    <3> HIDE DEF fed
    <3> QED
      BY <3>1, <1>7, LeastIs
  <2>2. c \in channels /\ c > after /\ ~noticed[c].jd /\ c \in Channel /\ c \in Nat
    <3>1. c \in fed
      BY <2>1
    <3> HIDE DEF c
    <3> QED
      BY <3>1, ChannelIs
  <2>3. \A d \in channels : after < d /\ d < c => noticed[d].jd
    <3> SUFFICES ASSUME NEW d \in channels, after < d, d < c, ~noticed[d].jd PROVE FALSE
      OBVIOUS
    <3>1. d \in fed /\ d \in Nat
      BY ChannelIs
    <3> HIDE DEF fed, c
    <3> QED
      BY <2>1, <2>2, <3>1
  <2>4. b = send
    BY <1>1, <1>7
  <2> HIDE DEF c, fed
  <2>5. Settled(noticed, send.chan) /\ Sends(t, send.chan, call, newest, send.call) /\ send.call.c = c
    BY <1>4, <2>2, StartSendIs
  <2>6. Settled(ch, send.chan)
    BY <1>3, <2>5, SettledTrans
  <2>7. send.chan[c].jd <=> noticed[c].jd
    <3>1. send.chan = [noticed EXCEPT ![c].raced = noticed[c].raced \/ call.tmpl # newest
                                                   \/ Overlaps(t, c, call)]
      BY DEF StartSend
    <3> QED
      BY <3>1, <1>4, <2>2 DEF Chans, ChanRec, ChanFields
  <2>8. \A d \in channels : after < d /\ d < c => send.chan[d].jd
    BY <2>3, <2>5 DEF Settled, SameWork
  <2> HIDE DEF send
  <2> QED
    BY <2>2, <2>4, <2>5, <2>6, <2>7, <2>8 DEF Dispatched, b
<1> QED
  BY <1>5, <1>6, <1>7

\* What follows a send: the opening ends, or ends with a subscription whose first
\* work is the newest template, or the next channel is served.
Replay == [Idle EXCEPT !.why = "replay", !.tmpl = Newest, !.prev = tmpls[Newest].clears]
Ended(t, ch) ==
    /\ task[t].why = "open" /\ ~task[t].first
    /\ chan' = ch /\ task'[t] = Idle /\ UNCHANGED <<conn, subs>>
Subscribes(t, ch) ==
    /\ task[t].why = "open" /\ task[t].first
    /\ Dispatched(t, ch, Replay, 0, Newest, chan', task'[t])
    /\ conn' = [conn EXCEPT !.sub = conn.nsub + 1, !.nsub = @ + 1, !.timer = TRUE]
    /\ \E clear : subs' = Subscribed(clear)
Continues(t, ch) ==
    /\ task[t].why # "open"
    /\ Dispatched(t, ch, task[t], task[t].c, Newest, chan', task'[t])
    /\ UNCHANGED <<conn, subs>>

LEMMA IdleIs == CallRec(Idle)
  BY DEF CallRec, Idle, CallFields, Labels, Working

LEMMA ReplayIs == ASSUME Typed PROVE CallRec(Replay)
  BY DEF Typed, StoreTyped, Replay, CallRec, Idle, CallFields, Labels, Working, Newest

LEMMA ProceedIs ==
    ASSUME Typed, NEW t \in Task, NEW ch, Chans(ch), Proceed(t, ch)
    PROVE  /\ Settled(ch, chan') /\ task' = [task EXCEPT ![t] = task'[t]]
           /\ Ended(t, ch) \/ Subscribes(t, ch) \/ Continues(t, ch)
<1>1. /\ DOMAIN task = Task /\ CallRec(task[t]) /\ task[t].c \in Nat /\ channels \subseteq Channel
      /\ clock \in Nat
  BY DEF Typed, Calls, CallRec, WorldTyped
<1>2. Newest \in Nat
  BY DEF Typed, StoreTyped, Newest
<1>3. CASE task[t].why = "open" /\ ~task[t].first
  BY <1>1, <1>3, SettledSelf DEF Proceed, Ended, Done, Put
<1>4. CASE task[t].why = "open" /\ task[t].first
  <2>1. PICK clear : Setup(t, ch, clear)
    BY <1>4 DEF Proceed
  <2> DEFINE from == IF tmpls[Newest].clears THEN Cleared(ch, clear) ELSE ch
             b == Broadcast(t, from, Replay, 0, Newest)
  <2>2. Settled(ch, from)
    BY <1>1, ClearedIs, SettledSelf
  <2>3. /\ chan' = b.chan /\ task' = [task EXCEPT ![t] = b.call] /\ subs' = Subscribed(clear)
        /\ conn' = [conn EXCEPT !.sub = conn.nsub + 1, !.nsub = @ + 1, !.timer = TRUE]
    BY <2>1 DEF Setup, Put, Replay
  <2> HIDE DEF from
  <2>4. Dispatched(t, from, Replay, 0, Newest, b.chan, b.call)
    BY <1>1, <1>2, <2>2, ReplayIs, BroadcastIs DEF Settled
  <2>5. Dispatched(t, ch, Replay, 0, Newest, b.chan, b.call)
    BY <2>2, <2>4, SettledTrans DEF Dispatched
  <2>6. task'[t] = b.call
    BY <1>1, <2>3
  <2> HIDE DEF b
  <2> QED
    BY <1>4, <2>3, <2>5, <2>6 DEF Subscribes, Dispatched
<1>5. CASE task[t].why # "open"
  <2> DEFINE b == Broadcast(t, ch, task[t], task[t].c, Newest)
  <2>1. chan' = b.chan /\ task' = [task EXCEPT ![t] = b.call] /\ UNCHANGED <<conn, subs>>
    BY <1>5 DEF Proceed, Put
  <2>2. Dispatched(t, ch, task[t], task[t].c, Newest, b.chan, b.call)
    BY <1>1, <1>2, BroadcastIs
  <2>3. task'[t] = b.call
    BY <1>1, <2>1
  <2> HIDE DEF b
  <2> QED
    BY <1>5, <2>1, <2>2, <2>3 DEF Continues, Dispatched
<1> QED
  BY <1>3, <1>4, <1>5

-------------------------------------------------------------------------------
(* Types. *)

LEMMA CallsStep ==
    ASSUME Typed, NEW t \in Task, NEW k, task' = [task EXCEPT ![t] = k], CallRec(k),
           conn'.next \in Nat, conn'.next >= conn.next, k.c < conn'.next
    PROVE  Calls'
<1>1. DOMAIN task' = Task /\ task'[t] = k /\ \A u \in Task \ {t} : task'[u] = task[u]
  BY DEF Typed, Calls
<1>2. SUFFICES ASSUME NEW u \in Task PROVE CallRec(task'[u]) /\ task'[u].c < conn'.next
  BY <1>1 DEF Calls
<1>3. CASE u = t
  BY <1>1, <1>3
<1>4. CASE u # t
  BY <1>1, <1>4 DEF Typed, Calls, CallRec, ConnTyped
<1> QED
  BY <1>3, <1>4

LEMMA CallsPut ==
    ASSUME Typed, NEW t \in Task, NEW k, task' = [task EXCEPT ![t] = k], CallRec(k),
           k.c < conn.next, conn'.next = conn.next
    PROVE  Calls'
<1>1. conn'.next \in Nat /\ conn'.next >= conn.next /\ k.c < conn'.next
  BY DEF Typed, ConnTyped
<1> QED
  BY <1>1, CallsStep

LEMMA IdleLess == ASSUME Typed PROVE Idle.c < conn.next
<1>1. Idle.c = 0
  BY DEF Idle
<1> QED
  BY <1>1 DEF Typed, ConnTyped

\* The call goes on where it is, or ends.
LEMMA GotoIs ==
    ASSUME Typed, NEW t \in Task, NEW label \in Labels, Goto(t, label),
           label \in Working => task[t].c \in Channel, conn'.next = conn.next
    PROVE  /\ task' = [task EXCEPT ![t] = task'[t]]
           /\ task'[t] = [task[t] EXCEPT !.at = label] /\ Calls'
<1> DEFINE k == [task[t] EXCEPT !.at = label]
<1>1. task' = [task EXCEPT ![t] = k] /\ task'[t] = k
  BY DEF Goto, Put, Typed, Calls
<1>2. CallRec(k) /\ k.c = task[t].c
  BY DEF CallRec, CallFields, Typed, Calls
<1> HIDE DEF k
<1>3. Calls'
  BY <1>1, <1>2, CallsStep DEF Typed, Calls, ConnTyped
<1> QED
  BY <1>1, <1>3 DEF k

LEMMA DoneIs ==
    ASSUME Typed, NEW t \in Task, Done(t), conn'.next = conn.next
    PROVE  /\ task' = [task EXCEPT ![t] = task'[t]] /\ task'[t] = Idle /\ Calls'
<1>1. task' = [task EXCEPT ![t] = Idle] /\ task'[t] = Idle
  BY DEF Done, Put, Typed, Calls
<1>2. conn'.next \in Nat /\ conn'.next >= conn.next /\ Idle.c < conn'.next
  BY IdleLess DEF Typed, ConnTyped
<1>3. Calls'
  BY <1>1, <1>2, IdleIs, CallsStep
<1> QED
  BY <1>1, <1>3

\* What a send is followed by leaves the types, and the kinds of the channels.
LEMMA DispatchedTyped ==
    ASSUME Typed, NEW t, NEW ch, NEW call, NEW after, NEW newest, NEW new, NEW k,
           Dispatched(t, ch, call, after, newest, new, k)
    PROVE  CallRec(k) /\ k.c < conn.next
<1>1. CASE k = Idle
  BY <1>1, IdleIs, IdleLess
<1>2. CASE k # Idle
  BY <1>2 DEF Dispatched, Sends, Typed, ConnTyped
<1> QED
  BY <1>1, <1>2

LEMMA ProceedTyped ==
    ASSUME Typed, NEW t \in Task, NEW ch, Chans(ch), Proceed(t, ch), UNCHANGED channels,
           \A c \in Channel : ch[c].kind = chan[c].kind /\ (ch[c].jd => chan[c].jd)
    PROVE  /\ Chans(chan)' /\ Calls' /\ ConnTyped'
           /\ \A c \in Channel : chan'[c].kind = chan[c].kind
<1>1. /\ Settled(ch, chan') /\ task' = [task EXCEPT ![t] = task'[t]]
      /\ Ended(t, ch) \/ Subscribes(t, ch) \/ Continues(t, ch)
  BY ProceedIs
<1>2. Chans(chan)' /\ \A c \in Channel : chan'[c].kind = chan[c].kind
  BY <1>1 DEF Settled, SameWork
<1>3. CallRec(task'[t]) /\ task'[t].c < conn.next
  <2>1. CASE task'[t] = Idle
    BY <2>1, IdleIs, IdleLess
  <2>2. CASE task'[t] # Idle
    BY <1>1, <2>2, DispatchedTyped DEF Ended, Subscribes, Continues
  <2> QED
    BY <2>1, <2>2
<1>4. /\ DOMAIN conn' = ConnFields /\ conn'.next = conn.next /\ conn'.prefix = conn.prefix
      /\ conn'.primary = conn.primary /\ conn'.accepted = conn.accepted
      /\ conn'.destroyed = conn.destroyed /\ conn'.timer \in BOOLEAN
  <2>1. CASE UNCHANGED conn
    BY <2>1 DEF Typed, ConnTyped
  <2>2. CASE conn' = [conn EXCEPT !.sub = conn.nsub + 1, !.nsub = @ + 1, !.timer = TRUE]
    BY <2>2 DEF Typed, ConnTyped, ConnFields
  <2> QED
    BY <1>1, <2>1, <2>2 DEF Ended, Subscribes, Continues
<1>5. Calls'
  BY <1>1, <1>3, <1>4, CallsStep DEF Typed, ConnTyped
<1>6. \A c \in Channel : chan'[c].jd => c < conn.next
  <2> SUFFICES ASSUME NEW c \in Channel, chan'[c].jd PROVE c < conn.next
    OBVIOUS
  <2>1. c \in channels \/ ch[c].jd
    BY <1>1 DEF Settled
  <2> QED
    BY <2>1 DEF Typed, ConnTyped
<1>7. ConnTyped'
  BY <1>4, <1>6 DEF Typed, ConnTyped
<1> QED
  BY <1>2, <1>5, <1>7

LEMMA TypedInit == Init => Typed
<1> SUFFICES ASSUME Init PROVE Typed
  OBVIOUS
<1>1. PICK k \in Cases :
        /\ env = [port |-> k.port, tdp |-> k.tdp, rates |-> k.rates, limits |-> k.limits]
        /\ scheme = IF k.port = "pplns" THEN "pplns" ELSE "solo"
        /\ conn = IF Len(k.open) = 0 THEN Fresh ELSE Started(Len(k.open), k.open)
        /\ channels = 1..Len(k.open)
        /\ chan = [c \in Channel |->
                     IF c <= Len(k.open) THEN Opened(k.open[c], c, scheme) ELSE NoChannel]
        /\ DOMAIN store = StoreFields /\ store.tip = 0 /\ store.nextTemplate = 2
        /\ used = {c \in 1..Len(k.open) : k.open[c] = "extended"}
  <2> DEFINE first == NewTemplate(EmptyStore, 0, 0)
  <2>1. DOMAIN first = StoreFields /\ first.tip = 0 /\ first.nextTemplate = 2
    <3> DEFINE cleaned == Cleanup(EmptyStore, ClearsJobs(EmptyStore, 0), 0)
    <3>1. DOMAIN cleaned = StoreFields
      BY DEF Cleanup, EmptyStore, StoreFields
    <3> HIDE DEF cleaned
    <3>2. EmptyStore.nextTemplate = 1
      BY DEF EmptyStore
    <3> QED
      BY <3>1, <3>2 DEF NewTemplate, cleaned, StoreFields
  <2> HIDE DEF first
  <2>2. PICK k \in Cases :
        /\ env = [port |-> k.port, tdp |-> k.tdp, rates |-> k.rates, limits |-> k.limits]
        /\ scheme = IF k.port = "pplns" THEN "pplns" ELSE "solo"
        /\ conn = IF Len(k.open) = 0 THEN Fresh ELSE Started(Len(k.open), k.open)
        /\ channels = 1..Len(k.open)
        /\ chan = [c \in Channel |->
                     IF c <= Len(k.open) THEN Opened(k.open[c], c, scheme) ELSE NoChannel]
        /\ store = [first EXCEPT
                       !.jobs = [j \in 1..Len(k.open) |->
                            [tmpl |-> 1, made |-> 0, retired |-> Active, route |-> scheme]],
                       !.nextJob = Len(k.open) + 1]
        /\ used = {c \in 1..Len(k.open) : k.open[c] = "extended"}
    BY DEF Init, first
  <2>3. DOMAIN store = StoreFields /\ store.tip = 0 /\ store.nextTemplate = 2
    BY <2>1, <2>2 DEF StoreFields
  <2> QED
    BY <2>2, <2>3
<1> DEFINE n == Len(k.open)
<1>2. /\ n \in Nat /\ n <= MaxChannels /\ n <= MaxPrefix
      /\ \A c \in 1..n : k.open[c] \in {"standard", "extended"}
      /\ k.port \in Port /\ k.rates \subseteq Nat \ {0} /\ k.limits \subseteq Nat
  BY <1>1, SessionAssumption
<1>3. ChanRec(NoChannel)
  BY DEF NoChannel, ChanRec, ChanFields, Empty
<1>4. ASSUME NEW c \in 1..n PROVE ChanRec(Opened(k.open[c], c, scheme))
                                /\ Opened(k.open[c], c, scheme).kind = k.open[c]
                                /\ ~Opened(k.open[c], c, scheme).jd
  <2> DEFINE o == Opened(k.open[c], c, scheme)
             job == [tmpl |-> 1, built |-> 1, prev |-> 0, made |-> 0, retired |-> Active,
                     late |-> FALSE, route |-> scheme, nth |-> 1]
  <2>1. /\ DOMAIN o = ChanFields /\ o.diff = InitialDiff /\ o.told = InitialDiff /\ o.max = 0
        /\ o.jobDiff = With(Empty, c, InitialDiff)
        /\ o.ext = IF k.open[c] = "extended" THEN With(Empty, c, job) ELSE Empty
        /\ o.kind = k.open[c] /\ o.jd = FALSE
    BY DEF Opened, NoChannel, ChanFields
  <2> HIDE DEF o
  <2>2. DOMAIN job = ExtFields
    BY DEF ExtFields
  <2> HIDE DEF job
  <2>3. \A j \in DOMAIN o.jobDiff : o.jobDiff[j] = InitialDiff
    BY <2>1 DEF With, Empty
  <2>4. \A j \in DOMAIN o.ext : o.ext[j] = job
    BY <2>1 DEF With, Empty
  <2> QED
    BY <2>1, <2>2, <2>3, <2>4, SessionAssumption DEF ChanRec, o
<1> HIDE DEF n
<1>5. Chans(chan)
  BY <1>1, <1>2, <1>3, <1>4 DEF Chans, Channel, n
<1>6. /\ DOMAIN conn = ConnFields /\ conn.next = n + 1 /\ conn.prefix = n + 1
      /\ conn.primary = (IF n = 0 THEN 0 ELSE 1)
      /\ conn.accepted \in Nat /\ conn.timer \in BOOLEAN /\ conn.destroyed = FALSE
  <2>1. conn = IF n = 0 THEN Fresh ELSE Started(n, k.open)
    BY <1>1 DEF n
  <2>2. Warmup \in Nat
    BY SessionAssumption
  <2>3. CASE n = 0
    BY <2>1, <2>3 DEF Fresh, ConnFields
  <2>4. CASE n # 0
    BY <2>1, <2>2, <2>4 DEF Fresh, Started, ConnFields
  <2> QED
    BY <2>3, <2>4
<1>7. ConnTyped
  <2>1. \A c \in Channel : ~chan[c].jd
    <3>1. ~NoChannel.jd
      BY DEF NoChannel
    <3>2. \A c \in Channel : c <= n => c \in 1..n
      BY <1>2, SessionAssumption DEF Channel
    <3>3. \A c \in Channel : chan[c] = IF c <= n THEN Opened(k.open[c], c, scheme) ELSE NoChannel
      BY <1>1 DEF n
    <3> QED
      BY <1>4, <3>1, <3>2, <3>3
  <2>2. channels = 1..n
    BY <1>1 DEF n
  <2>3. \A c \in channels : c < conn.next
    BY <1>2, <1>6, <2>2
  <2>4. conn.primary \in channels \cup {0} /\ (channels # {} => conn.primary # 0)
    <3>1. CASE n = 0
      BY <1>6, <2>2, <3>1
    <3>2. CASE n # 0
      BY <1>2, <1>6, <2>2, <3>2
    <3> QED
      BY <3>1, <3>2
  <2>5. conn.next \in Nat /\ conn.next > 0 /\ conn.prefix \in Nat
    BY <1>2, <1>6
  <2> QED
    BY <1>6, <2>1, <2>3, <2>4, <2>5 DEF ConnTyped
<1>8. Calls
  <2>1. task = [t \in Task |-> Idle] /\ Idle.c = 0
    BY DEF Init, Idle
  <2>2. 0 < conn.next
    BY <1>2, <1>6
  <2> QED
    BY <2>1, <2>2, IdleIs DEF Calls
<1>9. channels \subseteq Channel /\ used \subseteq 1..MaxPrefix
  BY <1>1, <1>2, SessionAssumption DEF Channel, n
<1>10. \A c \in channels : chan[c].kind \in {"standard", "extended"}
  BY <1>1, <1>2, <1>4, <1>9 DEF n
<1>11. WorldTyped
  BY <1>1, <1>2, <1>9, <1>10 DEF WorldTyped, Init, Port, Schemes
<1>12. StoreTyped
  BY <1>1 DEF StoreTyped, Init, Templates, Newest
<1> QED
  BY <1>5, <1>7, <1>8, <1>11, <1>12 DEF Typed

-------------------------------------------------------------------------------
(* What the steps write. *)

LEMMA ChansStep ==
    ASSUME NEW ch, Chans(ch), NEW c \in Channel, NEW r, ChanRec(r),
           NEW new, new = [ch EXCEPT ![c] = r]
    PROVE  Chans(new) /\ new[c] = r /\ \A d \in Channel \ {c} : new[d] = ch[d]
  BY DEF Chans

\* s is r without a word about targets.
SameJobs(r, s) ==
    /\ s.kind = r.kind /\ s.jd = r.jd /\ s.prefix = r.prefix /\ s.shared = r.shared
    /\ s.tip = r.tip /\ s.mined = r.mined /\ s.last = r.last /\ s.latest = r.latest
    /\ s.misnamed = r.misnamed /\ s.raced = r.raced /\ s.roots = r.roots /\ s.ext = r.ext
    /\ s.jobDiff = r.jobDiff /\ DOMAIN s.asked = DOMAIN r.asked
    /\ s.seen = r.seen /\ s.kept = r.kept

Retargeted(r, s, diff) ==
    /\ SameJobs(r, s) /\ s.max = r.max /\ s.ignored = r.ignored
    /\ s.diff = diff /\ s.told = (IF Writable THEN diff ELSE r.told)
    /\ \A j \in DOMAIN r.asked :
            s.asked[j] = IF Writable THEN r.asked[j] \cup {diff} ELSE r.asked[j]

LEMMA TargetIs ==
    ASSUME NEW ch, Chans(ch), NEW c \in Channel, NEW diff \in Nat
    PROVE  LET new == Target(ch, c, diff)
           IN  /\ Chans(new) /\ Retargeted(ch[c], new[c], diff)
               /\ \A d \in Channel \ {c} : new[d] = ch[d]
<1> DEFINE told == IF Writable THEN diff ELSE ch[c].told
           asked == IF Writable THEN [j \in DOMAIN ch[c].asked |-> ch[c].asked[j] \cup {diff}]
                    ELSE ch[c].asked
           r == [ch[c] EXCEPT !.diff = diff, !.told = told, !.asked = asked]
           new == Target(ch, c, diff)
<1>1. ChanRec(ch[c]) /\ DOMAIN ch = Channel
  BY DEF Chans
<1>2. /\ DOMAIN asked = DOMAIN ch[c].asked /\ told \in Nat
      /\ \A j \in DOMAIN ch[c].asked :
            asked[j] = IF Writable THEN ch[c].asked[j] \cup {diff} ELSE ch[c].asked[j]
  BY <1>1 DEF ChanRec
<1>3. new = [ch EXCEPT ![c] = r]
  BY <1>1 DEF Target, ChanRec, ChanFields
<1> HIDE DEF asked
<1>4. ChanRec(r)
  BY <1>1, <1>2 DEF ChanRec, ChanFields
<1>5. Retargeted(ch[c], r, diff)
  BY <1>1, <1>2 DEF ChanRec, ChanFields, Retargeted, SameJobs
<1> HIDE DEF r, new
<1>6. Chans(new) /\ new[c] = r /\ \A d \in Channel \ {c} : new[d] = ch[d]
  BY <1>3, <1>4 DEF Chans
<1> QED
  BY <1>5, <1>6 DEF new

\* A job is written to channel c by t.
Written(t, r, s) ==
    LET j == store.nextJob
    IN  /\ s.kind = r.kind /\ s.jd = r.jd /\ s.prefix = r.prefix /\ s.tip = r.tip
        /\ s.latest = r.latest /\ s.misnamed = r.misnamed /\ s.raced = r.raced
        /\ s.roots = r.roots /\ s.ext = r.ext /\ s.jobDiff = r.jobDiff /\ s.diff = r.diff
        /\ s.told = r.told /\ s.max = r.max /\ s.ignored = r.ignored
        /\ s.seen = r.seen /\ s.kept = r.kept
        /\ s.shared = r.shared \cup ({j} \cap DOMAIN r.asked)
        /\ s.asked = (IF Writable THEN With(r.asked, j, {r.told}) ELSE r.asked)
        /\ s.mined = (IF Writable THEN With(r.mined, j, IF task[t].prev THEN Nowhere ELSE r.tip)
                      ELSE r.mined)
        /\ s.last = (IF Writable THEN j ELSE r.last)

Writes(t) ==
    LET c == task[t].c
    IN  /\ store.nextJob \in Job
        /\ store' = AddJob(store, StoreJob(task[t].built, task[t].route))
        /\ Written(t, chan[c], chan'[c]) /\ \A d \in Channel \ {c} : chan'[d] = chan[d]
        /\ task' = [task EXCEPT ![t] = task'[t]]
        /\ task'[t] = [task[t] EXCEPT !.at = "sent", !.job = store.nextJob]
        /\ UNCHANGED <<conn, subs>>

\* The distribution is there: the job is written, or was sent before.
LEMMA PayoutIs ==
    ASSUME Typed, NEW t \in Task, Payout(t)
    PROVE  /\ task[t].at = "payout" /\ task[t].c \in Channel
           /\ UNCHANGED <<clock, tmpls, turned, world, channels, used, sock, destroys, budget,
                          ghost>>
           /\ \/ Writes(t) /\ Chans(chan)'
              \/ ~task[t].prev /\ Proceed(t, chan) /\ UNCHANGED store
<1> DEFINE c == task[t].c
           j == store.nextJob
           r == chan[c]
           sig == <<tmpls[task[t].built].content, task[t].route>>
           asked == IF Writable THEN With(r.asked, j, {r.told}) ELSE r.asked
           mined == IF Writable THEN With(r.mined, j, IF task[t].prev THEN Nowhere ELSE r.tip)
                    ELSE r.mined
           last == IF Writable THEN j ELSE r.last
           shared == r.shared \cup ({j} \cap DOMAIN r.asked)
           s == [r EXCEPT !.sig = sig, !.asked = asked, !.mined = mined, !.last = last,
                          !.shared = shared]
<1>1. /\ task[t].at = "payout" /\ c \in Channel
      /\ ChanRec(r) /\ DOMAIN chan = Channel
  BY DEF Payout, Typed, Calls, Chans, CallRec, Working
<1>2. UNCHANGED <<clock, tmpls, turned, world, channels, used, sock, destroys, budget, ghost>>
  BY DEF Payout
<1>3. \/ ~task[t].prev /\ Proceed(t, chan) /\ UNCHANGED store
      \/ /\ j \in Job /\ store' = AddJob(store, StoreJob(task[t].built, task[t].route))
         /\ chan' = [chan EXCEPT ![c] = s]
         /\ Put(t, [task[t] EXCEPT !.at = "sent", !.job = j])
         /\ UNCHANGED <<conn, subs>>
  <2>1. /\ r.asked = chan[c].asked /\ r.told = chan[c].told
    OBVIOUS
  <2> QED
    BY DEF Payout
<1>4. ASSUME j \in Job, store' = AddJob(store, StoreJob(task[t].built, task[t].route)),
             chan' = [chan EXCEPT ![c] = s],
             Put(t, [task[t] EXCEPT !.at = "sent", !.job = j]), UNCHANGED <<conn, subs>>
      PROVE  Writes(t) /\ Chans(chan)'
  <2>1. /\ task' = [task EXCEPT ![t] = task'[t]]
        /\ task'[t] = [task[t] EXCEPT !.at = "sent", !.job = j]
    BY <1>4 DEF Put, Typed, Calls
  <2> HIDE DEF asked, mined, last, shared, sig, r
  <2>2. ChanRec(s)
    BY <1>1 DEF ChanRec, ChanFields
  <2>3. /\ s.kind = r.kind /\ s.jd = r.jd /\ s.prefix = r.prefix /\ s.tip = r.tip
        /\ s.latest = r.latest /\ s.misnamed = r.misnamed /\ s.raced = r.raced
        /\ s.roots = r.roots /\ s.ext = r.ext /\ s.jobDiff = r.jobDiff /\ s.diff = r.diff
        /\ s.told = r.told /\ s.max = r.max /\ s.ignored = r.ignored
        /\ s.shared = shared /\ s.asked = asked /\ s.mined = mined /\ s.last = last
    BY <1>1 DEF ChanRec, ChanFields
  <2>4. Written(t, r, s)
    BY <2>3 DEF Written, asked, mined, last, shared
  <2> HIDE DEF s
  <2>5. Chans(chan)' /\ chan'[c] = s /\ \A d \in Channel \ {c} : chan'[d] = chan[d]
    BY <1>1, <1>4, <2>2, ChansStep DEF Typed
  <2> QED
    BY <1>4, <2>1, <2>4, <2>5 DEF Writes, r
<1> QED
  BY <1>1, <1>2, <1>3, <1>4

\* The job of t is recorded in channel c, and named to the miner.
IsRecorded(t, r, s) ==
    LET j == task[t].job
        tip == tmpls[task[t].built].tip
        extended == r.kind = "extended"
        named == task[t].prev /\ Writable
    IN  /\ s.kind = r.kind /\ s.jd = r.jd /\ s.prefix = r.prefix /\ s.shared = r.shared
        /\ s.asked = r.asked /\ s.told = r.told /\ s.diff = r.diff /\ s.max = r.max
        /\ s.ignored = r.ignored /\ s.last = r.last /\ s.raced = r.raced
        /\ s.seen = r.seen /\ s.kept = r.kept
        /\ s.jobDiff = With(r.jobDiff, j, r.diff)
        /\ s.roots = (IF extended THEN r.roots ELSE r.roots \cup {j})
        /\ s.ext = (IF extended
                    THEN With(r.ext, j,
                              ExtJob(task[t].tmpl, task[t].built, PrevHash(t), task[t].route,
                                     After(r.ext)))
                    ELSE r.ext)
        /\ s.latest = (IF extended THEN PrevHash(t) ELSE r.latest)
        /\ s.tip = (IF named THEN tip ELSE r.tip)
        /\ s.mined = (IF named THEN With(r.mined, j, tip) ELSE r.mined)
        /\ s.misnamed => r.misnamed \/ (named /\ ~r.raced /\ r.last # j)

\* A job of an extended channel is late when it is not for the tip.
LEMMA ExtJobIs ==
    ASSUME NEW m, NEW b, NEW p, NEW r, NEW n
    PROVE  LET job == ExtJob(m, b, p, r, n)
           IN  /\ DOMAIN job = ExtFields /\ job.prev = p /\ job.retired = Active
               /\ job.late = (p # store.tip)
  BY DEF ExtJob, ExtFields

LEMMA SentIs ==
    ASSUME Typed, NEW t \in Task, Sent(t)
    PROVE  /\ task[t].at = "sent" /\ task[t].c \in Channel
           /\ UNCHANGED <<base, world, channels, used, sock, destroys, budget, ghost>>
           /\ \E next :
                /\ Chans(next) /\ IsRecorded(t, chan[task[t].c], next[task[t].c])
                /\ \A d \in Channel \ {task[t].c} : next[d] = chan[d]
                /\ \/ /\ task[t].prev /\ chan' = next /\ UNCHANGED <<conn, subs>>
                      /\ Goto(t, "prev")
                   \/ ~task[t].prev /\ Proceed(t, next)
<1> DEFINE c == task[t].c
           j == task[t].job
           r == chan[c]
           tip == tmpls[task[t].built].tip
           extended == r.kind = "extended"
           named == task[t].prev /\ Writable
           jobDiff == With(r.jobDiff, j, r.diff)
           roots == IF extended THEN r.roots ELSE r.roots \cup {j}
           ext == IF extended
                  THEN With(r.ext, j, ExtJob(task[t].tmpl, task[t].built, PrevHash(t), task[t].route,
                                             After(r.ext)))
                  ELSE r.ext
           latest == IF extended THEN PrevHash(t) ELSE r.latest
           newTip == IF named THEN tip ELSE r.tip
           mined == IF named THEN With(r.mined, j, tip) ELSE r.mined
           misnamed == r.misnamed \/ (named /\ ~r.raced /\ r.last # j)
           s == [r EXCEPT !.jobDiff = jobDiff, !.roots = roots, !.ext = ext, !.latest = latest,
                          !.tip = newTip, !.mined = mined, !.misnamed = misnamed]
           next == [chan EXCEPT ![c] = s]
<1>1. /\ task[t].at = "sent" /\ c \in Channel
      /\ ChanRec(r) /\ DOMAIN chan = Channel
  BY DEF Sent, Typed, Calls, Chans, CallRec, Working
<1>2. UNCHANGED <<base, world, channels, used, sock, destroys, budget, ghost>>
  BY DEF Sent
<1>3. \/ task[t].prev /\ chan' = next /\ Goto(t, "prev") /\ UNCHANGED <<conn, subs>>
      \/ ~task[t].prev /\ Proceed(t, next)
  BY DEF Sent
<1>4. \A k \in DOMAIN jobDiff : jobDiff[k] \in Nat
  BY <1>1 DEF With, ChanRec
<1>5. \A k \in DOMAIN ext : DOMAIN ext[k] = ExtFields
  <2>1. CASE extended
    <3> DEFINE job == ExtJob(task[t].tmpl, task[t].built, PrevHash(t), task[t].route, After(r.ext))
    <3>1. DOMAIN job = ExtFields
      BY ExtJobIs
    <3> HIDE DEF job
    <3>2. ext = With(r.ext, j, job)
      BY <2>1 DEF job
    <3> QED
      BY <1>1, <3>1, <3>2 DEF With, ChanRec
  <2>2. CASE ~extended
    BY <1>1, <2>2 DEF ChanRec
  <2> QED
    BY <2>1, <2>2
<1> HIDE DEF jobDiff, roots, ext, latest, newTip, mined, misnamed, r
<1>6. ChanRec(s)
  BY <1>1, <1>4, <1>5 DEF ChanRec, ChanFields
<1>7. /\ s.kind = r.kind /\ s.jd = r.jd /\ s.prefix = r.prefix /\ s.shared = r.shared
      /\ s.asked = r.asked /\ s.told = r.told /\ s.diff = r.diff /\ s.max = r.max
      /\ s.ignored = r.ignored /\ s.last = r.last /\ s.raced = r.raced
      /\ s.seen = r.seen /\ s.kept = r.kept
      /\ s.jobDiff = jobDiff /\ s.roots = roots /\ s.ext = ext /\ s.latest = latest
      /\ s.tip = newTip /\ s.mined = mined /\ s.misnamed = misnamed
  BY <1>1 DEF ChanRec, ChanFields
<1>8. IsRecorded(t, r, s)
  BY <1>7 DEF IsRecorded, jobDiff, roots, ext, latest, newTip, mined, misnamed
<1> HIDE DEF s
<1>9. Chans(next) /\ next[c] = s /\ \A d \in Channel \ {c} : next[d] = chan[d]
  BY <1>1, <1>6 DEF Typed, Chans
<1> HIDE DEF next
<1> QED
  BY <1>1, <1>2, <1>3, <1>8, <1>9 DEF r

LEMMA GrantedIs ==
    ASSUME Typed, NEW rate \in env.rates, NEW limit \in env.limits
    PROVE  /\ Granted(rate, limit) \in Nat /\ limit \in Nat /\ Granted(rate, limit) >= limit
           /\ Granted(rate, limit) > 0
           /\ env.port = "pplns" => Granted(rate, limit) >= Floor
  BY SessionAssumption DEF Typed, WorldTyped, Granted, Highest

\* A channel that was just opened.
New(kind, rate, limit, s) ==
    /\ s.kind = kind /\ (s.jd => kind = "extended" /\ jdp)
    /\ s.diff = Granted(rate, limit) /\ s.max = limit
    /\ s.prefix = (IF kind = "extended" THEN NextPrefix ELSE 0)
    /\ s.told = (IF channels = {} THEN 0 ELSE s.diff)
    /\ s.jobDiff = Empty /\ s.asked = Empty /\ s.ext = Empty /\ s.mined = Empty
    /\ s.roots = {} /\ s.shared = {} /\ s.tip = Nowhere /\ s.last = 0 /\ s.seen = {}
    /\ ~s.raced /\ ~s.misnamed /\ ~s.ignored

LEMMA OpenIs ==
    ASSUME Typed, NEW t \in Task, NEW kind \in {"standard", "extended"},
           NEW rate \in env.rates, NEW limit \in env.limits, Open(t, kind, rate, limit)
    PROVE  LET c == conn.next
           IN  /\ c \in Channel /\ c \notin channels /\ Writable
               /\ channels' = channels \cup {c}
               /\ Chans(chan)' /\ New(kind, rate, limit, chan'[c])
               /\ \A d \in Channel \ {c} : chan'[d] = chan[d]
               /\ task[t] = Idle /\ task' = [task EXCEPT ![t] = task'[t]]
               /\ CallRec(task'[t]) /\ task'[t].c = c /\ task'[t].why = "open"
               /\ task'[t].at \in {"success", "create", "entity"}
               /\ task'[t].first = (channels = {}) /\ task'[t].prev = FALSE
               /\ used' = (IF kind = "extended" THEN used \cup {NextPrefix} ELSE used)
               /\ kind = "extended" => ~Exhausted
               /\ DOMAIN conn' = ConnFields /\ conn'.next = c + 1
               /\ conn'.prefix = (IF kind = "extended" THEN (NextPrefix % MaxPrefix) + 1
                                  ELSE conn.prefix)
               /\ conn'.primary = (IF channels = {} THEN c ELSE conn.primary)
               /\ conn'.accepted = conn.accepted /\ conn'.timer = conn.timer
               /\ conn'.destroyed = conn.destroyed /\ conn'.refused = conn.refused
               /\ conn'.leaky = conn.leaky /\ conn'.sub = conn.sub
               /\ UNCHANGED <<base, world, subs, sock, destroys, ghost>>
<1> DEFINE c == conn.next
           diff == Granted(rate, limit)
           first == channels = {}
           extended == kind = "extended"
           jd == extended /\ jdp
           prefix == IF extended THEN NextPrefix ELSE 0
           told == IF first THEN 0 ELSE diff
           s == [NoChannel EXCEPT !.kind = kind, !.jd = jd, !.diff = diff, !.max = limit,
                                  !.prefix = prefix, !.told = told]
           at == IF ~first THEN "success" ELSE IF conn.creating = "none" THEN "create" ELSE "entity"
           k == [Idle EXCEPT !.why = "open", !.c = c, !.first = first, !.jd = jd, !.at = at]
<1>1. /\ c \in Channel /\ Writable /\ task[t] = Idle /\ channels' = channels \cup {c}
      /\ chan' = [chan EXCEPT ![c] = s] /\ (extended => ~Exhausted)
      /\ used' = (IF extended THEN used \cup {NextPrefix} ELSE used)
      /\ task' = [task EXCEPT ![t] = k]
      /\ UNCHANGED <<base, world, subs, sock, destroys, ghost>>
  BY DEF Open, Frame, Free, Writable, Put
<1>2. diff \in Nat /\ limit \in Nat /\ told \in Nat
  BY GrantedIs
<1>3. c \notin channels /\ c \in Nat
  BY DEF Typed, ConnTyped
<1>4. task'[t] = k
  BY <1>1 DEF Typed, Calls
<1> HIDE DEF diff, prefix, told, jd, at
<1>5. ChanRec(s)
  BY <1>2 DEF NoChannel, ChanRec, ChanFields, Empty
<1>6. New(kind, rate, limit, s)
  <2>1. /\ s.kind = kind /\ s.jd = jd /\ s.diff = diff /\ s.max = limit /\ s.prefix = prefix
        /\ s.told = told /\ s.jobDiff = Empty /\ s.asked = Empty /\ s.ext = Empty
        /\ s.mined = Empty /\ s.roots = {} /\ s.shared = {} /\ s.tip = Nowhere /\ s.last = 0
        /\ s.seen = {} /\ s.raced = FALSE /\ s.misnamed = FALSE /\ s.ignored = FALSE
    BY DEF NoChannel
  <2> QED
    BY <2>1 DEF New, diff, prefix, told, jd
<1> HIDE DEF s
<1>7. Chans(chan)' /\ chan'[c] = s /\ \A d \in Channel \ {c} : chan'[d] = chan[d]
  BY <1>1, <1>5 DEF Typed, Chans
<1>8. at \in {"success", "create", "entity"}
  BY DEF at
<1> HIDE DEF first
<1>9. /\ DOMAIN k = CallFields /\ k.why = "open" /\ k.c = c /\ k.first = first /\ k.at = at
      /\ k.prev = FALSE /\ k.diff = 0 /\ k.q = 0 /\ k.tmpl = 0 /\ k.built = 0
  BY DEF Idle, CallFields
<1>10. CallRec(k)
  BY <1>1, <1>3, <1>8, <1>9 DEF CallRec, Labels, Working
<1>11. conn' = [conn EXCEPT
                 !.next = c + 1,
                 !.prefix = IF extended THEN (NextPrefix % MaxPrefix) + 1 ELSE @,
                 !.diff = IF first THEN diff ELSE @,
                 !.primary = IF first THEN c ELSE @,
                 !.registered = @ \/ first,
                 !.creating = IF first /\ @ = "none" THEN "pending" ELSE @]
  BY DEF Open, first, diff
<1>12. /\ DOMAIN conn' = ConnFields /\ conn'.next = c + 1
       /\ conn'.prefix = (IF extended THEN (NextPrefix % MaxPrefix) + 1 ELSE conn.prefix)
       /\ conn'.primary = (IF first THEN c ELSE conn.primary)
       /\ conn'.accepted = conn.accepted /\ conn'.timer = conn.timer
       /\ conn'.destroyed = conn.destroyed /\ conn'.refused = conn.refused
       /\ conn'.leaky = conn.leaky /\ conn'.sub = conn.sub
  BY <1>11 DEF Typed, ConnTyped, ConnFields
<1> HIDE DEF k
<1> QED
  BY <1>1, <1>3, <1>4, <1>6, <1>7, <1>8, <1>9, <1>10, <1>12 DEF first

\* A target is told to the next channel, if there is one left.
LEMMA TellIs ==
    ASSUME Typed, NEW t \in Task, Tell(t)
    PROVE  /\ task[t].at \in Telling
           /\ UNCHANGED <<base, world, conn, channels, subs, used, sock, destroys, budget, ghost>>
           /\ task' = [task EXCEPT ![t] = task'[t]]
           /\ \/ /\ \A c \in channels : c <= task[t].c
                 /\ chan' = chan /\ task'[t] = Idle
              \/ \E c \in channels :
                    /\ c > task[t].c /\ \A d \in channels : d > task[t].c => c <= d
                    /\ Chans(chan)' /\ Clamped(c, task[t].diff) \in Nat
                    /\ Retargeted(chan[c], chan'[c], Clamped(c, task[t].diff))
                    /\ \A d \in Channel \ {c} : chan'[d] = chan[d]
                    /\ task'[t] = [task[t] EXCEPT !.at = "targets", !.c = c]
                    /\ CallRec(task'[t])
<1> DEFINE rest == {c \in channels : c > task[t].c}
           c == Least(rest)
           k == [task[t] EXCEPT !.at = "targets", !.c = c]
<1>1. /\ CallRec(task[t]) /\ task[t].c \in Nat /\ task[t].diff \in Nat
      /\ DOMAIN task = Task /\ channels \subseteq Channel /\ Chans(chan)
  BY DEF Typed, Calls, CallRec, WorldTyped
<1>2. /\ task[t].at \in Telling
      /\ UNCHANGED <<base, world, conn, channels, subs, used, sock, destroys, budget, ghost>>
      /\ \/ rest = {} /\ chan' = chan /\ Done(t)
         \/ rest # {} /\ chan' = Target(chan, c, Clamped(c, task[t].diff)) /\ Put(t, k)
  BY DEF Tell, Targets, Telling
<1>3. CASE rest = {} /\ chan' = chan /\ Done(t)
  <2>1. task' = [task EXCEPT ![t] = Idle] /\ task'[t] = Idle
    BY <1>1, <1>3 DEF Done, Put
  <2>2. \A d \in channels : d <= task[t].c
    BY <1>1, <1>3, ChannelIs
  <2> QED
    BY <1>2, <1>3, <2>1, <2>2
<1>4. CASE rest # {} /\ chan' = Target(chan, c, Clamped(c, task[t].diff)) /\ Put(t, k)
  <2>1. c \in rest /\ \A d \in rest : c <= d
    <3>1. rest \in SUBSET Nat
      BY <1>1, ChannelIs
    <3> HIDE DEF rest
    <3> QED
      BY <1>4, <3>1, LeastIs
  <2>2. task' = [task EXCEPT ![t] = k] /\ task'[t] = k
    BY <1>1, <1>4 DEF Put
  <2> HIDE DEF c
  <2>3. c \in channels /\ c > task[t].c /\ \A d \in channels : d > task[t].c => c <= d
    BY <2>1
  <2>4. c \in Channel /\ c \in Nat
    BY <1>1, <2>3, ChannelIs
  <2>5. Clamped(c, task[t].diff) \in Nat
    BY <1>1, <2>4 DEF Clamped, Highest, Chans, ChanRec
  <2>6. /\ Chans(chan)' /\ Retargeted(chan[c], chan'[c], Clamped(c, task[t].diff))
        /\ \A d \in Channel \ {c} : chan'[d] = chan[d]
    BY <1>1, <1>4, <2>4, <2>5, TargetIs
  <2>7. CallRec(k)
    BY <1>1, <2>4 DEF CallRec, CallFields, Working, Labels
  <2> QED
    BY <1>2, <2>2, <2>3, <2>5, <2>6, <2>7
<1> QED
  BY <1>2, <1>3, <1>4

\* The difficulty of the connection changes, of a job declaration client's with those
\* of its channels.
LEMMA RatchetIs ==
    ASSUME Typed, NEW t \in Task, NEW rate \in env.rates, NEW ofJd,
           Ratchet(t, rate, ofJd)
    PROVE  /\ Chans(chan)' /\ task' = [task EXCEPT ![t] = task'[t]] /\ CallRec(task'[t])
           /\ task'[t].at = "row" /\ task'[t].c = 0 /\ task'[t].why = "ratchet"
           /\ ~ofJd /\ env.port = "pplns" => task'[t].diff >= Floor
           /\ \A c \in Channel :
                /\ SameJobs(chan[c], chan'[c]) /\ chan'[c].asked = chan[c].asked
                /\ chan'[c].told = chan[c].told
                /\ chan'[c].max = chan[c].max /\ chan'[c].ignored = chan[c].ignored
                /\ chan'[c].diff = IF ofJd /\ c \in channels THEN task'[t].diff ELSE chan[c].diff
           /\ \E diff : conn' = [conn EXCEPT !.diff = diff]
<1> DEFINE diff == IF ofJd \/ env.port # "pplns" THEN rate ELSE Highest(rate, Floor)
           k == [Idle EXCEPT !.why = "ratchet", !.diff = diff, !.at = "row"]
<1>1. diff \in Nat /\ (~ofJd /\ env.port = "pplns" => diff >= Floor)
  BY SessionAssumption DEF Typed, WorldTyped, Highest
<1>2. /\ conn' = [conn EXCEPT !.diff = diff] /\ task' = [task EXCEPT ![t] = k]
      /\ chan' = [c \in Channel |-> IF ofJd /\ c \in channels
                                    THEN [chan[c] EXCEPT !.diff = diff] ELSE chan[c]]
  BY DEF Ratchet, Put
<1>3. task'[t] = k
  BY <1>2 DEF Typed, Calls
<1> HIDE DEF diff
<1>4. /\ DOMAIN k = CallFields /\ k.at = "row" /\ k.c = 0 /\ k.why = "ratchet" /\ k.diff = diff
      /\ k.q = 0 /\ k.tmpl = 0 /\ k.built = 0
  BY DEF Idle, CallFields
<1>5. CallRec(k)
  BY <1>1, <1>4 DEF CallRec, Labels, Working
<1>6. ASSUME NEW c \in Channel
      PROVE  /\ ChanRec(chan'[c])
             /\ SameJobs(chan[c], chan'[c]) /\ chan'[c].asked = chan[c].asked
             /\ chan'[c].told = chan[c].told
             /\ chan'[c].max = chan[c].max /\ chan'[c].ignored = chan[c].ignored
             /\ chan'[c].diff = IF ofJd /\ c \in channels THEN diff ELSE chan[c].diff
  <2>1. CASE chan'[c] = chan[c] /\ ~(ofJd /\ c \in channels)
    BY <2>1 DEF Typed, Chans, ChanRec, SameJobs
  <2>2. CASE chan'[c] = [chan[c] EXCEPT !.diff = diff] /\ ofJd /\ c \in channels
    BY <1>1, <2>2 DEF Typed, Chans, ChanRec, ChanFields, SameJobs
  <2> QED
    BY <1>2, <2>1, <2>2
<1>7. Chans(chan)'
  BY <1>2, <1>6 DEF Chans
<1> HIDE DEF k
<1> QED
  BY <1>1, <1>2, <1>3, <1>4, <1>5, <1>6, <1>7

\* A template reaches the subscription, if there is one.
LEMMA PublishIs ==
    ASSUME Typed, \A r, s \in subs : r = s, NEW tip \in Nat, NEW same, Publish(tip, same)
    PROVE  /\ store' = NewTemplate(store, tip, clock)
           /\ \E template \in Templates :
                tmpls' = Append(tmpls, template) /\ template.tip = tip
                /\ template.clears = ClearsJobs(store, tip)
           /\ turned' = (IF ClearsJobs(store, tip) THEN With(turned, store.tip, clock) ELSE turned)
           /\ Settled(chan, chan')
           /\ ClearsJobs(store, tip) => \A c \in Channel : NoneActive(chan'[c])
           /\ UNCHANGED <<clock, world, conn, channels, subs, used, sock, destroys, ghost>>
           /\ \/ /\ subs = {} /\ UNCHANGED task
                 /\ \A c \in channels :
                        \/ chan[c].last = 0
                           /\ \A t \in Task : ~(task[t].c = c /\ task[t].at \in Sending)
                        \/ chan'[c].raced
              \/ \E t \in Task :
                    LET call == [Idle EXCEPT !.why = "publish", !.tmpl = Newest + 1,
                                             !.prev = ClearsJobs(store, tip)]
                    IN  /\ task[t] = Idle /\ task' = [task EXCEPT ![t] = task'[t]]
                        /\ Dispatched(0, chan, call, 0, Newest + 1, chan', task'[t])
<1> DEFINE clears == ClearsJobs(store, tip)
           id == Newest + 1
           free == {t \in Task : task[t] = Idle}
           run == CHOOSE f \in [subs -> free] : \A r, s \in subs : f[r] = f[s] => r = s
           clear == \E s \in subs : s.clear
           started == IF clears /\ subs # {} THEN Cleared(chan, clear) ELSE chan
           call == [Idle EXCEPT !.why = "publish", !.tmpl = id, !.prev = clears]
           first == Broadcast(0, started, call, 0, id)
           missed == {c \in channels : subs = {} /\ (chan[c].last # 0 \/
                     \E t \in Task : task[t].c = c /\ task[t].at \in Sending)}
           template == [tip |-> tip, clears |-> clears,
                        content |-> IF same THEN tmpls[Newest].content ELSE id]
<1>1. /\ store' = NewTemplate(store, tip, clock) /\ tmpls' = Append(tmpls, template)
      /\ turned' = (IF clears THEN With(turned, store.tip, clock) ELSE turned)
      /\ Cardinality(free) >= Cardinality(subs)
      /\ UNCHANGED <<clock, world, conn, channels, subs, used, sock, destroys, ghost>>
      /\ \/ /\ subs = {} /\ UNCHANGED task
            /\ chan' = [c \in Channel |-> [Missed(chan, missed)[c] EXCEPT !.kept = @ \/ clears]]
         \/ /\ subs # {} /\ chan' = first.chan
            /\ task' = [t \in Task |-> IF \E s \in subs : run[s] = t THEN first.call
                                       ELSE task[t]]
  BY DEF Publish
<1>2. Newest \in Nat /\ Newest >= 1 /\ tmpls[Newest] \in Templates /\ clears \in BOOLEAN
  BY DEF Typed, StoreTyped, Newest, ClearsJobs
<1>3. template \in Templates /\ template.tip = tip /\ template.clears = clears
  BY <1>2 DEF Templates
<1>4. Chans(chan) /\ channels \subseteq Channel /\ DOMAIN task = Task /\ clock \in Nat
  BY DEF Typed, WorldTyped, Calls
<1> HIDE DEF template
<1>5. CASE subs = {}
  <2> DEFINE m == Missed(chan, missed)
  <2>1. Settled(chan, m) /\ (\A c \in Channel \cap missed : m[c].raced) /\ Chans(m)
    BY <1>4, MissedIs DEF Settled
  <2> HIDE DEF m, missed
  <2>2. /\ UNCHANGED task
        /\ chan' = [c \in Channel |-> [m[c] EXCEPT !.kept = @ \/ clears]]
    BY <1>1, <1>5 DEF m
  <2>3. ASSUME NEW c \in Channel
        PROVE  /\ ChanRec(chan'[c]) /\ SameWork(m[c], chan'[c]) /\ SameTargets(m[c], chan'[c])
               /\ chan'[c].jd => m[c].jd
               /\ clears => chan'[c].kept
    <3> DEFINE b == m[c].kept \/ clears
    <3>1. chan'[c] = [m[c] EXCEPT !.kept = b]
      BY <2>2
    <3>2. (m[c].kept => b) /\ (clears => b)
      OBVIOUS
    <3> HIDE DEF b
    <3>3. chan'[c].kept = b
      BY <2>1, <3>1 DEF Chans, ChanRec, ChanFields
    <3> QED
      BY <2>1, <3>1, <3>2, <3>3 DEF Chans, ChanRec, ChanFields, SameWork, SameTargets
  <2>4. Settled(m, chan')
    BY <2>2, <2>3 DEF Settled, Chans
  <2>5. Settled(chan, chan')
    BY <2>1, <2>4, SettledTrans
  <2>6. \A c \in missed : c \in Channel => chan'[c].raced
    BY <2>1, <2>3 DEF SameWork
  <2>7. \A c \in channels :
            c \in missed \/ (chan[c].last = 0
                             /\ \A t \in Task : ~(task[t].c = c /\ task[t].at \in Sending))
    BY <1>5 DEF missed
  <2>8. clears => \A c \in Channel : NoneActive(chan'[c])
    BY <2>3 DEF NoneActive
  <2> QED
    BY <1>1, <1>3, <1>4, <1>5, <2>2, <2>5, <2>6, <2>7, <2>8
<1>6. CASE subs # {}
  <2>1. PICK s \in subs : subs = {s}
    BY <1>6
  <2>2. Cardinality(subs) = 1
    BY <2>1, FS_Singleton
  <2>3. free # {}
    <3>1. Cardinality(free) >= 1
      BY <1>1, <2>2
    <3> HIDE DEF free
    <3>2. Cardinality({}) = 0
      BY FS_EmptySet
    <3>3. CASE free = {}
      BY <3>1, <3>2, <3>3
    <3> QED
      BY <3>3
  <2> DEFINE F == [subs -> free]
  <2>4. PICK o \in free : TRUE
    BY <2>3
  <2>5. \E f \in F : \A r, u \in subs : f[r] = f[u] => r = u
    <3>1. [r \in subs |-> o] \in F
      BY <2>4
    <3> QED
      BY <2>1, <3>1
  <2>6. run \in [subs -> free]
    <3>1. run = CHOOSE f \in F : \A r, u \in subs : f[r] = f[u] => r = u
      OBVIOUS
    <3> HIDE DEF F, run
    <3>2. run \in F
      BY <2>5, <3>1
    <3> QED
      BY <3>2 DEF F
  <2> DEFINE t == run[s]
  <2>7. t \in free
    BY <2>6
  <2> HIDE DEF run, first, started, call
  <2>8. chan' = first.chan /\ task' = [task EXCEPT ![t] = first.call] /\ task'[t] = first.call
    BY <1>1, <1>4, <1>6, <2>1, <2>7
  <2>9. Settled(chan, started)
    BY <1>4, ClearedIs, SettledSelf DEF started
  <2>10. CallRec(call)
    BY <1>2 DEF call, CallRec, CallFields, Idle, Labels, Working
  <2>11. Dispatched(0, started, call, 0, id, first.chan, first.call)
    <3>1. Chans(started) /\ id \in Nat /\ 0 \in Nat
      BY <1>2, <2>9 DEF Settled
    <3> QED
      BY <1>4, <2>10, <3>1, BroadcastIs DEF first
  <2>12. Dispatched(0, chan, call, 0, id, chan', task'[t])
    BY <2>8, <2>9, <2>11, SettledTrans DEF Dispatched
  <2>13. Settled(chan, chan')
    BY <2>12 DEF Dispatched
  <2>14. t \in Task /\ task[t] = Idle
    BY <2>7
  <2>15. clears => \A c \in Channel : NoneActive(chan'[c])
    <3>1. Settled(started, chan')
      BY <2>8, <2>11 DEF Dispatched
    <3>2. clears => \A c \in Channel : NoneActive(started[c])
      BY <1>4, <1>6, ClearedIs DEF started
    <3> QED
      BY <3>1, <3>2, NoneActiveStays DEF Settled
  <2> HIDE DEF t
  <2> QED
    BY <1>1, <1>3, <2>8, <2>12, <2>13, <2>14, <2>15 DEF call
<1> QED
  BY <1>5, <1>6

-------------------------------------------------------------------------------
(* Types are kept. *)

ConnKeeps ==
    /\ DOMAIN conn' = ConnFields /\ conn'.next = conn.next /\ conn'.prefix \in Nat
    /\ conn'.primary = conn.primary /\ conn'.accepted \in Nat
    /\ conn'.timer \in BOOLEAN /\ conn'.destroyed \in BOOLEAN
ChanKeeps ==
    /\ Chans(chan)'
    /\ \A c \in Channel : chan'[c].kind = chan[c].kind /\ (chan'[c].jd => chan[c].jd)
RestKeeps ==
    /\ UNCHANGED <<env, scheme>> /\ clock' \in Nat /\ jdp' \in BOOLEAN
    /\ used' \subseteq 1..MaxPrefix
    /\ sock' \in {"open", "closed"} /\ destroys' \subseteq {"bury", "release"}

LEMMA ConnSame == ASSUME Typed, UNCHANGED conn PROVE ConnKeeps
  BY DEF Typed, ConnTyped, ConnKeeps
LEMMA ChanSame == ASSUME Typed, UNCHANGED chan PROVE ChanKeeps
  BY DEF Typed, ChanKeeps, Chans
LEMMA RestSame ==
    ASSUME Typed, UNCHANGED <<clock, world, used, sock, destroys>> PROVE RestKeeps
  BY DEF Typed, WorldTyped, RestKeeps, world
LEMMA SocketCloses ==
    ASSUME Typed, UNCHANGED <<clock, world, used>>, CloseSocket PROVE RestKeeps
  BY DEF Typed, WorldTyped, RestKeeps, world, CloseSocket
LEMMA StoreSame == ASSUME Typed, UNCHANGED <<store, tmpls>> PROVE StoreTyped'
  BY DEF Typed, StoreTyped, Newest

LEMMA TypedFrame ==
    ASSUME Typed, ChanKeeps, Calls', ConnKeeps, RestKeeps, StoreTyped', UNCHANGED channels
    PROVE  Typed'
<1>1. ConnTyped'
  BY DEF Typed, ConnTyped, ConnKeeps, ChanKeeps
<1>2. WorldTyped'
  BY DEF Typed, WorldTyped, RestKeeps, ChanKeeps
<1> QED
  BY <1>1, <1>2 DEF Typed, ChanKeeps

LEMMA TypedCalls ==
    ASSUME Typed, NEW t \in Task
    PROVE  /\ CallRec(task[t]) /\ task[t].c \in Nat /\ task[t].c < conn.next
           /\ task[t].at \in Working => task[t].c \in Channel
           /\ DOMAIN task = Task /\ conn.next \in Nat
  BY DEF Typed, Calls, CallRec, ConnTyped

LEMMA RatchetTyped ==
    ASSUME Typed, NEW t \in Task, NEW rate \in env.rates, NEW ofJd, Ratchet(t, rate, ofJd),
           UNCHANGED <<base, world, channels, used, sock, destroys>>
    PROVE  Typed'
<1> USE DEF base
<1>1. /\ Chans(chan)' /\ task' = [task EXCEPT ![t] = task'[t]] /\ CallRec(task'[t])
      /\ task'[t].c = 0
      /\ \A c \in Channel : SameJobs(chan[c], chan'[c])
      /\ \E diff : conn' = [conn EXCEPT !.diff = diff]
  BY RatchetIs
<1>2. ChanKeeps
  BY <1>1 DEF ChanKeeps, SameJobs
<1>3. ConnKeeps
  BY <1>1 DEF Typed, ConnTyped, ConnKeeps, ConnFields
<1>4. 0 < conn'.next /\ conn'.next \in Nat /\ conn'.next >= conn.next
  BY <1>3 DEF ConnKeeps, Typed, ConnTyped
<1>5. Calls'
  BY <1>1, <1>4, CallsStep
<1> QED
  BY <1>2, <1>3, <1>5, RestSame, StoreSame, TypedFrame

\* Sending, telling and judging.
LEMMA ResumeTyped ==
    ASSUME Typed, NEW t \in Task, Resume(t) \/ NoDistribution(t) \/ RecordFails(t) \/ Rejected(t)
    PROVE  Typed'
<1>0. /\ CallRec(task[t]) /\ task[t].c \in Nat /\ task[t].c < conn.next
      /\ task[t].at \in Working => task[t].c \in Channel
      /\ DOMAIN task = Task /\ conn.next \in Nat
  BY TypedCalls
<1> USE DEF base
<1>1. ASSUME Create(t) PROVE Typed'
  <2>1. ConnKeeps /\ conn'.next = conn.next
    <3>1. \/ conn' = [conn EXCEPT !.creating = "done", !.entity = TRUE]
          \/ conn' = [conn EXCEPT !.creating = "done"]
      BY <1>1 DEF Create
    <3> QED
      BY <3>1 DEF Typed, ConnTyped, ConnKeeps, ConnFields
  <2>2. Goto(t, "entity") /\ task[t].c \in Channel
    BY <1>0, <1>1 DEF Create, Working
  <2>3. Calls'
    BY <2>1, <2>2, GotoIs DEF Labels
  <2> QED
    BY <1>1, <2>1, <2>3, ChanSame, RestSame, StoreSame, TypedFrame DEF Create
<1>2. ASSUME Entity(t) PROVE Typed'
  <2> DEFINE c == task[t].c
  <2>1. /\ c \in Channel /\ chan' = Target(chan, c, chan[c].diff) /\ Goto(t, "success")
        /\ UNCHANGED <<base, world, conn, channels, used, sock, destroys>>
    BY <1>0, <1>2 DEF Entity, Working
  <2>2. Chans(chan) /\ chan[c].diff \in Nat
    BY <2>1 DEF Typed, Chans, ChanRec
  <2>3. /\ Chans(chan)' /\ Retargeted(chan[c], chan'[c], chan[c].diff)
        /\ \A d \in Channel \ {c} : chan'[d] = chan[d]
    BY <2>1, <2>2, TargetIs
  <2>4. ChanKeeps
    BY <2>3 DEF ChanKeeps, Retargeted, SameJobs
  <2>5. Calls'
    BY <2>1, GotoIs DEF Labels
  <2> QED
    BY <2>1, <2>4, <2>5, ConnSame, RestSame, StoreSame, TypedFrame
<1>3. ASSUME NEW ch, Chans(ch), Proceed(t, ch), UNCHANGED channels,
             RestKeeps, StoreTyped',
             \A c \in Channel : ch[c].kind = chan[c].kind /\ (ch[c].jd => chan[c].jd)
      PROVE  Typed'
  <2>1. /\ Chans(chan)' /\ Calls' /\ ConnTyped'
        /\ \A c \in Channel : chan'[c].kind = chan[c].kind
    BY <1>3, ProceedTyped
  <2>2. WorldTyped'
    BY <1>3, <2>1 DEF Typed, WorldTyped, RestKeeps
  <2> QED
    BY <1>3, <2>1, <2>2 DEF Typed
<1>4. ASSUME Success(t) PROVE Typed'
  <2> DEFINE c == task[t].c
             call == [task[t] EXCEPT !.tmpl = Newest, !.prev = TRUE]
             start == StartSend(t, chan, c, call, Newest)
  <2>1. /\ c \in Channel
        /\ UNCHANGED <<base, world, channels, used, sock, destroys>>
        /\ \/ Proceed(t, chan)
           \/ chan' = start.chan /\ Put(t, start.call) /\ UNCHANGED conn
    BY <1>0, <1>4 DEF Success, Working
  <2>2. RestKeeps /\ StoreTyped'
    BY <2>1, RestSame, StoreSame
  <2>3. CASE Proceed(t, chan)
    BY <1>3, <2>1, <2>2, <2>3 DEF Typed
  <2>4. CASE chan' = start.chan /\ Put(t, start.call) /\ UNCHANGED conn
    <3>1. CallRec(call) /\ Newest \in Nat
      BY <1>0 DEF CallRec, CallFields, Typed, StoreTyped, Newest
    <3>2. /\ Settled(chan, start.chan) /\ Sends(t, start.chan, call, Newest, start.call)
          /\ start.call.c = c
      BY <2>1, <3>1, StartSendIs DEF Typed
    <3>3. \A d \in Channel : start.chan[d].jd => chan[d].jd
      <4> DEFINE b == chan[c].raced \/ call.tmpl # Newest \/ Overlaps(t, c, call)
      <4>1. start.chan = [chan EXCEPT ![c].raced = b]
        BY DEF StartSend
      <4> HIDE DEF start, call, b
      <4>2. ASSUME NEW d \in Channel
            PROVE  start.chan[d].jd <=> chan[d].jd
        <5>1. d \in DOMAIN chan /\ c \in DOMAIN chan /\ "jd" \in DOMAIN chan[d]
          BY <2>1 DEF Typed, Chans, ChanRec, ChanFields
        <5> QED
          BY <4>1, <5>1
      <4> QED
        BY <4>2
    <3> HIDE DEF start
    <3>4. ChanKeeps
      BY <2>4, <3>2, <3>3 DEF ChanKeeps, Settled, SameWork
    <3>5. Calls'
      BY <1>0, <2>4, <3>2, CallsPut DEF Put, Sends
    <3> QED
      BY <2>1, <2>2, <2>4, <3>4, <3>5, ConnSame, TypedFrame
  <2> QED
    BY <2>1, <2>3, <2>4
<1>5. ASSUME Payout(t) PROVE Typed'
  <2>1. /\ task[t].at = "payout" /\ task[t].c \in Channel
        /\ UNCHANGED <<clock, tmpls, turned, world, channels, used, sock, destroys, budget, ghost>>
        /\ \/ Writes(t) /\ Chans(chan)'
           \/ Proceed(t, chan) /\ UNCHANGED store
    BY <1>5, PayoutIs
  <2>2. CASE Proceed(t, chan) /\ UNCHANGED store
    BY <1>3, <2>1, <2>2, RestSame, StoreSame DEF Typed
  <2>3. CASE Writes(t) /\ Chans(chan)'
    <3> DEFINE k == [task[t] EXCEPT !.at = "sent", !.job = store.nextJob]
    <3>1. CallRec(k) /\ k.c = task[t].c
      BY <1>0, <2>1 DEF CallRec, CallFields, Labels, Working
    <3>2. task' = [task EXCEPT ![t] = k] /\ UNCHANGED conn
      BY <2>3 DEF Writes
    <3> HIDE DEF k
    <3>3. Calls'
      BY <1>0, <3>1, <3>2, CallsPut
    <3>4. ChanKeeps
      BY <2>3 DEF Writes, Written, ChanKeeps
    <3>5. StoreTyped'
      <4>1. store' = AddJob(store, StoreJob(task[t].built, task[t].route))
        BY <2>3 DEF Writes
      <4>2. /\ DOMAIN store' = StoreFields /\ store'.tip = store.tip
            /\ store'.nextTemplate = store.nextTemplate
        BY <4>1 DEF AddJob, Typed, StoreTyped, StoreFields
      <4> QED
        BY <2>1, <4>2 DEF Typed, StoreTyped, Newest
    <3> QED
      BY <2>1, <3>2, <3>3, <3>4, <3>5, ConnSame, RestSame, TypedFrame
  <2> QED
    BY <2>1, <2>2, <2>3
<1>6. ASSUME NoDistribution(t) PROVE Typed'
  <2> DEFINE c == task[t].c
             b == chan[c].raced \/ task[t].prev
             ch == [chan EXCEPT ![c].raced = b]
  <2>1. /\ c \in Channel /\ Proceed(t, ch)
        /\ UNCHANGED <<base, world, channels, used, sock, destroys>>
    BY <1>0, <1>6 DEF NoDistribution, Working
  <2> HIDE DEF b
  <2>2. Chans(ch) /\ \A d \in Channel : ch[d].kind = chan[d].kind /\ (ch[d].jd => chan[d].jd)
    BY <2>1 DEF Typed, Chans, ChanRec, ChanFields
  <2> HIDE DEF ch
  <2> QED
    BY <1>3, <2>1, <2>2, RestSame, StoreSame
<1>7. ASSUME Sent(t) PROVE Typed'
  <2>1. /\ task[t].at = "sent" /\ task[t].c \in Channel
        /\ UNCHANGED <<base, world, channels, used, sock, destroys, budget, ghost>>
    BY <1>7, SentIs
  <2>2. PICK next :
          /\ Chans(next) /\ IsRecorded(t, chan[task[t].c], next[task[t].c])
          /\ \A d \in Channel \ {task[t].c} : next[d] = chan[d]
          /\ \/ /\ task[t].prev /\ chan' = next /\ UNCHANGED <<conn, subs>>
                /\ Goto(t, "prev")
             \/ ~task[t].prev /\ Proceed(t, next)
    BY <1>7, SentIs
  <2>3. \A d \in Channel : next[d].kind = chan[d].kind /\ (next[d].jd => chan[d].jd)
    BY <2>2 DEF IsRecorded
  <2>4. CASE Proceed(t, next)
    BY <1>3, <2>1, <2>2, <2>3, <2>4, RestSame, StoreSame
  <2>5. CASE chan' = next /\ Goto(t, "prev") /\ UNCHANGED conn
    <3>1. ChanKeeps
      BY <2>2, <2>3, <2>5 DEF ChanKeeps
    <3>2. Calls'
      BY <2>1, <2>5, GotoIs DEF Labels
    <3> QED
      BY <2>1, <2>5, <3>1, <3>2, ConnSame, RestSame, StoreSame, TypedFrame
  <2> QED
    BY <2>2, <2>4, <2>5
<1>8. ASSUME Prevd(t) PROVE Typed'
  <2>1. Proceed(t, chan) /\ UNCHANGED <<base, world, channels, used, sock, destroys>>
    BY <1>8 DEF Prevd
  <2> QED
    BY <1>3, <2>1, RestSame, StoreSame DEF Typed
<1>9. ASSUME Tell(t) PROVE Typed'
  <2>1. /\ UNCHANGED <<base, world, conn, channels, used, sock, destroys>>
        /\ task' = [task EXCEPT ![t] = task'[t]]
        /\ \/ chan' = chan /\ task'[t] = Idle
           \/ \E c \in channels :
                    /\ Chans(chan)' /\ Retargeted(chan[c], chan'[c], Clamped(c, task[t].diff))
                    /\ \A d \in Channel \ {c} : chan'[d] = chan[d]
                    /\ task'[t] = [task[t] EXCEPT !.at = "targets", !.c = c]
                    /\ CallRec(task'[t])
    BY <1>9, TellIs
  <2>2. ChanKeeps
    BY ZenonT(60), <2>1, ChanSame DEF ChanKeeps, Retargeted, SameJobs, Typed, WorldTyped
  <2>3. CallRec(task'[t]) /\ task'[t].c < conn.next
    <3>1. CASE task'[t] = Idle
      BY <3>1, IdleIs, IdleLess
    <3>2. ASSUME NEW c \in channels, task'[t] = [task[t] EXCEPT !.at = "targets", !.c = c]
          PROVE  task'[t].c < conn.next
      BY <1>0, <3>2 DEF CallRec, CallFields, Typed, ConnTyped
    <3> QED
      BY <2>1, <3>1, <3>2
  <2>4. Calls'
    BY <2>1, <2>3, CallsPut
  <2> QED
    BY <2>1, <2>2, <2>4, ConnSame, RestSame, StoreSame, TypedFrame
<1>10. ASSUME Judge(t) PROVE Typed'
  <2> DEFINE c == task[t].c
             j == task[t].job
             q == task[t].q
             seen == chan[c].seen \cup {<<j, q>>}
             k == [task[t] EXCEPT !.at = "credited", !.diff = JudgedBy(c, j), !.entry = Entry(c, j)]
  <2>1. /\ c \in Channel /\ chan' = [chan EXCEPT ![c].seen = seen]
        /\ UNCHANGED <<clock, tmpls, world, conn, channels, used, sock, destroys>>
        /\ \/ store' = store
           \/ store' = [store EXCEPT !.jobs = [i \in DOMAIN store.jobs \ {j} |-> store.jobs[i]]]
        /\ Put(t, k) \/ Done(t)
    BY <1>0, <1>10 DEF Judge, Working
  <2> HIDE DEF seen
  <2>2. ChanKeeps
    BY <2>1 DEF ChanKeeps, Typed, Chans, ChanRec, ChanFields
  <2>3. JudgedBy(c, j) \in Nat
    BY <2>1 DEF JudgedBy, Typed, Chans, ChanRec
  <2>4. CallRec(k) /\ k.c = c
    BY <1>0, <2>1, <2>3 DEF CallRec, CallFields, Labels, Working
  <2>5. Calls'
    <3>1. CASE Put(t, k)
      BY <1>0, <2>1, <2>4, <3>1, CallsPut DEF Put
    <3>2. CASE Done(t)
      BY <2>1, <3>2, DoneIs
    <3> QED
      BY <2>1, <3>1, <3>2
  <2>6. StoreTyped'
    <3>1. /\ DOMAIN store' = StoreFields /\ store'.tip = store.tip
          /\ store'.nextTemplate = store.nextTemplate
      BY <2>1 DEF Typed, StoreTyped, StoreFields
    <3> QED
      BY <2>1, <3>1 DEF Typed, StoreTyped, Newest
  <2> QED
    BY <2>1, <2>2, <2>5, <2>6, ConnSame, RestSame, TypedFrame
<1>11. ASSUME SubmitBlock(t) PROVE Typed'
  <2>1. /\ task[t].c \in Channel
        /\ UNCHANGED <<base, world, conn, channels, chan, used>>
        /\ \/ Goto(t, "counting") /\ UNCHANGED <<sock, destroys>>
           \/ Done(t) /\ CloseSocket
    BY <1>0, <1>11 DEF SubmitBlock, Working
  <2>2. Calls'
    BY <2>1, GotoIs, DoneIs DEF Labels
  <2>3. RestKeeps
    BY <2>1, RestSame, SocketCloses
  <2> QED
    BY <2>1, <2>2, <2>3, ConnSame, ChanSame, StoreSame, TypedFrame
<1>12. ASSUME RecordShare(t) PROVE Typed'
  <2> DEFINE k == [Idle EXCEPT !.at = "tail", !.c = task[t].c, !.q = task[t].q]
  <2>1. /\ task[t].c \in Channel
        /\ UNCHANGED <<base, world, channels, chan, used>>
        /\ \/ /\ conn' = [conn EXCEPT !.accepted = @ + 1] /\ Put(t, k)
              /\ UNCHANGED <<sock, destroys>>
           \/ Done(t) /\ CloseSocket /\ UNCHANGED conn
    BY <1>0, <1>12 DEF RecordShare, Counting, Working
  <2>2. ConnKeeps
    BY <2>1, ConnSame DEF Typed, ConnTyped, ConnKeeps, ConnFields
  <2>3. CallRec(k) /\ k.c = task[t].c
    <3>1. /\ DOMAIN k = CallFields /\ k.at = "tail" /\ k.c = task[t].c /\ k.q = task[t].q
          /\ k.diff = 0 /\ k.tmpl = 0 /\ k.built = 0
      BY DEF Idle, CallFields
    <3> QED
      BY <1>0, <2>1, <3>1 DEF CallRec, Labels, Working
  <2>4. Calls'
    <3>1. CASE Put(t, k)
      BY <1>0, <2>2, <2>3, <3>1, CallsPut DEF Put, ConnKeeps
    <3>2. CASE Done(t)
      BY <2>2, <3>2, DoneIs DEF ConnKeeps
    <3> QED
      BY <2>1, <3>1, <3>2
  <2>5. RestKeeps
    BY <2>1, RestSame, SocketCloses
  <2> QED
    BY <2>1, <2>2, <2>4, <2>5, ChanSame, StoreSame, TypedFrame
<1>13. ASSUME RecordFails(t) PROVE Typed'
  <2>1. /\ conn' = [conn EXCEPT !.accepted = @ + 1] /\ Done(t)
        /\ UNCHANGED <<base, world, channels, chan, used, sock, destroys>>
    BY <1>13 DEF RecordFails
  <2>2. ConnKeeps
    BY <2>1 DEF Typed, ConnTyped, ConnKeeps, ConnFields
  <2>3. Calls'
    BY <2>1, <2>2, DoneIs DEF ConnKeeps
  <2> QED
    BY <2>1, <2>2, <2>3, ChanSame, RestSame, StoreSame, TypedFrame
<1>14. ASSUME Rejected(t) PROVE Typed'
  <2>1. /\ Done(t) /\ UNCHANGED <<base, world, conn, channels, chan, used>>
        /\ UNCHANGED <<sock, destroys>> \/ CloseSocket
    BY <1>14 DEF Rejected
  <2>2. Calls'
    BY <2>1, DoneIs
  <2>3. RestKeeps
    BY <2>1, RestSame, SocketCloses
  <2> QED
    BY <2>1, <2>2, <2>3, ConnSame, ChanSame, StoreSame, TypedFrame
<1>15. ASSUME AfterShare(t) PROVE Typed'
  <2>1. /\ UNCHANGED <<base, world, channels, used, sock, destroys>>
        /\ \/ Done(t) /\ UNCHANGED <<conn, chan>>
           \/ \E rate \in env.rates : Ratchet(t, rate, chan[task[t].c].jd)
    BY <1>15 DEF AfterShare
  <2>2. CASE Done(t) /\ UNCHANGED <<conn, chan>>
    <3>1. Calls'
      BY <2>2, DoneIs
    <3> QED
      BY <2>1, <2>2, <3>1, ConnSame, ChanSame, RestSame, StoreSame, TypedFrame
  <2>3. ASSUME NEW rate \in env.rates, Ratchet(t, rate, chan[task[t].c].jd) PROVE Typed'
    BY <2>1, <2>3, RatchetTyped
  <2> QED
    BY <2>1, <2>2, <2>3
<1> QED
  BY <1>1, <1>2, <1>4, <1>5, <1>6, <1>7, <1>8, <1>9, <1>10, <1>11, <1>12, <1>13, <1>14, <1>15
  DEF Resume

LEMMA CallsSame == ASSUME Typed, UNCHANGED task, conn'.next = conn.next PROVE Calls'
  BY DEF Typed, Calls

\* UpdateChannel changes the limit, and the target with it.
Updated(r, s, rate, limit) ==
    LET diff == Granted(rate, limit)
    IN  /\ SameJobs(r, s) /\ s.max = limit /\ s.ignored = (diff > Ceiling)
        /\ \/ /\ diff > Ceiling \/ diff = r.diff
              /\ s.diff = r.diff /\ s.told = r.told /\ s.asked = r.asked
           \/ /\ diff <= Ceiling /\ s.diff = diff /\ s.told = diff
              /\ \A j \in DOMAIN r.asked : s.asked[j] = r.asked[j] \cup {diff}

LEMMA UpdateIs ==
    ASSUME Typed, NEW t \in Task, NEW c \in Channel, NEW rate \in env.rates,
           NEW limit \in env.limits, Update(t, c, rate, limit)
    PROVE  /\ c \in channels /\ Writable
           /\ UNCHANGED <<base, world, conn, channels, subs, used, sock, task, destroys, ghost>>
           /\ Chans(chan)' /\ Updated(chan[c], chan'[c], rate, limit)
           /\ \A d \in Channel \ {c} : chan'[d] = chan[d]
<1> DEFINE diff == Granted(rate, limit)
           ignored == diff > Ceiling
           r == chan[c]
           s == [r EXCEPT !.max = limit, !.ignored = ignored]
           limited == [chan EXCEPT ![c] = s]
<1>1. diff \in Nat /\ limit \in Nat /\ Ceiling \in Int
  BY GrantedIs, SessionAssumption
<1>2. ChanRec(r) /\ DOMAIN chan = Channel
  BY DEF Typed, Chans
<1>3. /\ c \in channels /\ Writable
      /\ UNCHANGED <<base, world, conn, channels, subs, used, sock, task, destroys, ghost>>
      /\ chan' = IF ignored \/ diff = r.diff THEN limited ELSE Target(limited, c, diff)
  BY <1>2 DEF Update, Frame, Writable
<1> HIDE DEF diff, ignored
<1>4. /\ ChanRec(s) /\ SameJobs(r, s) /\ s.max = limit /\ s.ignored = ignored /\ s.diff = r.diff
      /\ s.told = r.told /\ s.asked = r.asked
  BY <1>1, <1>2 DEF ChanRec, ChanFields, SameJobs
<1> HIDE DEF s
<1>5. Chans(limited) /\ limited[c] = s /\ \A d \in Channel \ {c} : limited[d] = chan[d]
  BY <1>2, <1>4 DEF Typed, Chans
<1> HIDE DEF limited, r
<1>6. CASE ignored \/ diff = r.diff
  BY <1>1, <1>3, <1>4, <1>5, <1>6 DEF Updated, ignored, diff, r
<1>7. CASE ~ignored /\ diff # r.diff
  <2>1. /\ Chans(chan)' /\ Retargeted(s, chan'[c], diff)
        /\ \A d \in Channel \ {c} : chan'[d] = chan[d]
    BY <1>1, <1>3, <1>5, <1>7, TargetIs
  <2>2. SameJobs(r, chan'[c])
    BY <1>4, <2>1 DEF Retargeted, SameJobs
  <2>3. /\ chan'[c].max = limit /\ chan'[c].ignored = ignored
        /\ chan'[c].diff = diff /\ chan'[c].told = diff
        /\ \A j \in DOMAIN r.asked : chan'[c].asked[j] = r.asked[j] \cup {diff}
    BY <1>3, <1>4, <2>1 DEF Retargeted
  <2>4. diff <= Ceiling /\ ignored = (diff > Ceiling)
    BY <1>1, <1>7 DEF ignored
  <2> QED
    BY <1>3, <2>1, <2>2, <2>3, <2>4 DEF Updated, diff, r
<1> QED
  BY <1>6, <1>7

\* A custom job with the next id of the connection.
Customized(r, s, tip) ==
    LET j == conn.custom
    IN  /\ s.kind = r.kind /\ s.jd = r.jd /\ s.prefix = r.prefix /\ s.tip = r.tip
        /\ s.latest = r.latest /\ s.misnamed = r.misnamed /\ s.raced = r.raced
        /\ s.roots = r.roots /\ s.jobDiff = r.jobDiff /\ s.diff = r.diff /\ s.last = r.last
        /\ s.told = r.told /\ s.max = r.max /\ s.ignored = r.ignored
        /\ s.seen = r.seen /\ s.kept = r.kept
        /\ s.ext = With(r.ext, j, ExtJob(0, 0, tip, "none", After(r.ext)))
        /\ s.mined = With(r.mined, j, tip) /\ s.asked = With(r.asked, j, {r.told})
        /\ s.shared = r.shared \cup ({j} \cap DOMAIN r.asked)

LEMMA SetCustomMiningJobIs ==
    ASSUME Typed, NEW t \in Task, NEW c \in Channel, NEW tip, SetCustomMiningJob(t, c, tip)
    PROVE  /\ c \in channels /\ Writable
           /\ UNCHANGED <<base, world, channels, subs, used, sock, task, destroys, ghost>>
           /\ conn' = [conn EXCEPT !.custom = conn.custom + 1]
           /\ Chans(chan)' /\ Customized(chan[c], chan'[c], tip)
           /\ \A d \in Channel \ {c} : chan'[d] = chan[d]
<1> DEFINE j == conn.custom
           r == chan[c]
           job == ExtJob(0, 0, tip, "none", After(r.ext))
           ext == With(r.ext, j, job)
           mined == With(r.mined, j, tip)
           asked == With(r.asked, j, {r.told})
           shared == r.shared \cup ({j} \cap DOMAIN r.asked)
           s == [r EXCEPT !.ext = ext, !.mined = mined, !.asked = asked, !.shared = shared]
<1>1. ChanRec(r) /\ DOMAIN chan = Channel
  BY DEF Typed, Chans
<1>2. /\ c \in channels /\ Writable
      /\ UNCHANGED <<base, world, channels, subs, used, sock, task, destroys, ghost>>
      /\ conn' = [conn EXCEPT !.custom = conn.custom + 1]
      /\ chan' = [chan EXCEPT ![c].ext = ext, ![c].mined = mined, ![c].asked = asked,
                              ![c].shared = shared]
  BY <1>1 DEF SetCustomMiningJob, Frame, Writable, ChanRec, ChanFields
<1>3. \A k \in DOMAIN ext : DOMAIN ext[k] = ExtFields
  <2>1. DOMAIN job = ExtFields
    BY ExtJobIs
  <2> HIDE DEF job
  <2> QED
    BY <1>1, <2>1 DEF With, ChanRec
<1> HIDE DEF ext, mined, asked, shared, r
<1>4. chan' = [chan EXCEPT ![c] = s]
  BY <1>1, <1>2 DEF r
<1>5. ChanRec(s)
  BY <1>1, <1>3 DEF ChanRec, ChanFields
<1>6. /\ s.kind = r.kind /\ s.jd = r.jd /\ s.prefix = r.prefix /\ s.tip = r.tip
      /\ s.latest = r.latest /\ s.misnamed = r.misnamed /\ s.raced = r.raced
      /\ s.roots = r.roots /\ s.jobDiff = r.jobDiff /\ s.diff = r.diff /\ s.last = r.last
      /\ s.told = r.told /\ s.max = r.max /\ s.ignored = r.ignored
      /\ s.seen = r.seen /\ s.kept = r.kept
      /\ s.ext = ext /\ s.mined = mined /\ s.asked = asked /\ s.shared = shared
  BY <1>1 DEF ChanRec, ChanFields
<1> HIDE DEF s
<1>7. Customized(r, s, tip)
  BY <1>6 DEF Customized, ext, mined, asked, shared
<1>8. Chans(chan)' /\ chan'[c] = s /\ \A d \in Channel \ {c} : chan'[d] = chan[d]
  BY <1>1, <1>4, <1>5 DEF Typed, Chans
<1> QED
  BY <1>2, <1>7, <1>8 DEF r

\* Frames.
LEMMA ReceiveTyped == ASSUME Typed, NEW t \in Task, Receive(t) PROVE Typed'
<1> USE DEF base
<1>1. ASSUME NEW w \in BOOLEAN, SetupConnection(t, w) PROVE Typed'
  <2>1. /\ conn' = [conn EXCEPT !.workSel = w]
        /\ UNCHANGED <<base, world, channels, chan, used, sock, task, destroys>>
    BY <1>1 DEF SetupConnection
  <2>2. ConnKeeps
    BY <2>1 DEF Typed, ConnTyped, ConnKeeps, ConnFields
  <2> QED
    BY <2>1, <2>2, ChanSame, CallsSame, RestSame, StoreSame, TypedFrame DEF ConnKeeps
<1>2. ASSUME Unacceptable(t) \/ NoPrefix(t) PROVE Typed'
  <2>1. CloseSocket /\ UNCHANGED <<base, world, conn, channels, chan, used, task>>
    BY <1>2 DEF Unacceptable, NoPrefix
  <2> QED
    BY <2>1, ConnSame, ChanSame, CallsSame, SocketCloses, StoreSame, TypedFrame
<1>3. ASSUME ~Exhausted PROVE NextPrefix \in 1..MaxPrefix /\ (NextPrefix % MaxPrefix) + 1 \in Nat
  <2>1. NextPrefix \in 1..MaxPrefix
    BY <1>3, NextPrefixIs DEF Typed, ConnTyped, WorldTyped
  <2>2. NextPrefix \in Int /\ MaxPrefix \in Nat \ {0}
    BY <2>1, SessionAssumption
  <2> HIDE DEF NextPrefix
  <2> QED
    BY <2>1, <2>2
<1>4. ASSUME NEW kind \in {"standard", "extended"}, Refuse(t, kind) PROVE Typed'
  <2>1. /\ ~Exhausted /\ UNCHANGED <<base, world, channels, chan, sock, task, destroys>>
        /\ \/ /\ used' = used \cup {NextPrefix}
              /\ conn' = [conn EXCEPT !.prefix = (NextPrefix % MaxPrefix) + 1,
                                      !.refused = @ \cup {NextPrefix}]
           \/ UNCHANGED <<used, conn>>
    BY <1>4 DEF Refuse
  <2> DEFINE p == (NextPrefix % MaxPrefix) + 1
  <2>2. p \in Nat /\ NextPrefix \in 1..MaxPrefix
    BY <1>3, <2>1
  <2> HIDE DEF p
  <2>3. ConnKeeps
    <3>1. CASE UNCHANGED conn
      BY <3>1, ConnSame
    <3>2. CASE conn' = [conn EXCEPT !.prefix = p, !.refused = @ \cup {NextPrefix}]
      BY <2>2, <3>2 DEF Typed, ConnTyped, ConnKeeps, ConnFields
    <3> QED
      BY <2>1, <3>1, <3>2 DEF p
  <2>4. RestKeeps
    BY <2>1, <2>2 DEF Typed, WorldTyped, RestKeeps, world
  <2> QED
    BY <2>1, <2>3, <2>4, ChanSame, CallsSame, StoreSame, TypedFrame DEF ConnKeeps
<1>5. ASSUME NEW kind \in {"standard", "extended"}, NEW rate \in env.rates,
             NEW limit \in env.limits, Open(t, kind, rate, limit)
      PROVE  Typed'
  <2> DEFINE c == conn.next
  <2>1. /\ c \in Channel /\ channels' = channels \cup {c}
        /\ Chans(chan)' /\ chan'[c].kind = kind
        /\ \A d \in Channel \ {c} : chan'[d] = chan[d]
        /\ task' = [task EXCEPT ![t] = task'[t]] /\ CallRec(task'[t]) /\ task'[t].c = c
        /\ used' = (IF kind = "extended" THEN used \cup {NextPrefix} ELSE used)
        /\ kind = "extended" => ~Exhausted
        /\ DOMAIN conn' = ConnFields /\ conn'.next = c + 1
        /\ conn'.prefix = (IF kind = "extended" THEN (NextPrefix % MaxPrefix) + 1
                           ELSE conn.prefix)
        /\ conn'.primary = (IF channels = {} THEN c ELSE conn.primary)
        /\ conn'.accepted = conn.accepted /\ conn'.timer = conn.timer
        /\ conn'.destroyed = conn.destroyed
        /\ UNCHANGED <<base, world, sock, destroys>>
    BY ZenonT(60), <1>5, OpenIs DEF New
  <2>2. ConnTyped
    BY DEF Typed
  <2>3. conn'.prefix \in Nat /\ used' \subseteq 1..MaxPrefix
    BY <1>3, <2>1, <2>2 DEF ConnTyped, Typed, WorldTyped
  <2>4. c \in Nat /\ c > 0
    BY <2>2 DEF ConnTyped
  <2>5. conn'.primary \in channels' \cup {0} /\ conn'.primary # 0
    <3>1. CASE channels = {}
      BY <2>1, <2>4, <3>1
    <3>2. CASE channels # {}
      BY <2>1, <2>2, <3>2 DEF ConnTyped
    <3> QED
      BY <3>1, <3>2
  <2>6. \A d \in channels' : d < conn'.next
    BY <2>1, <2>2, <2>4, ChannelIs DEF ConnTyped, Typed, WorldTyped
  <2>7. \A d \in Channel : chan'[d].jd => d < conn'.next
    <3> SUFFICES ASSUME NEW d \in Channel, chan'[d].jd PROVE d < c + 1
      BY <2>1
    <3>1. CASE d = c
      BY <2>4, <3>1
    <3>2. CASE d # c
      BY <2>1, <2>2, <2>4, <3>2, ChannelIs DEF ConnTyped
    <3> QED
      BY <3>1, <3>2
  <2>8. ConnTyped'
    BY <2>1, <2>2, <2>3, <2>4, <2>5, <2>6, <2>7 DEF ConnTyped
  <2>9. Calls'
    BY <2>1, <2>4, CallsStep
  <2>10. \A d \in channels' : chan'[d].kind \in {"standard", "extended"}
    BY <2>1 DEF Typed, WorldTyped
  <2>11. WorldTyped'
    BY <2>1, <2>3, <2>10 DEF Typed, WorldTyped, world
  <2> QED
    BY <2>1, <2>8, <2>9, <2>11, StoreSame DEF Typed
<1>6. ASSUME NEW c \in Channel, CloseChannel(t, c) PROVE Typed'
  <2> DEFINE left == channels \ {c}
  <2>1. /\ c \in channels /\ channels' = left /\ used' = used \ Prefixes({c})
        /\ UNCHANGED <<base, world, chan, sock, task, destroys>>
        /\ conn' = [conn EXCEPT
                     !.primary = IF @ # c THEN @ ELSE IF left = {} THEN 0 ELSE Least(left),
                     !.sub = IF left = {} THEN 0 ELSE @,
                     !.timer = @ /\ left # {},
                     !.leaky = @ \/ (left = {} /\ Orphan)]
    BY <1>6 DEF CloseChannel
  <2>2. left \subseteq Nat /\ 0 \notin left
    BY ChannelIs DEF Typed, WorldTyped
  <2>3. /\ DOMAIN conn' = ConnFields /\ conn'.next = conn.next /\ conn'.prefix = conn.prefix
        /\ conn'.accepted = conn.accepted /\ conn'.destroyed = conn.destroyed
        /\ conn'.timer \in BOOLEAN
        /\ conn'.primary = (IF conn.primary # c THEN conn.primary
                            ELSE IF left = {} THEN 0 ELSE Least(left))
    BY <2>1 DEF Typed, ConnTyped, ConnFields
  <2>4. left # {} => Least(left) \in left
    BY <2>2, LeastIs
  <2>5. conn'.primary \in left \cup {0} /\ (left # {} => conn'.primary # 0)
    <3>1. conn.primary \in channels /\ conn.primary # 0
      BY <2>1 DEF Typed, ConnTyped
    <3> QED
      BY <2>2, <2>3, <2>4, <3>1
  <2>6. ConnTyped'
    BY <2>1, <2>3, <2>5 DEF Typed, ConnTyped
  <2>7. WorldTyped'
    BY <2>1 DEF Typed, WorldTyped, world
  <2>8. Calls' /\ Chans(chan)'
    BY <2>1, <2>3, CallsSame, ChanSame DEF ChanKeeps
  <2> QED
    BY <2>1, <2>6, <2>7, <2>8, StoreSame DEF Typed
<1>7. ASSUME NEW c \in Channel, NEW rate \in env.rates, NEW limit \in env.limits,
             Update(t, c, rate, limit)
      PROVE  Typed'
  <2>1. /\ UNCHANGED <<base, world, conn, channels, used, sock, task, destroys>>
        /\ Chans(chan)' /\ Updated(chan[c], chan'[c], rate, limit)
        /\ \A d \in Channel \ {c} : chan'[d] = chan[d]
    BY <1>7, UpdateIs
  <2>2. ChanKeeps
    BY <2>1 DEF ChanKeeps, Updated, SameJobs
  <2> QED
    BY <2>1, <2>2, ConnSame, CallsSame, RestSame, StoreSame, TypedFrame
<1>8. ASSUME NEW c \in Channel, NEW tip, SetCustomMiningJob(t, c, tip) PROVE Typed'
  <2>1. /\ UNCHANGED <<base, world, channels, used, sock, task, destroys>>
        /\ conn' = [conn EXCEPT !.custom = conn.custom + 1]
        /\ Chans(chan)' /\ Customized(chan[c], chan'[c], tip)
        /\ \A d \in Channel \ {c} : chan'[d] = chan[d]
    BY <1>8, SetCustomMiningJobIs
  <2>2. ChanKeeps
    BY <2>1 DEF ChanKeeps, Customized
  <2>3. ConnKeeps
    BY <2>1 DEF Typed, ConnTyped, ConnKeeps, ConnFields
  <2> QED
    BY <2>1, <2>2, <2>3, CallsSame, RestSame, StoreSame, TypedFrame DEF ConnKeeps
<1>9. ASSUME NEW c \in Channel, NEW j, NEW q \in Quality, Submit(t, c, j, q) PROVE Typed'
  <2> DEFINE k == [Idle EXCEPT !.at = "judge", !.why = "share", !.c = c, !.job = j, !.q = q]
  <2>1. /\ c \in channels /\ task' = [task EXCEPT ![t] = k]
        /\ UNCHANGED <<base, world, conn, channels, chan, used, sock, destroys>>
    BY <1>9 DEF Submit, Put
  <2>2. /\ DOMAIN k = CallFields /\ k.at = "judge" /\ k.c = c /\ k.q = q
        /\ k.diff = 0 /\ k.tmpl = 0 /\ k.built = 0
    BY DEF Idle, CallFields
  <2> HIDE DEF k
  <2>3. CallRec(k) /\ k.c < conn.next
    BY <2>1, <2>2, ChannelIs, SessionAssumption DEF CallRec, Labels, Typed, ConnTyped
  <2>4. Calls'
    BY <2>1, <2>3, CallsPut
  <2> QED
    BY <2>1, <2>4, ConnSame, ChanSame, RestSame, StoreSame, TypedFrame
<1> QED
  BY <1>1, <1>2, <1>4, <1>5, <1>6, <1>7, <1>8, <1>9 DEF Receive

\* The registry takes a template: its jobs may be deleted and retired.
LEMMA NewTemplateIs ==
    ASSUME Typed, NEW tip
    PROVE  LET new == NewTemplate(store, tip, clock)
           IN  /\ DOMAIN new = StoreFields /\ new.tip = tip
               /\ new.nextTemplate = store.nextTemplate + 1 /\ new.nextJob = store.nextJob
<1> DEFINE cleaned == Cleanup(store, ClearsJobs(store, tip), clock)
<1>1. DOMAIN store = StoreFields
  BY DEF Typed, StoreTyped
<1>2. DOMAIN cleaned = StoreFields /\ cleaned.nextJob = store.nextJob
  BY <1>1 DEF Cleanup, StoreFields
<1> HIDE DEF cleaned
<1> QED
  BY <1>2 DEF NewTemplate, cleaned, StoreFields

LEMMA OneSubscription == ReleaseInv => \A r, s \in subs : r = s
  BY DEF ReleaseInv

LEMMA TipIs == ASSUME Typed PROVE store.tip \in Nat
<1>1. tmpls[Newest] \in Templates /\ store.tip = tmpls[Newest].tip
  BY DEF Typed, StoreTyped, Newest
<1> QED
  BY <1>1 DEF Templates

\* The socket, destroy, and the world.
LEMMA WorldTypedStep ==
    ASSUME Typed, ReleaseInv,
           \/ Disconnect \/ Bury \/ Release \/ Tick \/ JdpChanges
           \/ \E s \in Schemes : Move(s)
           \/ \E tip \in {store.tip, store.tip + 1}, same \in BOOLEAN : Publish(tip, same)
    PROVE  Typed'
<1> USE DEF base
<1>1. CASE Disconnect
  <2>1. CloseSocket /\ UNCHANGED <<base, world, conn, channels, chan, used, task>>
    BY <1>1 DEF Disconnect
  <2> QED
    BY <2>1, ConnSame, ChanSame, CallsSame, SocketCloses, StoreSame, TypedFrame
<1>2. CASE Bury
  <2>1. /\ conn' = [conn EXCEPT !.destroyed = TRUE]
        /\ destroys' = (destroys \ {"bury"}) \cup (IF conn.destroyed THEN {} ELSE {"release"})
        /\ UNCHANGED <<base, world, channels, chan, used, sock, task>>
    BY <1>2 DEF Bury
  <2>2. ConnKeeps
    BY <2>1 DEF Typed, ConnTyped, ConnKeeps, ConnFields
  <2>3. RestKeeps
    BY <2>1 DEF Typed, WorldTyped, RestKeeps, world
  <2> QED
    BY <2>1, <2>2, <2>3, ChanSame, CallsSame, StoreSame, TypedFrame DEF ConnKeeps
<1>3. CASE Release
  <2>1. /\ conn' = [conn EXCEPT !.registered = FALSE, !.sub = 0, !.timer = FALSE, !.primary = 0,
                                !.leaky = @ \/ Orphan]
        /\ used' = used \ Prefixes(channels) /\ channels' = {}
        /\ destroys' = destroys \ {"release"}
        /\ UNCHANGED <<base, world, chan, sock, task>>
    BY <1>3 DEF Release
  <2>2. /\ DOMAIN conn' = ConnFields /\ conn'.next = conn.next /\ conn'.prefix = conn.prefix
        /\ conn'.accepted = conn.accepted /\ conn'.destroyed = conn.destroyed
        /\ conn'.timer = FALSE /\ conn'.primary = 0
    BY <2>1 DEF Typed, ConnTyped, ConnFields
  <2>3. ConnTyped'
    BY <2>1, <2>2 DEF Typed, ConnTyped
  <2>4. WorldTyped'
    BY <2>1 DEF Typed, WorldTyped, world
  <2> QED
    BY <2>1, <2>2, <2>3, <2>4, ChanSame, CallsSame, StoreSame DEF Typed, ChanKeeps
<1>4. CASE Tick
  <2>1. clock' = clock + 1 /\ UNCHANGED <<store, tmpls, world, conn, channels, chan, used, sock, task, destroys>>
    BY <1>4 DEF Tick
  <2>2. RestKeeps
    BY <2>1 DEF Typed, WorldTyped, RestKeeps, world
  <2> QED
    BY <2>1, <2>2, ConnSame, ChanSame, CallsSame, StoreSame, TypedFrame
<1>5. CASE JdpChanges
  <2>1. jdp' = ~jdp /\ UNCHANGED <<base, env, scheme, conn, channels, chan, used, sock, task, destroys>>
    BY <1>5 DEF JdpChanges
  <2>2. RestKeeps
    BY <2>1 DEF Typed, WorldTyped, RestKeeps
  <2> QED
    BY <2>1, <2>2, ConnSame, ChanSame, CallsSame, StoreSame, TypedFrame
<1>6. ASSUME NEW s \in Schemes, Move(s) PROVE Typed'
  <2>1. /\ scheme' = s /\ env.port = "solo" /\ s # "pplns"
        /\ UNCHANGED <<base, env, jdp, conn, channels, chan, used, sock, task, destroys>>
    BY <1>6 DEF Move
  <2>2. WorldTyped'
    BY <2>1 DEF Typed, WorldTyped
  <2>3. ConnTyped'
    BY <2>1 DEF Typed, ConnTyped
  <2> QED
    BY <2>1, <2>2, <2>3, ChanSame, CallsSame, StoreSame DEF Typed, ChanKeeps
<1>7. ASSUME NEW tip \in {store.tip, store.tip + 1}, NEW same \in BOOLEAN, Publish(tip, same)
      PROVE  Typed'
  <2>1. tip \in Nat
    BY TipIs
  <2>2. /\ store' = NewTemplate(store, tip, clock)
        /\ \E template \in Templates : tmpls' = Append(tmpls, template) /\ template.tip = tip
        /\ Settled(chan, chan')
        /\ UNCHANGED <<clock, world, conn, channels, used, sock, destroys>>
        /\ \/ UNCHANGED task
           \/ \E t \in Task :
                LET call == [Idle EXCEPT !.why = "publish", !.tmpl = Newest + 1,
                                         !.prev = ClearsJobs(store, tip)]
                IN  /\ task' = [task EXCEPT ![t] = task'[t]]
                    /\ Dispatched(0, chan, call, 0, Newest + 1, chan', task'[t])
    BY <1>7, <2>1, PublishIs, OneSubscription
  <2>3. Calls'
    <3>1. CASE UNCHANGED task
      BY <2>2, <3>1, CallsSame
    <3>2. ASSUME NEW t \in Task, NEW call, task' = [task EXCEPT ![t] = task'[t]],
                 Dispatched(0, chan, call, 0, Newest + 1, chan', task'[t])
          PROVE  Calls'
      <4>1. CallRec(task'[t]) /\ task'[t].c < conn.next
        BY <3>2, DispatchedTyped
      <4> QED
        BY <2>2, <3>2, <4>1, CallsPut
    <3> QED
      BY <2>2, <3>1, <3>2
  <2>4. ConnTyped'
    <3>1. \A c \in Channel : chan'[c].jd => c < conn.next
      BY <2>2 DEF Settled, Typed, ConnTyped
    <3> QED
      BY <2>2, <3>1 DEF Typed, ConnTyped
  <2>5. WorldTyped'
    BY <2>2 DEF Typed, WorldTyped, world, Settled, SameWork
  <2>6. StoreTyped'
    <3>1. PICK template \in Templates : tmpls' = Append(tmpls, template) /\ template.tip = tip
      BY <2>2
    <3>2. /\ tmpls \in Seq(Templates) /\ Len(tmpls) \in Nat /\ Len(tmpls) >= 1
          /\ store.nextTemplate = Len(tmpls) + 1
      BY DEF Typed, StoreTyped, Newest
    <3>3. /\ tmpls' \in Seq(Templates) /\ Len(tmpls') = Len(tmpls) + 1
          /\ tmpls'[Len(tmpls) + 1] = template
      BY <3>1, <3>2
    <3>4. /\ DOMAIN store' = StoreFields /\ store'.tip = tip
          /\ store'.nextTemplate = store.nextTemplate + 1
      BY <2>2, NewTemplateIs
    <3> QED
      BY <3>1, <3>2, <3>3, <3>4 DEF StoreTyped, Newest
  <2> QED
    BY <2>2, <2>3, <2>4, <2>5, <2>6 DEF Typed, Settled
<1> QED
  BY <1>1, <1>2, <1>3, <1>4, <1>5, <1>6, <1>7

LEMMA TypedNext == ASSUME Typed, ReleaseInv, [Next]_vars PROVE Typed'
<1>1. CASE Next
  <2>1. ASSUME NEW t \in Task, NEW rate \in env.rates, Check(t, rate) PROVE Typed'
    <3>1. /\ Ratchet(t, rate, FALSE)
          /\ UNCHANGED <<base, world, channels, used, sock, destroys>>
      BY <2>1 DEF Check
    <3> QED
      BY <3>1, RatchetTyped
  <2> QED
    BY <1>1, <2>1, ResumeTyped, ReceiveTyped, WorldTypedStep DEF Next
<1>2. CASE UNCHANGED vars
  BY <1>2, ConnSame, ChanSame, CallsSame, RestSame, StoreSame, TypedFrame DEF vars, base
<1> QED
  BY <1>1, <1>2

LEMMA TypedImplies == Typed => TypeOK
  BY DEF Typed, TypeOK, WorldTyped, ConnTyped, Chans, ChanRec, Calls, CallRec

-------------------------------------------------------------------------------
(* What a call leaves alone when it goes on. *)

Steady(t) ==
    /\ \A c \in Channel :
        /\ chan'[c].kind = chan[c].kind /\ chan'[c].prefix = chan[c].prefix
        /\ (chan[c].jd => chan'[c].jd) /\ (chan[c].raced => chan'[c].raced)
    /\ \A u \in Task \ {t} : task'[u] = task[u]
    /\ UNCHANGED <<channels, used, tmpls, clock, turned, world>>
    /\ conn'.refused = conn.refused /\ conn'.leaky = conn.leaky /\ conn'.next = conn.next
    /\ conn'.registered = conn.registered /\ conn'.destroyed = conn.destroyed

LEMMA PutIs ==
    ASSUME Typed, NEW t \in Task, NEW k, Put(t, k)
    PROVE  task'[t] = k /\ \A u \in Task \ {t} : task'[u] = task[u]
  BY DEF Put, Typed, Calls

LEMMA ProceedSteady ==
    ASSUME Typed, NEW t \in Task, NEW ch, Chans(ch), Proceed(t, ch),
           \A c \in Channel :
                /\ ch[c].kind = chan[c].kind /\ ch[c].prefix = chan[c].prefix
                /\ (chan[c].jd => ch[c].jd) /\ (chan[c].raced => ch[c].raced),
           UNCHANGED <<channels, used, tmpls, clock, turned, world>>
    PROVE  Steady(t)
<1>1. /\ Settled(ch, chan') /\ task' = [task EXCEPT ![t] = task'[t]]
      /\ Ended(t, ch) \/ Subscribes(t, ch) \/ Continues(t, ch)
  BY ProceedIs
<1>2. /\ conn'.refused = conn.refused /\ conn'.leaky = conn.leaky /\ conn'.next = conn.next
      /\ conn'.registered = conn.registered /\ conn'.destroyed = conn.destroyed
  <2>1. UNCHANGED conn
        \/ conn' = [conn EXCEPT !.sub = conn.nsub + 1, !.nsub = @ + 1, !.timer = TRUE]
    BY <1>1 DEF Ended, Subscribes, Continues
  <2> QED
    BY <2>1 DEF Typed, ConnTyped, ConnFields
<1>3. \A u \in Task \ {t} : task'[u] = task[u]
  BY <1>1 DEF Typed, Calls
<1>4. \A c \in Channel :
        /\ chan'[c].kind = chan[c].kind /\ chan'[c].prefix = chan[c].prefix
        /\ (chan[c].jd => chan'[c].jd) /\ (chan[c].raced => chan'[c].raced)
  BY <1>1 DEF Settled, SameWork
<1> QED
  BY <1>2, <1>3, <1>4 DEF Steady

LEMMA ResumeSteady ==
    ASSUME Typed, NEW t \in Task,
           \/ Resume(t) \/ NoDistribution(t) \/ RecordFails(t) \/ Rejected(t)
           \/ \E rate \in env.rates : Check(t, rate)
    PROVE  Steady(t)
<1>0. /\ task[t].at \in Working => task[t].c \in Channel
      /\ Chans(chan) /\ DOMAIN conn = ConnFields
  BY TypedCalls DEF Typed, ConnTyped
<1> USE DEF base
<1>1. ASSUME Create(t) PROVE Steady(t)
  <2>1. conn' = [conn EXCEPT !.creating = "done", !.entity = TRUE]
        \/ conn' = [conn EXCEPT !.creating = "done"]
    BY <1>1 DEF Create
  <2>2. \A u \in Task \ {t} : task'[u] = task[u]
    BY <1>1, PutIs DEF Create, Goto
  <2> QED
    BY <1>0, <1>1, <2>1, <2>2 DEF Create, Steady, ConnFields
<1>2. ASSUME Entity(t) PROVE Steady(t)
  <2>1. /\ task[t].c \in Channel /\ chan' = Target(chan, task[t].c, chan[task[t].c].diff)
        /\ UNCHANGED <<base, world, conn, channels, used>>
    BY <1>0, <1>2 DEF Entity, Working
  <2>2. chan[task[t].c].diff \in Nat
    BY <2>1 DEF Typed, Chans, ChanRec
  <2>3. /\ Retargeted(chan[task[t].c], chan'[task[t].c], chan[task[t].c].diff)
        /\ \A d \in Channel \ {task[t].c} : chan'[d] = chan[d]
    BY <1>0, <2>1, <2>2, TargetIs
  <2>4. \A u \in Task \ {t} : task'[u] = task[u]
    BY <1>2, PutIs DEF Entity, Goto
  <2> QED
    BY <2>1, <2>3, <2>4 DEF Steady, Retargeted, SameJobs
<1>3. ASSUME Success(t) PROVE Steady(t)
  <2> DEFINE c == task[t].c
             call == [task[t] EXCEPT !.tmpl = Newest, !.prev = TRUE]
             start == StartSend(t, chan, c, call, Newest)
  <2>1. /\ c \in Channel
        /\ UNCHANGED <<base, world, channels, used>>
        /\ \/ Proceed(t, chan)
           \/ chan' = start.chan /\ Put(t, start.call) /\ UNCHANGED conn
    BY <1>0, <1>3 DEF Success, Working
  <2>2. CASE Proceed(t, chan)
    BY <1>0, <2>1, <2>2, ProceedSteady
  <2>3. CASE chan' = start.chan /\ Put(t, start.call) /\ UNCHANGED conn
    <3>1. CallRec(call) /\ Newest \in Nat
      BY TypedCalls DEF CallRec, CallFields, Typed, StoreTyped, Newest
    <3>2. Settled(chan, start.chan)
      BY <1>0, <2>1, <3>1, StartSendIs
    <3> HIDE DEF start
    <3>3. \A u \in Task \ {t} : task'[u] = task[u]
      BY <2>3, PutIs
    <3> QED
      BY <2>1, <2>3, <3>2, <3>3 DEF Steady, Settled, SameWork
  <2> QED
    BY <2>1, <2>2, <2>3
<1>4. ASSUME Payout(t) PROVE Steady(t)
  <2>1. /\ task[t].c \in Channel /\ UNCHANGED <<clock, tmpls, turned, world, channels, used>>
        /\ Writes(t) \/ Proceed(t, chan)
    BY <1>4, PayoutIs
  <2>2. CASE Proceed(t, chan)
    BY <1>0, <2>1, <2>2, ProceedSteady
  <2>3. CASE Writes(t)
    <3>1. \A u \in Task \ {t} : task'[u] = task[u]
      BY <2>3 DEF Writes, Typed, Calls
    <3> QED
      BY <2>1, <2>3, <3>1 DEF Steady, Writes, Written
  <2> QED
    BY <2>1, <2>2, <2>3
<1>5. ASSUME NoDistribution(t) PROVE Steady(t)
  <2> DEFINE c == task[t].c
             b == chan[c].raced \/ task[t].prev
             ch == [chan EXCEPT ![c].raced = b]
  <2>1. c \in Channel /\ Proceed(t, ch) /\ UNCHANGED <<base, world, channels, used>>
    BY <1>0, <1>5 DEF NoDistribution, Working
  <2>2. chan[c].raced => b
    OBVIOUS
  <2> HIDE DEF b
  <2>3. Chans(ch) /\ \A d \in Channel :
                        /\ ch[d].kind = chan[d].kind /\ ch[d].prefix = chan[d].prefix
                        /\ (chan[d].jd => ch[d].jd) /\ (chan[d].raced => ch[d].raced)
    BY SMTT(30), <2>1, <2>2 DEF Typed, Chans, ChanRec, ChanFields
  <2> HIDE DEF ch
  <2> QED
    BY <2>1, <2>3, ProceedSteady
<1>6. ASSUME Sent(t) PROVE Steady(t)
  <2>1. task[t].c \in Channel /\ UNCHANGED <<base, world, channels, used>>
    BY <1>6, SentIs
  <2>2. PICK next :
          /\ Chans(next) /\ IsRecorded(t, chan[task[t].c], next[task[t].c])
          /\ \A d \in Channel \ {task[t].c} : next[d] = chan[d]
          /\ \/ /\ task[t].prev /\ chan' = next /\ UNCHANGED <<conn, subs>>
                /\ Goto(t, "prev")
             \/ ~task[t].prev /\ Proceed(t, next)
    BY <1>6, SentIs
  <2>3. \A d \in Channel : /\ next[d].kind = chan[d].kind /\ next[d].prefix = chan[d].prefix
                           /\ (chan[d].jd => next[d].jd) /\ (chan[d].raced => next[d].raced)
    BY <2>2 DEF IsRecorded
  <2>4. CASE Proceed(t, next)
    BY <2>1, <2>2, <2>3, <2>4, ProceedSteady
  <2>5. CASE chan' = next /\ Goto(t, "prev") /\ UNCHANGED conn
    <3>1. \A u \in Task \ {t} : task'[u] = task[u]
      BY <2>5, PutIs DEF Goto
    <3> QED
      BY <2>1, <2>3, <2>5, <3>1 DEF Steady
  <2> QED
    BY <2>2, <2>4, <2>5
<1>7. ASSUME Prevd(t) PROVE Steady(t)
  BY <1>0, <1>7, ProceedSteady DEF Prevd
<1>8. ASSUME Tell(t) PROVE Steady(t)
  <2>1. /\ UNCHANGED <<base, world, conn, channels, used>>
        /\ task' = [task EXCEPT ![t] = task'[t]]
        /\ \/ chan' = chan
           \/ \E c \in channels :
                    /\ Retargeted(chan[c], chan'[c], Clamped(c, task[t].diff))
                    /\ \A d \in Channel \ {c} : chan'[d] = chan[d]
    BY <1>8, TellIs
  <2>2. \A u \in Task \ {t} : task'[u] = task[u]
    BY <2>1 DEF Typed, Calls
  <2> QED
    BY <2>1, <2>2 DEF Steady, Retargeted, SameJobs
<1>9. ASSUME Judge(t) PROVE Steady(t)
  <2>1. /\ task[t].c \in Channel
        /\ chan' = [chan EXCEPT ![task[t].c].seen = @ \cup {<<task[t].job, task[t].q>>}]
        /\ UNCHANGED <<clock, tmpls, turned, world, conn, channels, used>>
        /\ \E k : Put(t, k)
    BY <1>0, <1>9 DEF Judge, Working, Done
  <2>2. \A u \in Task \ {t} : task'[u] = task[u]
    BY <2>1, PutIs
  <2> QED
    BY <1>0, <2>1, <2>2 DEF Steady, Chans, ChanRec, ChanFields
<1>10. ASSUME SubmitBlock(t) \/ Rejected(t) PROVE Steady(t)
  <2>1. (\E k : Put(t, k)) /\ UNCHANGED <<base, world, conn, channels, chan, used>>
    BY <1>10 DEF SubmitBlock, Rejected, Done, Goto
  <2>2. \A u \in Task \ {t} : task'[u] = task[u]
    BY <2>1, PutIs
  <2> QED
    BY <2>1, <2>2 DEF Steady
<1>11. ASSUME RecordShare(t) \/ RecordFails(t) PROVE Steady(t)
  <2>1. /\ (\E k : Put(t, k)) /\ UNCHANGED <<base, world, channels, chan, used>>
        /\ UNCHANGED conn \/ conn' = [conn EXCEPT !.accepted = @ + 1]
    BY <1>11 DEF RecordShare, RecordFails, Done
  <2>2. \A u \in Task \ {t} : task'[u] = task[u]
    BY <2>1, PutIs
  <2> QED
    BY <1>0, <2>1, <2>2 DEF Steady, ConnFields
<1>12. ASSUME NEW rate \in env.rates, NEW ofJd, Ratchet(t, rate, ofJd),
              UNCHANGED <<base, world, channels, used>>
       PROVE  Steady(t)
  <2>1. /\ task' = [task EXCEPT ![t] = task'[t]]
        /\ \A c \in Channel : SameJobs(chan[c], chan'[c])
        /\ \E diff : conn' = [conn EXCEPT !.diff = diff]
    BY <1>12, RatchetIs
  <2>2. \A u \in Task \ {t} : task'[u] = task[u]
    BY <2>1 DEF Typed, Calls
  <2> QED
    BY <1>0, <1>12, <2>1, <2>2 DEF Steady, ConnFields, SameJobs
<1>13. ASSUME AfterShare(t) PROVE Steady(t)
  <2>1. /\ UNCHANGED <<base, world, channels, used>>
        /\ \/ Done(t) /\ UNCHANGED <<conn, chan>>
           \/ \E rate \in env.rates : Ratchet(t, rate, chan[task[t].c].jd)
    BY <1>13 DEF AfterShare
  <2>2. CASE Done(t) /\ UNCHANGED <<conn, chan>>
    BY <2>1, <2>2, PutIs DEF Steady, Done
  <2> QED
    BY <1>12, <2>1, <2>2
<1>14. ASSUME NEW rate \in env.rates, Check(t, rate) PROVE Steady(t)
  BY <1>12, <1>14 DEF Check
<1> QED
  BY <1>1, <1>2, <1>3, <1>4, <1>5, <1>6, <1>7, <1>8, <1>9, <1>10, <1>11, <1>13, <1>14
  DEF Resume

-------------------------------------------------------------------------------
(* Prefixes. *)

\* PrefixesAccounted, prefix by prefix.
PrefixWise ==
    /\ \A p : p \in used <=>
            \/ p \in conn.refused
            \/ \E c \in channels : chan[c].kind = "extended" /\ chan[c].prefix = p
    /\ \A c, d \in channels :
            chan[c].kind = "extended" /\ chan[d].kind = "extended"
            /\ chan[c].prefix = chan[d].prefix => c = d

LEMMA PrefixPoints == PrefixesAccounted <=> PrefixWise
<1> DEFINE extended == {c \in channels : chan[c].kind = "extended"}
           all == Prefixes(extended) \cup conn.refused
<1>1. \A p : p \in Prefixes(extended) <=> \E c \in extended : chan[c].prefix = p
  BY DEF Prefixes
<1>2. \A p : p \in all <=>
                \/ p \in conn.refused
                \/ \E c \in channels : chan[c].kind = "extended" /\ chan[c].prefix = p
  BY <1>1
<1>3. PrefixesAccounted <=>
        /\ used = all
        /\ \A c, d \in extended : chan[c].prefix = chan[d].prefix => c = d
  BY DEF PrefixesAccounted
<1>4. used = all <=> \A p : p \in used <=> p \in all
  OBVIOUS
<1>5. (\A c, d \in extended : chan[c].prefix = chan[d].prefix => c = d)
      <=> \A c, d \in channels :
            chan[c].kind = "extended" /\ chan[d].kind = "extended"
            /\ chan[c].prefix = chan[d].prefix => c = d
  OBVIOUS
<1> HIDE DEF all, extended
<1> QED
  BY <1>2, <1>3, <1>4, <1>5 DEF PrefixWise

LEMMA PrefixInit == Init => PrefixInv
<1> SUFFICES ASSUME Init PROVE PrefixInv
  OBVIOUS
<1>1. PICK k \in Cases :
        /\ conn = IF Len(k.open) = 0 THEN Fresh ELSE Started(Len(k.open), k.open)
        /\ channels = 1..Len(k.open)
        /\ chan = [c \in Channel |->
                     IF c <= Len(k.open) THEN Opened(k.open[c], c, scheme) ELSE NoChannel]
        /\ used = {c \in 1..Len(k.open) : k.open[c] = "extended"}
  BY DEF Init
<1> DEFINE n == Len(k.open)
<1>2. n \in Nat /\ n <= MaxChannels /\ n <= MaxPrefix
  BY SessionAssumption
<1>3. conn.refused = {}
  BY <1>1 DEF Fresh, Started
<1>4. channels \subseteq Channel
  BY <1>1, <1>2, SessionAssumption DEF Channel
<1>5. ASSUME NEW c \in channels
      PROVE  /\ chan[c].kind = k.open[c]
             /\ chan[c].kind = "extended" => chan[c].prefix = c
             /\ c \in 1..n /\ c \in 1..MaxPrefix
  <2>1. chan[c] = Opened(k.open[c], c, scheme) /\ c \in 1..n
    BY <1>1, <1>2, <1>4
  <2>2. chan[c].kind = k.open[c] /\ chan[c].prefix = IF k.open[c] = "extended" THEN c ELSE 0
    BY <2>1 DEF Opened, NoChannel
  <2> QED
    BY <1>2, <2>1, <2>2, SessionAssumption
<1> HIDE DEF n
<1>6. used = {c \in 1..n : k.open[c] = "extended"} /\ channels = 1..n
  BY <1>1 DEF n
<1>7. PrefixWise
  BY <1>3, <1>5, <1>6 DEF PrefixWise
<1> QED
  BY <1>3, <1>5, <1>7, PrefixPoints DEF PrefixInv

LEMMA PrefixFrame ==
    ASSUME PrefixInv, Typed, UNCHANGED <<channels, used>>, conn'.refused = conn.refused,
           \A c \in Channel : chan'[c].kind = chan[c].kind /\ chan'[c].prefix = chan[c].prefix
    PROVE  PrefixInv'
<1>1. channels \subseteq Channel
  BY DEF Typed, WorldTyped
<1>2. PrefixesAccounted'
  <2> DEFINE extended == {c \in channels : chan[c].kind = "extended"}
  <2>1. /\ used = Prefixes(extended) \cup conn.refused
        /\ \A c, d \in extended : chan[c].prefix = chan[d].prefix => c = d
    BY DEF PrefixInv, PrefixesAccounted
  <2>2. extended' = extended
    BY <1>1
  <2>3. Prefixes(extended)' = Prefixes(extended)
    BY <1>1, <2>2 DEF Prefixes
  <2>4. \A c \in extended : chan'[c].prefix = chan[c].prefix
    BY <1>1
  <2> HIDE DEF extended
  <2>5. /\ used' = Prefixes(extended)' \cup conn'.refused
        /\ \A c, d \in extended' : chan'[c].prefix = chan'[d].prefix => c = d
    BY <2>1, <2>2, <2>3, <2>4
  <2> QED
    BY <2>5 DEF PrefixesAccounted, extended
<1> QED
  BY <1>1, <1>2 DEF PrefixInv

\* Prefixes are taken and returned by opening, refusing and closing.
LEMMA PrefixNext == ASSUME Typed, ReleaseInv, PrefixInv, [Next]_vars PROVE PrefixInv'
<1> USE DEF base
<1>0. /\ channels \subseteq Channel /\ Chans(chan) /\ DOMAIN conn = ConnFields
      /\ conn.refused \subseteq 1..MaxPrefix
  BY DEF Typed, WorldTyped, ConnTyped, PrefixInv
<1>1. /\ PrefixWise
      /\ \A c \in channels : chan[c].kind = "extended" =>
            chan[c].prefix \in 1..MaxPrefix /\ chan[c].prefix \notin conn.refused
  BY PrefixPoints DEF PrefixInv
<1>2. SUFFICES ASSUME Next PROVE PrefixInv'
  <2>1. ASSUME UNCHANGED vars PROVE PrefixInv'
    <3>1. UNCHANGED <<conn, channels, used, chan>>
      BY <2>1 DEF vars
    <3> QED
      BY <3>1, PrefixFrame
  <2> QED
    BY <2>1
<1>3. ASSUME /\ conn'.refused \subseteq 1..MaxPrefix
             /\ PrefixWise'
             /\ \A c \in channels' : chan'[c].kind = "extended" =>
                    chan'[c].prefix \in 1..MaxPrefix /\ chan'[c].prefix \notin conn'.refused
      PROVE  PrefixInv'
  <2>1. (PrefixesAccounted <=> PrefixWise)'
    BY PrefixPoints, PTL
  <2> QED
    BY <1>3, <2>1 DEF PrefixInv
<1> USE DEF PrefixWise
<1>4. ASSUME NEW t \in Task, Steady(t) PROVE PrefixInv'
  BY <1>4, PrefixFrame DEF Steady
<1>5. ASSUME ~Exhausted PROVE NextPrefix \in (1..MaxPrefix) \ used
  BY <1>5, NextPrefixIs DEF Typed, ConnTyped, WorldTyped
<1>6. ASSUME NEW t \in Task, Receive(t) PROVE PrefixInv'
  <2>1. ASSUME NEW w \in BOOLEAN, SetupConnection(t, w) PROVE PrefixInv'
    <3>1. conn'.refused = conn.refused
      BY <1>0, <2>1 DEF SetupConnection, ConnFields
    <3> QED
      BY <2>1, <3>1, PrefixFrame DEF SetupConnection
  <2>2. ASSUME Unacceptable(t) \/ NoPrefix(t) PROVE PrefixInv'
    BY <2>2, PrefixFrame DEF Unacceptable, NoPrefix
  <2>3. ASSUME NEW kind \in {"standard", "extended"}, Refuse(t, kind) PROVE PrefixInv'
    <3>1. CASE kind = "extended"
      <4> DEFINE p == NextPrefix
      <4>1. /\ used' = used \cup {p} /\ UNCHANGED <<channels, chan>> /\ ~Exhausted
            /\ conn' = [conn EXCEPT !.prefix = (NextPrefix % MaxPrefix) + 1,
                                    !.refused = @ \cup {p}]
        BY <2>3, <3>1 DEF Refuse
      <4>2. conn'.refused = conn.refused \cup {p}
        BY <1>0, <4>1 DEF ConnFields
      <4>3. p \in 1..MaxPrefix /\ p \notin used
        BY <1>5, <4>1
      <4> HIDE DEF p
      <4>4. used' = used \cup {p} /\ UNCHANGED <<channels, chan>>
        BY <4>1 DEF p
      <4> QED
        BY <1>0, <1>1, <1>3, <4>2, <4>3, <4>4
    <3>2. CASE kind # "extended"
      BY <2>3, <3>2, PrefixFrame DEF Refuse
    <3> QED
      BY <3>1, <3>2
  <2>4. ASSUME NEW kind \in {"standard", "extended"}, NEW rate \in env.rates,
               NEW limit \in env.limits, Open(t, kind, rate, limit)
        PROVE  PrefixInv'
    <3> DEFINE c == conn.next
               p == NextPrefix
    <3>1. /\ c \in Channel /\ c \notin channels /\ channels' = channels \cup {c}
          /\ chan'[c].kind = kind /\ chan'[c].prefix = (IF kind = "extended" THEN p ELSE 0)
          /\ \A d \in Channel \ {c} : chan'[d] = chan[d]
          /\ used' = (IF kind = "extended" THEN used \cup {p} ELSE used)
          /\ kind = "extended" => ~Exhausted
          /\ conn'.refused = conn.refused
      BY <2>4, OpenIs DEF New
    <3>2. kind = "extended" => p \in 1..MaxPrefix /\ p \notin used
      BY <1>5, <3>1
    <3> HIDE DEF p, c
    <3>3. \A d \in channels : d # c /\ chan'[d] = chan[d]
      BY <1>0, <3>1
    <3>4. CASE kind = "extended"
      <4>1. /\ chan'[c].kind = "extended" /\ chan'[c].prefix = p
            /\ used' = used \cup {p} /\ conn'.refused = conn.refused
        BY <3>1, <3>4
      <4>2. p \in 1..MaxPrefix /\ p \notin used
        BY <3>2, <3>4
      <4>3. \A d : d \in channels' <=> d = c \/ d \in channels
        BY <3>1
      <4>4. \A q : q \in used' <=> q = p \/ q \in used
        BY <4>1
      <4>5. \A d \in channels : chan[d].kind = "extended" => chan[d].prefix # p
        BY <1>1, <4>2
      <4>6. p \notin conn.refused
        BY <1>1, <4>2
      <4>7. PrefixWise'
        BY <1>1, <3>3, <4>1, <4>3, <4>4, <4>5
      <4> QED
        BY <1>0, <1>1, <1>3, <3>3, <4>1, <4>2, <4>3, <4>6, <4>7
    <3>5. CASE kind # "extended"
      <4>1. used' = used /\ chan'[c].kind # "extended" /\ conn'.refused = conn.refused
        BY <3>1, <3>5
      <4>2. \A d : d \in channels' /\ chan'[d].kind = "extended"
                        <=> d \in channels /\ chan[d].kind = "extended"
        BY <3>1, <3>3, <4>1
      <4>3. \A d \in channels' : chan'[d].kind = "extended" => chan'[d].prefix = chan[d].prefix
        BY <3>3, <4>2
      <4> QED
        <5>1. \A q : q \in used' <=> q \in used
          BY <4>1
        <5>2. \A d, e \in channels' :
                 chan'[d].kind = "extended" /\ chan'[e].kind = "extended"
                 /\ chan'[d].prefix = chan'[e].prefix => d = e
          BY <1>1, <4>2, <4>3
        <5>3. \A q : (\E d \in channels' : chan'[d].kind = "extended" /\ chan'[d].prefix = q)
                     <=> \E d \in channels : chan[d].kind = "extended" /\ chan[d].prefix = q
          BY <4>2, <4>3
        <5>4. PrefixWise'
          BY <1>1, <4>1, <5>1, <5>2, <5>3
        <5>5. ASSUME NEW d \in channels', chan'[d].kind = "extended"
              PROVE  chan'[d].prefix \in 1..MaxPrefix /\ chan'[d].prefix \notin conn'.refused
          BY <1>1, <4>1, <4>2, <4>3, <5>5
        <5>6. conn'.refused \subseteq 1..MaxPrefix
          BY <1>0, <4>1
        <5> QED
          BY <1>3, <5>4, <5>5, <5>6
    <3> QED
      BY <3>4, <3>5
  <2>5. ASSUME NEW c \in Channel, CloseChannel(t, c) PROVE PrefixInv'
    <3>1. /\ c \in channels /\ channels' = channels \ {c} /\ used' = used \ Prefixes({c})
          /\ UNCHANGED chan /\ conn'.refused = conn.refused
      BY <1>0, <2>5 DEF CloseChannel, ConnFields
    <3>2. \A p : p \in Prefixes({c}) <=> chan[c].kind = "extended" /\ p = chan[c].prefix
      BY DEF Prefixes
    <3>3. \A p : p \in used' <=> p \in used /\ ~(chan[c].kind = "extended" /\ p = chan[c].prefix)
      BY <3>1, <3>2
    <3>4. \A d : d \in channels' <=> d \in channels /\ d # c
      BY <3>1
    <3>5. chan[c].kind = "extended" => chan[c].prefix \notin conn.refused
      BY <1>1, <3>1
    <3>6. PrefixWise'
      BY ZenonT(60), <1>1, <3>1, <3>3, <3>4, <3>5
    <3> QED
      BY <1>0, <1>1, <1>3, <3>1, <3>4, <3>6
  <2>6. ASSUME NEW c \in Channel, NEW rate \in env.rates, NEW limit \in env.limits,
               Update(t, c, rate, limit)
        PROVE  PrefixInv'
    <3>1. /\ UNCHANGED <<conn, channels, used>> /\ SameJobs(chan[c], chan'[c])
          /\ \A d \in Channel \ {c} : chan'[d] = chan[d]
      BY <2>6, UpdateIs DEF Updated
    <3> QED
      BY <3>1, PrefixFrame DEF SameJobs
  <2>7. ASSUME NEW c \in Channel, NEW tip, SetCustomMiningJob(t, c, tip) PROVE PrefixInv'
    <3>1. /\ UNCHANGED <<channels, used>> /\ Customized(chan[c], chan'[c], tip)
          /\ conn' = [conn EXCEPT !.custom = conn.custom + 1]
          /\ \A d \in Channel \ {c} : chan'[d] = chan[d]
      BY <2>7, SetCustomMiningJobIs
    <3>2. conn'.refused = conn.refused
      BY <1>0, <3>1 DEF ConnFields
    <3> QED
      BY <3>1, <3>2, PrefixFrame DEF Customized
  <2>8. ASSUME NEW c \in Channel, NEW j, NEW q, Submit(t, c, j, q) PROVE PrefixInv'
    BY <2>8, PrefixFrame DEF Submit
  <2> QED
    BY <1>6, <2>1, <2>2, <2>3, <2>4, <2>5, <2>6, <2>7, <2>8 DEF Receive
<1>7. ASSUME Disconnect \/ Tick \/ JdpChanges \/ \E s \in Schemes : Move(s) PROVE PrefixInv'
  BY <1>7, PrefixFrame DEF Disconnect, Tick, JdpChanges, Move
<1>8. ASSUME Bury PROVE PrefixInv'
  <2>1. conn'.refused = conn.refused /\ UNCHANGED <<channels, chan, used>>
    BY <1>0, <1>8 DEF Bury, ConnFields
  <2> QED
    BY <2>1, PrefixFrame
<1>9. ASSUME Release PROVE PrefixInv'
  <2>1. /\ conn'.refused = conn.refused /\ channels' = {} /\ UNCHANGED chan
        /\ used' = used \ Prefixes(channels)
    BY <1>0, <1>9 DEF Release, ConnFields
  <2>2. \A p : p \in Prefixes(channels) <=>
                    \E c \in channels : chan[c].kind = "extended" /\ chan[c].prefix = p
    BY DEF Prefixes
  <2> QED
    BY <1>0, <1>1, <1>3, <2>1, <2>2
<1>10. ASSUME NEW tip \in {store.tip, store.tip + 1}, NEW same \in BOOLEAN, Publish(tip, same)
       PROVE  PrefixInv'
  <2>1. tip \in Nat
    BY TipIs
  <2>2. Settled(chan, chan') /\ UNCHANGED <<conn, channels, used>>
    BY <1>10, <2>1, PublishIs, OneSubscription
  <2> QED
    BY <2>2, PrefixFrame DEF Settled, SameWork
<1> QED
  BY <1>2, <1>4, <1>6, <1>7, <1>8, <1>9, <1>10, ResumeSteady DEF Next

-------------------------------------------------------------------------------
(* The ways a call goes on. *)

\* A share is judged or counted, the row is made, or the call ends.
Quiet(t) ==
    /\ task[t].at \in Telling => sock = "closed"
    /\ task[t].at \in Sending => sock' = "closed"
    /\ Settled(chan, chan') /\ UNCHANGED subs
    /\ conn'.sub = conn.sub /\ conn'.timer = conn.timer
    /\ task'[t].at \notin Sending \cup Telling
    /\ \/ task'[t].why = "none"
       \/ task'[t].why = task[t].why /\ task'[t].first = task[t].first
          /\ task'[t].tmpl = task[t].tmpl /\ task[t].at \notin Sending
    /\ task'[t].at \in {"credited", "counting"} =>
          \/ task'[t].diff <= task'[t].q
          \/ /\ task[t].at \in {"credited", "counting"}
             /\ task'[t].diff = task[t].diff /\ task'[t].q = task[t].q
    /\ task'[t].at \in Opening => task[t].at \in Opening /\ task'[t].why = task[t].why

\* The success of a first channel tells it its difficulty.
Succeeds(t) ==
    LET c == task[t].c
    IN  /\ task[t].at = "entity" /\ c \in Channel
        /\ Retargeted(chan[c], chan'[c], chan[c].diff)
        /\ \A d \in Channel \ {c} : chan'[d] = chan[d]
        /\ task'[t] = [task[t] EXCEPT !.at = "success"] /\ UNCHANGED <<conn, subs>>

\* The initial job is on its way.
Starts(t) ==
    LET call == [task[t] EXCEPT !.tmpl = Newest, !.prev = TRUE]
    IN  /\ task[t].at = "success"
        /\ Settled(chan, chan') /\ Sends(t, chan', call, Newest, task'[t])
        /\ task[t].c \in channels /\ task'[t].c = task[t].c /\ UNCHANGED <<conn, subs>>

\* What follows a send that was skipped, or that is over.
Follows(t, ch) ==
    Settled(ch, chan') /\ (Ended(t, ch) \/ Subscribes(t, ch) \/ Continues(t, ch))
Skips(t) ==
    /\ task[t].at \in {"success", "payout", "prev"}
    /\ \E ch : /\ Settled(chan, ch) /\ Follows(t, ch)
               /\ task[t].at = "payout" /\ task[t].prev => ch[task[t].c].raced

Records(t) ==
    /\ task[t].at = "sent" /\ task[t].c \in Channel
    /\ \E next :
        /\ Chans(next) /\ IsRecorded(t, chan[task[t].c], next[task[t].c])
        /\ \A d \in Channel \ {task[t].c} : next[d] = chan[d]
        /\ \/ /\ task[t].prev /\ chan' = next /\ UNCHANGED <<conn, subs>>
              /\ task'[t] = [task[t] EXCEPT !.at = "prev"]
           \/ ~task[t].prev /\ Follows(t, next)

\* A difficulty was set, and the targets are still to be told.
Ratchets(t) ==
    /\ task[t].at \in {"idle", "tail"}
    /\ task'[t].at = "row" /\ task'[t].c = 0 /\ task'[t].why = "ratchet"
    /\ \/ env.port = "pplns" => task'[t].diff >= Floor
       \/ Declaring
    /\ \A c \in Channel :
         /\ SameJobs(chan[c], chan'[c]) /\ chan'[c].asked = chan[c].asked
         /\ chan'[c].told = chan[c].told
         /\ chan'[c].max = chan[c].max /\ chan'[c].ignored = chan[c].ignored
         /\ \/ chan'[c].diff = chan[c].diff
            \/ Declaring /\ chan'[c].diff = task'[t].diff
    /\ UNCHANGED subs /\ conn'.sub = conn.sub /\ conn'.timer = conn.timer

\* A channel is told its target, and the next ones are not yet.
Tells(t) ==
    /\ task[t].at \in Telling /\ UNCHANGED <<conn, subs>>
    /\ \/ /\ \A c \in channels : c <= task[t].c
          /\ chan' = chan /\ task'[t] = Idle
       \/ \E c \in channels :
             /\ c > task[t].c /\ \A d \in channels : d > task[t].c => c <= d
             /\ Clamped(c, task[t].diff) \in Nat
             /\ Retargeted(chan[c], chan'[c], Clamped(c, task[t].diff))
             /\ \A d \in Channel \ {c} : chan'[d] = chan[d]
             /\ task'[t] = [task[t] EXCEPT !.at = "targets", !.c = c]

GoesOn(t) ==
    Quiet(t) \/ Succeeds(t) \/ Starts(t) \/ Skips(t) \/ (Writes(t) /\ task[t].at = "payout")
    \/ Records(t) \/ Ratchets(t) \/ Tells(t)

LEMMA ProceedFollows ==
    ASSUME Typed, NEW t \in Task, NEW ch, Chans(ch), Proceed(t, ch)
    PROVE  Follows(t, ch)
  BY ProceedIs DEF Follows

LEMMA QuietPut ==
    ASSUME Typed, NEW t \in Task, NEW k, Put(t, k), UNCHANGED <<chan, subs>>,
           conn'.sub = conn.sub, conn'.timer = conn.timer, k.at \notin Sending \cup Telling,
           task[t].at \in Telling => sock = "closed",
           task[t].at \in Sending => sock' = "closed",
           \/ k.why = "none"
           \/ /\ k.why = task[t].why /\ k.first = task[t].first /\ k.tmpl = task[t].tmpl
              /\ task[t].at \notin Sending,
           k.at \in {"credited", "counting"} =>
                task[t].at \in {"credited", "counting"} /\ k.diff = task[t].diff /\ k.q = task[t].q,
           k.at \in Opening => task[t].at \in Opening /\ k.why = task[t].why
    PROVE  Quiet(t)
<1>1. task'[t] = k
  BY PutIs
<1>2. Settled(chan, chan')
  BY SettledSelf DEF Typed
<1> QED
  BY <1>1, <1>2 DEF Quiet

LEMMA QuietDone ==
    ASSUME Typed, NEW t \in Task, Done(t), UNCHANGED <<chan, subs>>,
           task[t].at \in Telling => sock = "closed",
           task[t].at \in Sending => sock' = "closed",
           conn'.sub = conn.sub, conn'.timer = conn.timer
    PROVE  Quiet(t)
  BY QuietPut DEF Done, Idle, Sending, Telling, Opening

LEMMA QuietGoto ==
    ASSUME Typed, NEW t \in Task, NEW label, Goto(t, label), UNCHANGED <<chan, subs>>,
           task[t].at \in Telling => sock = "closed", task[t].at \notin Sending,
           conn'.sub = conn.sub, conn'.timer = conn.timer, label \notin Sending \cup Telling,
           label \in {"credited", "counting"} => task[t].at \in {"credited", "counting"},
           label \in Opening => task[t].at \in Opening
    PROVE  Quiet(t)
<1> DEFINE k == [task[t] EXCEPT !.at = label]
<1>1. CallRec(task[t])
  BY TypedCalls
<1>2. /\ k.at = label /\ k.why = task[t].why /\ k.first = task[t].first /\ k.tmpl = task[t].tmpl
      /\ k.diff = task[t].diff /\ k.q = task[t].q
  BY <1>1 DEF CallRec, CallFields
<1>3. Put(t, k)
  BY DEF Goto
<1> HIDE DEF k
<1> QED
  BY <1>2, <1>3, QuietPut

LEMMA GoesOnIs ==
    ASSUME Typed, NEW t \in Task,
           \/ Resume(t) \/ NoDistribution(t) \/ RecordFails(t) \/ Rejected(t)
           \/ \E rate \in env.rates : Check(t, rate)
    PROVE  GoesOn(t)
<1>0. /\ task[t].at \in Working => task[t].c \in Channel
      /\ Chans(chan) /\ DOMAIN conn = ConnFields /\ CallRec(task[t])
      /\ channels \subseteq Channel
  BY TypedCalls DEF Typed, ConnTyped, WorldTyped
<1> USE DEF base
<1>1. ASSUME Create(t) PROVE GoesOn(t)
  <2>1. conn' = [conn EXCEPT !.creating = "done", !.entity = TRUE]
        \/ conn' = [conn EXCEPT !.creating = "done"]
    BY <1>1 DEF Create
  <2>2. conn'.sub = conn.sub /\ conn'.timer = conn.timer
    BY <1>0, <2>1 DEF ConnFields
  <2>3. /\ Goto(t, "entity") /\ UNCHANGED <<chan, subs>>
        /\ task[t].at \notin Sending \cup Telling /\ task[t].at \in Opening
    BY <1>1 DEF Create, Sending, Telling, Opening
  <2> QED
    BY <2>2, <2>3, QuietGoto DEF GoesOn, Sending, Telling
<1>2. ASSUME Entity(t) PROVE GoesOn(t)
  <2>1. /\ task[t].c \in Channel /\ chan' = Target(chan, task[t].c, chan[task[t].c].diff)
        /\ UNCHANGED <<conn, subs>> /\ Put(t, [task[t] EXCEPT !.at = "success"])
        /\ task[t].at = "entity"
    BY <1>0, <1>2 DEF Entity, Working, Goto
  <2>2. chan[task[t].c].diff \in Nat
    BY <2>1 DEF Typed, Chans, ChanRec
  <2>3. /\ Retargeted(chan[task[t].c], chan'[task[t].c], chan[task[t].c].diff)
        /\ \A d \in Channel \ {task[t].c} : chan'[d] = chan[d]
    BY <1>0, <2>1, <2>2, TargetIs
  <2>4. task'[t] = [task[t] EXCEPT !.at = "success"]
    BY <2>1, PutIs
  <2> QED
    BY <2>1, <2>3, <2>4 DEF Succeeds, GoesOn
<1>3. ASSUME Success(t) PROVE GoesOn(t)
  <2> DEFINE c == task[t].c
             call == [task[t] EXCEPT !.tmpl = Newest, !.prev = TRUE]
             start == StartSend(t, chan, c, call, Newest)
  <2>1. /\ c \in Channel /\ task[t].at = "success"
        /\ \/ Proceed(t, chan)
           \/ /\ c \in channels
              /\ chan' = start.chan /\ Put(t, start.call) /\ UNCHANGED <<conn, subs>>
    BY <1>0, <1>3 DEF Success, Working
  <2>2. CASE Proceed(t, chan)
    BY <1>0, <2>1, <2>2, ProceedFollows, SettledSelf DEF Skips, GoesOn
  <2>3. CASE /\ c \in channels
             /\ chan' = start.chan /\ Put(t, start.call) /\ UNCHANGED <<conn, subs>>
    <3>1. CallRec(call) /\ Newest \in Nat
      BY <1>0 DEF CallRec, CallFields, Typed, StoreTyped, Newest
    <3> HIDE DEF call
    <3>2. /\ Settled(chan, start.chan) /\ Sends(t, start.chan, call, Newest, start.call)
          /\ start.call.c = c
      BY <1>0, <2>1, <3>1, StartSendIs
    <3> HIDE DEF start
    <3>3. task'[t] = start.call
      BY <2>3, PutIs
    <3> QED
      BY <2>1, <2>3, <3>2, <3>3 DEF Starts, GoesOn, call
  <2> QED
    BY <2>1, <2>2, <2>3
<1>4. ASSUME Payout(t) PROVE GoesOn(t)
  <2>1. task[t].at = "payout" /\ (Writes(t) \/ (~task[t].prev /\ Proceed(t, chan)))
    BY <1>4, PayoutIs
  <2> QED
    BY <1>0, <2>1, ProceedFollows, SettledSelf DEF Skips, GoesOn
<1>5. ASSUME NoDistribution(t) PROVE GoesOn(t)
  <2> DEFINE c == task[t].c
             b == chan[c].raced \/ task[t].prev
             ch == [chan EXCEPT ![c].raced = b]
  <2>1. c \in Channel /\ Proceed(t, ch) /\ task[t].at = "payout"
    BY <1>0, <1>5 DEF NoDistribution, Working
  <2>2. (chan[c].raced => b) /\ (task[t].prev => b)
    OBVIOUS
  <2> HIDE DEF b
  <2>3. /\ DOMAIN ch = Channel /\ ch[c] = [chan[c] EXCEPT !.raced = b]
        /\ \A d \in Channel \ {c} : ch[d] = chan[d]
    BY <1>0, <2>1 DEF Chans
  <2> HIDE DEF ch
  <2>4. ChanRec(chan[c]) /\ ChanRec(ch[c])
    BY SMTT(30), <1>0, <2>1, <2>3 DEF Chans, ChanRec, ChanFields
  <2>5. ch[c].raced = b /\ ch[c].jd = chan[c].jd
    BY <2>3, <2>4 DEF ChanRec, ChanFields
  <2>6. SameWork(chan[c], ch[c]) /\ SameTargets(chan[c], ch[c])
    BY SMTT(30), <2>2, <2>3, <2>4, <2>5 DEF SameWork, SameTargets, ChanRec, ChanFields
  <2>7. \A d \in Channel \ {c} : SameWork(chan[d], ch[d]) /\ SameTargets(chan[d], ch[d])
    BY <2>3 DEF SameWork, SameTargets
  <2>8. Settled(chan, ch)
    BY <1>0, <2>3, <2>4, <2>5, <2>6, <2>7 DEF Settled, Chans
  <2> QED
    BY <2>1, <2>2, <2>5, <2>8, ProceedFollows DEF Settled, Skips, GoesOn
<1>6. ASSUME Sent(t) PROVE GoesOn(t)
  <2>1. task[t].at = "sent" /\ task[t].c \in Channel
    BY <1>6, SentIs
  <2>2. PICK next :
          /\ Chans(next) /\ IsRecorded(t, chan[task[t].c], next[task[t].c])
          /\ \A d \in Channel \ {task[t].c} : next[d] = chan[d]
          /\ \/ /\ task[t].prev /\ chan' = next /\ UNCHANGED <<conn, subs>>
                /\ Goto(t, "prev")
             \/ ~task[t].prev /\ Proceed(t, next)
    BY <1>6, SentIs
  <2>3. CASE ~task[t].prev /\ Proceed(t, next)
    BY <2>1, <2>2, <2>3, ProceedFollows DEF Records, GoesOn
  <2>4. CASE task[t].prev /\ chan' = next /\ UNCHANGED <<conn, subs>> /\ Goto(t, "prev")
    <3>1. task'[t] = [task[t] EXCEPT !.at = "prev"]
      BY <2>4, PutIs DEF Goto
    <3> QED
      BY <2>1, <2>2, <2>4, <3>1 DEF Records, GoesOn
  <2> QED
    BY <2>2, <2>3, <2>4
<1>7. ASSUME Prevd(t) PROVE GoesOn(t)
  BY <1>0, <1>7, ProceedFollows, SettledSelf DEF Prevd, Skips, GoesOn
<1>8. ASSUME Tell(t) PROVE GoesOn(t)
  BY <1>8, TellIs DEF Tells, GoesOn
<1>9. ASSUME Judge(t) PROVE GoesOn(t)
  <2> DEFINE c == task[t].c
             work == <<task[t].job, task[t].q>>
             k == [task[t] EXCEPT !.at = "credited", !.diff = JudgedBy(c, task[t].job),
                                  !.entry = Entry(c, task[t].job)]
  <2>1. /\ c \in Channel /\ task[t].at = "judge" /\ UNCHANGED <<conn, subs>>
        /\ chan' = [chan EXCEPT ![c].seen = @ \cup {work}]
        /\ \/ Done(t)
           \/ Put(t, k) /\ task[t].q >= JudgedBy(c, task[t].job)
    BY <1>0, <1>9 DEF Judge, Working, MeetsTarget
  <2> HIDE DEF work
  <2>2. /\ DOMAIN chan' = Channel
        /\ \A d \in Channel : chan'[d] = chan[d] \/ chan'[d] = [chan[d] EXCEPT !.seen = @ \cup {work}]
    BY <1>0, <2>1 DEF Chans
  <2>3. ASSUME NEW d \in Channel
        PROVE  /\ ChanRec(chan'[d]) /\ SameWork(chan[d], chan'[d])
               /\ SameTargets(chan[d], chan'[d]) /\ (chan'[d].jd => chan[d].jd)
    BY <1>0, <2>2 DEF Chans, ChanRec, ChanFields, SameWork, SameTargets
  <2>4. Settled(chan, chan')
    BY <2>2, <2>3 DEF Settled, Chans
  <2>5. CASE Done(t)
    <3>1. task'[t] = Idle
      BY <2>5, PutIs DEF Done
    <3> QED
      BY <2>1, <2>4, <3>1 DEF Quiet, GoesOn, Idle, Sending, Telling, Opening
  <2>6. CASE Put(t, k) /\ task[t].q >= JudgedBy(c, task[t].job)
    <3>1. task'[t] = k
      BY <2>6, PutIs
    <3>2. /\ k.at = "credited" /\ k.diff = JudgedBy(c, task[t].job) /\ k.q = task[t].q
          /\ k.why = task[t].why /\ k.first = task[t].first /\ k.tmpl = task[t].tmpl
      BY <1>0 DEF CallRec, CallFields
    <3> HIDE DEF k
    <3> QED
      BY <2>1, <2>4, <2>6, <3>1, <3>2 DEF Quiet, GoesOn, Sending, Telling, Opening
  <2> QED
    BY <2>1, <2>5, <2>6
<1>10. ASSUME SubmitBlock(t) \/ Rejected(t) PROVE GoesOn(t)
  <2>1. /\ Done(t) \/ (Goto(t, "counting") /\ task[t].at = "credited")
        /\ UNCHANGED <<conn, chan, subs>>
        /\ task[t].at \in Telling => sock = "closed"
        /\ task[t].at \in Sending => sock' = "closed"
    BY <1>10 DEF SubmitBlock, Rejected, CloseSocket, Sending, Telling
  <2> QED
    BY <2>1, QuietDone, QuietGoto DEF GoesOn, Sending, Telling, Opening
<1>11. ASSUME RecordShare(t) \/ RecordFails(t) PROVE GoesOn(t)
  <2> DEFINE k == [Idle EXCEPT !.at = "tail", !.c = task[t].c, !.q = task[t].q]
  <2>1. /\ Done(t) \/ Put(t, k)
        /\ UNCHANGED <<chan, subs>>
        /\ UNCHANGED conn \/ conn' = [conn EXCEPT !.accepted = @ + 1]
        /\ task[t].at \notin Telling /\ task[t].at \notin Sending
    BY <1>11 DEF RecordShare, RecordFails, Counting, Sending, Telling
  <2>2. conn'.sub = conn.sub /\ conn'.timer = conn.timer
    BY <1>0, <2>1 DEF ConnFields
  <2>3. k.at = "tail" /\ k.why = "none"
    BY DEF Idle
  <2> HIDE DEF k
  <2> QED
    BY <2>1, <2>2, <2>3, QuietDone, QuietPut DEF GoesOn, Sending, Telling, Opening
<1>12. ASSUME NEW rate \in env.rates, NEW ofJd, Ratchet(t, rate, ofJd), ofJd => Declaring,
              UNCHANGED subs, task[t].at \in {"idle", "tail"}
       PROVE  GoesOn(t)
  <2>1. /\ task'[t].at = "row" /\ task'[t].c = 0 /\ task'[t].why = "ratchet"
        /\ ~ofJd /\ env.port = "pplns" => task'[t].diff >= Floor
        /\ \A c \in Channel :
             /\ SameJobs(chan[c], chan'[c]) /\ chan'[c].asked = chan[c].asked
             /\ chan'[c].told = chan[c].told
             /\ chan'[c].max = chan[c].max /\ chan'[c].ignored = chan[c].ignored
             /\ chan'[c].diff = IF ofJd /\ c \in channels THEN task'[t].diff ELSE chan[c].diff
        /\ \E diff : conn' = [conn EXCEPT !.diff = diff]
    BY <1>12, RatchetIs
  <2>2. conn'.sub = conn.sub /\ conn'.timer = conn.timer
    BY <1>0, <2>1 DEF ConnFields
  <2>3. CASE ofJd
    BY <1>12, <2>1, <2>2, <2>3 DEF Ratchets, GoesOn
  <2>4. CASE ~ofJd
    BY <1>12, <2>1, <2>2, <2>4 DEF Ratchets, GoesOn
  <2> QED
    BY <2>3, <2>4
<1>13. ASSUME AfterShare(t) PROVE GoesOn(t)
  <2>1. /\ UNCHANGED subs /\ task[t].c \in Channel /\ task[t].at = "tail"
        /\ \/ Done(t) /\ UNCHANGED <<conn, chan>>
           \/ \E rate \in env.rates : Ratchet(t, rate, chan[task[t].c].jd)
    BY <1>0, <1>13 DEF AfterShare, Working
  <2>2. chan[task[t].c].jd => Declaring
    BY <2>1 DEF Declaring
  <2>3. CASE Done(t) /\ UNCHANGED <<conn, chan>>
    BY <2>1, <2>3, QuietDone DEF GoesOn, Sending, Telling
  <2> QED
    BY <1>12, <2>1, <2>2, <2>3
<1>14. ASSUME NEW rate \in env.rates, Check(t, rate) PROVE GoesOn(t)
  <2>1. task[t].at = "idle"
    BY <1>14 DEF Check, Free, Idle
  <2> QED
    BY <1>12, <1>14, <2>1 DEF Check
<1> QED
  BY <1>1, <1>2, <1>3, <1>4, <1>5, <1>6, <1>7, <1>8, <1>9, <1>10, <1>11, <1>13, <1>14
  DEF Resume

-------------------------------------------------------------------------------
(* The subscription. *)

LEMMA ReleaseInit == Init => ReleaseInv
<1> SUFFICES ASSUME Init PROVE ReleaseInv
  OBVIOUS
<1>1. PICK k \in Cases :
        /\ conn = IF Len(k.open) = 0 THEN Fresh ELSE Started(Len(k.open), k.open)
        /\ channels = 1..Len(k.open)
        /\ subs = IF Len(k.open) = 0 THEN {} ELSE {[id |-> 1, clear |-> k.open[1] = "extended"]}
        /\ task = [t \in Task |-> Idle]
  BY DEF Init
<1> DEFINE clear == k.open[1] = "extended"
           n == Len(k.open)
<1>2. n \in Nat
  BY SessionAssumption
<1>3. subs = IF n = 0 THEN {} ELSE {[id |-> 1, clear |-> clear]}
  BY <1>1
<1> HIDE DEF clear
<1>4. /\ ~conn.destroyed
      /\ n # 0 => conn.sub = 1
      /\ n = 0 => ~conn.timer
  BY <1>1 DEF Fresh, Started
<1>5. ~Orphan
  BY <1>1 DEF Orphan, Idle
<1>6. n # 0 => channels # {}
  <2>1. n # 0 => 1 \in 1..n
    BY <1>2
  <2> QED
    BY <1>1, <2>1
<1>7. \A s \in subs : n # 0 /\ s.id = 1
  BY <1>3
<1>8. \A r, s \in subs : r = s
  BY <1>3
<1> QED
  BY <1>3, <1>4, <1>5, <1>6, <1>7, <1>8 DEF ReleaseInv

\* The new subscription is the only one.
LEMMA SubscribedIs ==
    ASSUME ReleaseInv, NEW clear, subs' = Subscribed(clear), conn'.sub = conn.nsub + 1
    PROVE  (\A s \in subs' : s.id = conn'.sub) /\ (\A r, s \in subs' : r = s)
<1> DEFINE new == [id |-> conn.nsub + 1, clear |-> clear]
<1>1. subs' = {s \in subs : s.id # conn.sub} \cup {new} /\ new.id = conn'.sub
  BY DEF Subscribed
<1> HIDE DEF new
<1>2. \A s \in subs' : s = new
  BY <1>1 DEF ReleaseInv
<1> QED
  BY <1>1, <1>2

\* The opening a call belongs to, and the subscription it may end with.
Opens(t) ==
    /\ \/ task'[t].why = task[t].why /\ task'[t].first = task[t].first
       \/ task'[t].why \in {"none", "replay", "ratchet"}
    /\ \/ UNCHANGED subs /\ conn'.sub = conn.sub /\ conn'.timer = conn.timer
       \/ /\ task[t].why = "open" /\ task[t].first
          /\ conn'.sub = conn.nsub + 1 /\ \E clear : subs' = Subscribed(clear)

LEMMA OpensIs ==
    ASSUME Typed, NEW t \in Task, GoesOn(t), DOMAIN conn = ConnFields PROVE Opens(t)
<1>0. CallRec(task[t])
  BY TypedCalls
<1>1. ASSUME NEW ch, Follows(t, ch)
      PROVE  Opens(t)
  <2>1. CASE Ended(t, ch)
    BY <2>1 DEF Opens, Ended, Idle
  <2>2. CASE Subscribes(t, ch)
    <3>1. task'[t].why \in {"none", "replay"}
      <4>1. Replay.why = "replay" /\ Idle.why = "none"
        BY DEF Replay, Idle
      <4> QED
        BY <2>2, <4>1 DEF Subscribes, Dispatched, Sends
    <3>2. conn'.sub = conn.nsub + 1
      BY <1>0, <2>2 DEF Subscribes, ConnFields
    <3> QED
      BY <2>2, <3>1, <3>2 DEF Opens, Subscribes
  <2>3. CASE Continues(t, ch)
    <3>1. \/ task'[t].why = task[t].why /\ task'[t].first = task[t].first
          \/ task'[t].why = "none"
      BY <2>3 DEF Continues, Dispatched, Sends, Idle
    <3> QED
      BY <2>3, <3>1 DEF Opens, Continues
  <2> QED
    BY <1>1, <2>1, <2>2, <2>3 DEF Opens, Follows
<1>2. CASE Quiet(t)
  BY <1>2 DEF Opens, Quiet
<1>3. CASE Succeeds(t)
  BY <1>0, <1>3 DEF Opens, Succeeds, CallRec, CallFields
<1>4. CASE Starts(t)
  <2>1. task'[t].why = task[t].why /\ task'[t].first = task[t].first
    BY <1>0, <1>4 DEF Starts, Sends, CallRec, CallFields
  <2> QED
    BY <1>4, <2>1 DEF Opens, Starts
<1>5. CASE Skips(t)
  BY <1>1, <1>5 DEF Opens, Skips
<1>6. CASE Writes(t)
  BY <1>0, <1>6 DEF Opens, Writes, CallRec, CallFields
<1>7. CASE Records(t)
  <2>1. CASE UNCHANGED <<conn, subs>> /\ task'[t] = [task[t] EXCEPT !.at = "prev"]
    BY <1>0, <2>1 DEF Opens, CallRec, CallFields
  <2> QED
    BY <1>1, <1>7, <2>1 DEF Opens, Records
<1>8. CASE Ratchets(t)
  BY <1>8 DEF Opens, Ratchets
<1>9. CASE Tells(t)
  <2>1. task'[t] = Idle \/ \E c : task'[t] = [task[t] EXCEPT !.at = "targets", !.c = c]
    BY <1>9 DEF Opens, Tells
  <2>2. \/ task'[t].why = task[t].why /\ task'[t].first = task[t].first
        \/ task'[t].why = "none"
    <3>1. CASE task'[t] = Idle
      BY <3>1 DEF Idle
    <3>2. ASSUME NEW c, task'[t] = [task[t] EXCEPT !.at = "targets", !.c = c]
          PROVE  task'[t].why = task[t].why /\ task'[t].first = task[t].first
      BY <1>0, <3>2 DEF CallRec, CallFields
    <3> QED
      BY <2>1, <3>1, <3>2
  <2> QED
    BY <1>9, <2>2 DEF Opens, Tells
<1> QED
  BY <1>2, <1>3, <1>4, <1>5, <1>6, <1>7, <1>8, <1>9 DEF Opens, GoesOn

\* An opening that goes on was there before.
LEMMA ReleaseGoesOn ==
    ASSUME Typed, ReleaseInv, NEW t \in Task, GoesOn(t), Steady(t), destroys \subseteq destroys'
    PROVE  ReleaseInv'
<1>0. CallRec(task[t]) /\ DOMAIN conn = ConnFields /\ Task \subseteq Task
  BY TypedCalls DEF Typed, ConnTyped
<1>1. Opens(t)
  BY <1>0, OpensIs
<1>2. Orphan' => Orphan
  <2> SUFFICES ASSUME NEW u \in Task, task'[u].why = "open", task'[u].first PROVE Orphan
    BY DEF Orphan
  <2> QED
    BY <1>1 DEF Opens, Orphan, Steady
<1>3. (\A s \in subs' : s.id = conn'.sub) /\ (\A r, s \in subs' : r = s)
  BY <1>1, SubscribedIs DEF Opens, ReleaseInv
<1>4. channels' = {} /\ ~conn'.leaky => ~Orphan' /\ subs' = {} /\ ~conn'.timer
  <2> SUFFICES ASSUME channels = {}, ~conn.leaky PROVE ~Orphan' /\ subs' = {} /\ ~conn'.timer
    BY DEF Steady
  <2>1. ~Orphan /\ subs = {} /\ ~conn.timer
    BY DEF ReleaseInv
  <2>2. ~(task[t].why = "open" /\ task[t].first)
    BY <2>1 DEF Orphan
  <2> QED
    BY <1>1, <1>2, <2>1, <2>2 DEF Opens
<1>5. conn'.destroyed /\ conn'.registered => "release" \in destroys'
  BY DEF Steady, ReleaseInv
<1> QED
  BY <1>3, <1>4, <1>5 DEF ReleaseInv

\* A call only asks for a destroy, and a socket does not open again.
LEMMA Breaks ==
    ASSUME NEW t \in Task,
           \/ Resume(t) \/ NoDistribution(t) \/ RecordFails(t) \/ Rejected(t)
           \/ \E rate \in env.rates : Check(t, rate)
    PROVE  destroys \subseteq destroys' /\ (sock' = "open" => sock = "open")
  BY DEF Resume, NoDistribution, RecordFails, Rejected, Check, Create, Entity, Success, Payout,
         Sent, Prevd, Tell, Judge, SubmitBlock, RecordShare, AfterShare, CloseSocket

LEMMA ReleaseNext == ASSUME Typed, ReleaseInv, [Next]_vars PROVE ReleaseInv'
<1>0. /\ channels \subseteq Channel /\ DOMAIN conn = ConnFields
      /\ DOMAIN task = Task /\ channels \subseteq Nat
      /\ \A s \in subs : s.id = conn.sub
      /\ \A r, s \in subs : r = s
      /\ channels = {} /\ ~conn.leaky => ~Orphan /\ subs = {} /\ ~conn.timer
      /\ conn.destroyed /\ conn.registered => "release" \in destroys
  BY ChannelIs DEF Typed, WorldTyped, ConnTyped, Calls, ReleaseInv
<1>1. ASSUME UNCHANGED <<channels, subs, task>>, conn'.sub = conn.sub, conn'.timer = conn.timer,
             conn'.leaky = conn.leaky,
             conn'.destroyed /\ conn'.registered => "release" \in destroys'
      PROVE  ReleaseInv'
  BY <1>0, <1>1 DEF ReleaseInv, Orphan
<1>2. SUFFICES ASSUME Next PROVE ReleaseInv'
  <2>1. ASSUME UNCHANGED vars PROVE ReleaseInv'
    <3>1. UNCHANGED <<channels, subs, task, conn, destroys>>
      BY <2>1 DEF vars
    <3> QED
      BY <1>0, <1>1, <3>1
  <2> QED
    BY <2>1
<1>3. ASSUME NEW t \in Task,
             \/ Resume(t) \/ NoDistribution(t) \/ RecordFails(t) \/ Rejected(t)
             \/ \E rate \in env.rates : Check(t, rate)
      PROVE  ReleaseInv'
  <2>1. GoesOn(t) /\ Steady(t) /\ destroys \subseteq destroys'
    BY <1>3, GoesOnIs, ResumeSteady, Breaks
  <2> QED
    BY <2>1, ReleaseGoesOn
<1>4. ASSUME NEW t \in Task, Receive(t) PROVE ReleaseInv'
  <2>1. ASSUME NEW w \in BOOLEAN, SetupConnection(t, w) PROVE ReleaseInv'
    <3>1. conn' = [conn EXCEPT !.workSel = w] /\ UNCHANGED <<channels, subs, task, destroys>>
      BY <2>1 DEF SetupConnection
    <3> QED
      BY <1>0, <1>1, <3>1 DEF ConnFields
  <2>2. ASSUME Unacceptable(t) \/ NoPrefix(t) PROVE ReleaseInv'
    <3>1. UNCHANGED <<channels, subs, task, conn>> /\ destroys \subseteq destroys'
      BY <2>2 DEF Unacceptable, NoPrefix, CloseSocket
    <3> QED
      BY <1>0, <1>1, <3>1
  <2>3. ASSUME NEW kind \in {"standard", "extended"}, Refuse(t, kind) PROVE ReleaseInv'
    <3>1. /\ UNCHANGED <<channels, subs, task, destroys>>
          /\ UNCHANGED conn \/ \E p, r : conn' = [conn EXCEPT !.prefix = p, !.refused = r]
      BY <2>3 DEF Refuse
    <3>2. /\ conn'.sub = conn.sub /\ conn'.timer = conn.timer /\ conn'.leaky = conn.leaky
          /\ conn'.destroyed = conn.destroyed /\ conn'.registered = conn.registered
      BY <1>0, <3>1 DEF ConnFields
    <3> QED
      BY <1>0, <1>1, <3>1, <3>2
  <2>4. ASSUME NEW kind \in {"standard", "extended"}, NEW rate \in env.rates,
               NEW limit \in env.limits, Open(t, kind, rate, limit)
        PROVE  ReleaseInv'
    <3>1. /\ channels' = channels \cup {conn.next} /\ UNCHANGED <<subs, destroys>>
          /\ conn'.sub = conn.sub /\ conn'.destroyed = conn.destroyed /\ ~conn.destroyed
      BY <2>4, OpenIs DEF Writable
    <3> QED
      BY <1>0, <3>1 DEF ReleaseInv
  <2>5. ASSUME NEW c \in Channel, CloseChannel(t, c) PROVE ReleaseInv'
    <3> DEFINE left == channels \ {c}
               leaky == conn.leaky \/ (left = {} /\ Orphan)
               timer == conn.timer /\ left # {}
               primary == IF conn.primary # c THEN conn.primary
                          ELSE IF left = {} THEN 0 ELSE Least(left)
               sub == IF left = {} THEN 0 ELSE conn.sub
    <3>1. /\ channels' = left /\ UNCHANGED <<task, destroys>>
          /\ subs' = IF left = {} THEN {s \in subs : s.id # conn.sub} ELSE subs
          /\ conn' = [conn EXCEPT !.primary = primary, !.sub = sub, !.timer = timer,
                                  !.leaky = leaky]
      BY <2>5 DEF CloseChannel
    <3>2. left = {} => (~leaky => ~Orphan) /\ ~timer
      OBVIOUS
    <3>3. left # {} => sub = conn.sub
      OBVIOUS
    <3> HIDE DEF leaky, timer, primary, sub, left
    <3>4. /\ conn'.leaky = leaky /\ conn'.timer = timer /\ conn'.sub = sub
          /\ conn'.destroyed = conn.destroyed /\ conn'.registered = conn.registered
      BY <1>0, <3>1 DEF ConnFields
    <3>5. left = {} => subs' = {}
      BY <1>0, <3>1
    <3>6. Orphan' <=> Orphan
      BY <3>1 DEF Orphan
    <3>7. (\A s \in subs' : s.id = conn'.sub) /\ (\A r, s \in subs' : r = s)
      BY <1>0, <3>1, <3>3, <3>4, <3>5
    <3> QED
      BY <1>0, <3>1, <3>2, <3>4, <3>5, <3>6, <3>7 DEF ReleaseInv
  <2>6. ASSUME NEW c \in Channel, NEW rate \in env.rates, NEW limit \in env.limits,
               Update(t, c, rate, limit)
        PROVE  ReleaseInv'
    <3>1. UNCHANGED <<channels, subs, task, conn, destroys>>
      BY <2>6 DEF Update
    <3> QED
      BY <1>0, <1>1, <3>1
  <2>7. ASSUME NEW c \in Channel, NEW tip, SetCustomMiningJob(t, c, tip) PROVE ReleaseInv'
    <3>1. /\ UNCHANGED <<channels, subs, task, destroys>>
          /\ conn' = [conn EXCEPT !.custom = conn.custom + 1]
      BY <2>7, SetCustomMiningJobIs
    <3> QED
      BY <1>0, <1>1, <3>1 DEF ConnFields
  <2>8. ASSUME NEW c \in Channel, NEW j, NEW q, Submit(t, c, j, q) PROVE ReleaseInv'
    <3> DEFINE k == [Idle EXCEPT !.at = "judge", !.why = "share", !.c = c, !.job = j, !.q = q]
    <3>1. /\ UNCHANGED <<channels, subs, conn, destroys>> /\ Put(t, k) /\ c \in channels
      BY <2>8 DEF Submit
    <3> QED
      BY <1>0, <3>1 DEF ReleaseInv
  <2> QED
    BY <1>4, <2>1, <2>2, <2>3, <2>4, <2>5, <2>6, <2>7, <2>8 DEF Receive
<1>5. ASSUME Disconnect \/ Tick \/ JdpChanges \/ \E s \in Schemes : Move(s) PROVE ReleaseInv'
  <2>1. UNCHANGED <<channels, subs, task, conn>> /\ destroys \subseteq destroys'
    BY <1>5 DEF Disconnect, Tick, JdpChanges, Move, CloseSocket
  <2> QED
    BY <1>0, <1>1, <2>1
<1>6. ASSUME Bury PROVE ReleaseInv'
  <2>1. /\ UNCHANGED <<channels, subs, task>> /\ conn' = [conn EXCEPT !.destroyed = TRUE]
        /\ destroys' = (destroys \ {"bury"}) \cup (IF conn.destroyed THEN {} ELSE {"release"})
    BY <1>6 DEF Bury
  <2>2. /\ conn'.sub = conn.sub /\ conn'.timer = conn.timer /\ conn'.leaky = conn.leaky
        /\ conn'.registered = conn.registered
    BY <1>0, <2>1 DEF ConnFields
  <2>3. conn.registered => "release" \in destroys'
    BY <1>0, <2>1
  <2> QED
    BY <1>1, <2>1, <2>2, <2>3
<1>7. ASSUME Release PROVE ReleaseInv'
  <2> DEFINE leaky == conn.leaky \/ Orphan
  <2>1. /\ channels' = {} /\ UNCHANGED task /\ subs' = {s \in subs : s.id # conn.sub}
        /\ conn' = [conn EXCEPT !.registered = FALSE, !.sub = 0, !.timer = FALSE, !.primary = 0,
                                !.leaky = leaky]
    BY <1>7 DEF Release
  <2>2. ~leaky => ~Orphan
    OBVIOUS
  <2> HIDE DEF leaky
  <2>3. conn'.leaky = leaky /\ ~conn'.timer /\ ~conn'.registered
    BY <1>0, <2>1 DEF ConnFields
  <2>4. subs' = {}
    BY <1>0, <2>1
  <2>5. Orphan' <=> Orphan
    BY <2>1 DEF Orphan
  <2> QED
    BY <2>1, <2>2, <2>3, <2>4, <2>5 DEF ReleaseInv
<1>8. ASSUME NEW tip \in {store.tip, store.tip + 1}, NEW same \in BOOLEAN, Publish(tip, same)
      PROVE  ReleaseInv'
  <2>1. tip \in Nat
    BY TipIs
  <2>2. /\ UNCHANGED <<conn, channels, subs, destroys>>
        /\ subs = {} => UNCHANGED task
    BY <1>8 DEF Publish
  <2>3. CASE subs = {}
    BY <1>0, <1>1, <2>2, <2>3
  <2>4. CASE subs # {}
    <3>1. ~(channels = {} /\ ~conn.leaky)
      BY <1>0, <2>4
    <3> QED
      BY <1>0, <2>2, <3>1 DEF ReleaseInv
  <2> QED
    BY <2>3, <2>4
<1> QED
  BY <1>2, <1>3, <1>4, <1>5, <1>6, <1>7, <1>8 DEF Next

-------------------------------------------------------------------------------
(* What is credited, and the difficulties of the channels. *)

LEMMA DeclaringStep ==
    ASSUME \A c \in Channel : chan[c].jd => chan'[c].jd PROVE Declaring => Declaring'
  BY DEF Declaring

\* The difficulties a call changes: by telling them, or for a declaring client.
Limits(t) ==
    /\ \A c \in Channel :
        /\ chan'[c].max = chan[c].max /\ chan'[c].ignored = chan[c].ignored
        /\ \/ chan'[c].diff = chan[c].diff \/ Declaring
           \/ task[t].at \in Telling /\ chan'[c].diff = Clamped(c, task[t].diff)
    /\ task'[t].at \in Telling =>
          \/ env.port = "pplns" => task'[t].diff >= Floor
          \/ Declaring
          \/ task[t].at \in Telling /\ task'[t].diff = task[t].diff
    /\ task'[t].at \in {"credited", "counting"} =>
          \/ task'[t].diff <= task'[t].q
          \/ /\ task[t].at \in {"credited", "counting"}
             /\ task'[t].diff = task[t].diff /\ task'[t].q = task[t].q

LEMMA FollowsIs ==
    ASSUME NEW t \in Task, NEW ch, Follows(t, ch)
    PROVE  /\ task'[t] = Idle \/ (task'[t].at = "payout" /\ task'[t].c \in Channel)
           /\ task'[t].at \in {"idle", "payout"}
           /\ \A c \in Channel : SameWork(ch[c], chan'[c]) /\ SameTargets(ch[c], chan'[c])
<1>1. Idle.at = "idle"
  BY DEF Idle
<1>2. task'[t] = Idle \/ (task'[t].at = "payout" /\ task'[t].c \in Channel)
  BY DEF Follows, Ended, Subscribes, Continues, Dispatched, Sends
<1> QED
  BY <1>1, <1>2 DEF Follows, Settled

LEMMA LimitsIs == ASSUME Typed, NEW t \in Task, GoesOn(t) PROVE Limits(t)
<1>0. CallRec(task[t]) /\ channels \subseteq Channel
  BY TypedCalls DEF Typed, WorldTyped
<1>1. CASE Quiet(t)
  BY <1>1 DEF Quiet, Limits, Settled, SameTargets
<1>2. CASE Succeeds(t)
  <2>1. task'[t].at = "success"
    BY <1>0, <1>2 DEF Succeeds, CallRec, CallFields
  <2> QED
    BY <1>2, <2>1 DEF Succeeds, Limits, Retargeted, Telling
<1>3. CASE Starts(t)
  BY <1>3 DEF Starts, Sends, Limits, Settled, SameTargets, Telling
<1>4. CASE Skips(t)
  <2>1. PICK ch : Settled(chan, ch) /\ Follows(t, ch)
    BY <1>4 DEF Skips
  <2> QED
    BY <2>1, FollowsIs DEF Limits, Settled, SameTargets, Telling
<1>5. CASE Writes(t)
  <2>1. task'[t].at = "sent"
    BY <1>0, <1>5 DEF Writes, CallRec, CallFields
  <2> QED
    BY <1>5, <2>1 DEF Writes, Written, Limits, Telling
<1>6. CASE Records(t)
  <2>1. PICK next :
          /\ IsRecorded(t, chan[task[t].c], next[task[t].c])
          /\ \A d \in Channel \ {task[t].c} : next[d] = chan[d]
          /\ \/ chan' = next /\ task'[t] = [task[t] EXCEPT !.at = "prev"]
             \/ Follows(t, next)
    BY <1>6 DEF Records
  <2>2. \A c \in Channel : /\ next[c].max = chan[c].max /\ next[c].ignored = chan[c].ignored
                           /\ next[c].diff = chan[c].diff
    BY <2>1 DEF IsRecorded
  <2>3. CASE chan' = next /\ task'[t] = [task[t] EXCEPT !.at = "prev"]
    <3>1. task'[t].at = "prev"
      BY <1>0, <2>3 DEF CallRec, CallFields
    <3> QED
      BY <2>2, <2>3, <3>1 DEF Limits, Telling
  <2>4. CASE Follows(t, next)
    BY <2>2, <2>4, FollowsIs DEF Limits, SameTargets, Telling
  <2> QED
    BY <2>1, <2>3, <2>4
<1>7. CASE Ratchets(t)
  BY <1>7 DEF Ratchets, Limits, Telling
<1>8. CASE Tells(t)
  <2>1. CASE chan' = chan /\ task'[t] = Idle
    <3>1. task'[t].at = "idle"
      BY <2>1 DEF Idle
    <3> QED
      BY <2>1, <3>1 DEF Limits, Telling
  <2>2. ASSUME NEW c \in channels, task[t].at \in Telling,
               Retargeted(chan[c], chan'[c], Clamped(c, task[t].diff)),
               \A d \in Channel \ {c} : chan'[d] = chan[d],
               task'[t] = [task[t] EXCEPT !.at = "targets", !.c = c]
        PROVE  Limits(t)
    <3>1. task'[t].at = "targets" /\ task'[t].diff = task[t].diff
      BY <1>0, <2>2 DEF CallRec, CallFields
    <3> QED
      BY <2>2, <3>1 DEF Limits, Retargeted, Telling
  <2> QED
    BY <1>8, <2>1, <2>2 DEF Tells
<1> QED
  BY <1>1, <1>2, <1>3, <1>4, <1>5, <1>6, <1>7, <1>8 DEF GoesOn

LEMMA PaidIs ==
    ASSUME Typed, NEW t \in Task,
           \/ Resume(t) \/ NoDistribution(t) \/ RecordFails(t) \/ Rejected(t)
           \/ \E rate \in env.rates : Check(t, rate)
    PROVE  \/ paid' = paid
           \/ /\ Counting(t) /\ paid' = paid \cup {Recorded(t)}
              /\ env.port = "pplns" => conn.accepted + 1 > Warmup
<1> USE DEF ghost
<1>1. CASE RecordShare(t)
  BY <1>1 DEF RecordShare, Typed, WorldTyped
<1>2. CASE Create(t) \/ Entity(t) \/ Success(t) \/ Payout(t) \/ Sent(t) \/ Prevd(t)
  BY <1>2 DEF Create, Entity, Success, Payout, Sent, Prevd
<1>3. CASE Tell(t) \/ Judge(t) \/ SubmitBlock(t) \/ AfterShare(t)
  BY <1>3 DEF Tell, Judge, SubmitBlock, AfterShare
<1>4. CASE \/ NoDistribution(t) \/ RecordFails(t) \/ Rejected(t)
           \/ \E rate \in env.rates : Check(t, rate)
  BY <1>4 DEF NoDistribution, RecordFails, Rejected, Check
<1> QED
  BY <1>1, <1>2, <1>3, <1>4 DEF Resume

\* One channel: not below its limit, nor below the floor of the port.
Above(r) ==
    /\ r.diff >= r.max \/ r.ignored
    /\ env.port = "pplns" => r.diff >= Floor

LEMMA ClampedIs ==
    ASSUME NEW c, NEW diff \in Nat, chan[c].max \in Nat
    PROVE  Clamped(c, diff) >= diff /\ Clamped(c, diff) >= chan[c].max /\ Clamped(c, diff) \in Nat
  BY DEF Clamped, Highest

LEMMA WorkGoesOn ==
    ASSUME Typed, WorkInv, NEW t \in Task, Limits(t), Steady(t),
           \/ paid' = paid
           \/ /\ Counting(t) /\ paid' = paid \cup {Recorded(t)}
              /\ env.port = "pplns" => conn.accepted + 1 > Warmup
    PROVE  WorkInv'
<1>0. /\ channels \subseteq Channel /\ Chans(chan) /\ CallRec(task[t]) /\ conn.accepted \in Nat
      /\ UNCHANGED <<channels, env>>
  BY TypedCalls DEF Typed, WorldTyped, ConnTyped, Steady, world
<1>1. Declaring => Declaring'
  BY DeclaringStep DEF Steady
<1>2. ASSUME NEW p \in paid' PROVE p.diff <= p.q /\ (env.port = "pplns" => p.n > Warmup)
  <2>1. CASE p \in paid
    BY <2>1 DEF WorkInv, WorkIsProven
  <2>2. CASE /\ p = Recorded(t) /\ Counting(t)
             /\ env.port = "pplns" => conn.accepted + 1 > Warmup
    <3>1. p.diff = task[t].diff /\ p.q = task[t].q /\ p.n = conn.accepted + 1
      BY <2>2 DEF Recorded
    <3>2. task[t].diff <= task[t].q
      BY <2>2 DEF WorkInv, Counting
    <3> QED
      BY <2>2, <3>1, <3>2
  <2> QED
    BY <2>1, <2>2
<1>3. ASSUME NEW c \in channels, ~Declaring' PROVE Above(chan'[c])
  <2>1. Above(chan[c]) /\ ~Declaring
    BY <1>1, <1>3 DEF WorkInv, WorkIsProven, Above
  <2>2. CASE chan'[c].diff = chan[c].diff
    BY <1>0, <2>1, <2>2 DEF Limits, Above
  <2>3. CASE task[t].at \in Telling /\ chan'[c].diff = Clamped(c, task[t].diff)
    <3>1. task[t].diff \in Nat /\ chan[c].max \in Nat /\ chan'[c].max = chan[c].max
      BY <1>0 DEF CallRec, Chans, ChanRec, Limits
    <3>2. env.port = "pplns" => task[t].diff >= Floor
      BY <2>1, <2>3 DEF WorkInv
    <3> QED
      BY <2>3, <3>1, <3>2, ClampedIs, SessionAssumption DEF Above
  <2> QED
    BY <1>0, <2>1, <2>2, <2>3 DEF Limits
<1>4. ASSUME NEW u \in Task
      PROVE  /\ task'[u].at \in {"credited", "counting"} => task'[u].diff <= task'[u].q
             /\ task'[u].at \in Telling /\ ~Declaring' /\ env.port = "pplns"
                    => task'[u].diff >= Floor
  <2>1. CASE u = t
    BY <1>1, <2>1 DEF Limits, WorkInv
  <2>2. CASE u # t
    BY <1>1, <2>2 DEF Steady, WorkInv
  <2> QED
    BY <2>1, <2>2
<1>5. WorkIsProven'
  BY <1>0, <1>2, <1>3 DEF WorkIsProven, Above
<1> QED
  BY <1>0, <1>4, <1>5 DEF WorkInv

\* The handler of a template starts.
Announces(t) ==
    /\ task[t] = Idle /\ task' = [task EXCEPT ![t] = task'[t]]
    /\ \E call : /\ call.why = "publish" /\ call.tmpl = Newest + 1
                /\ Dispatched(0, chan, call, 0, Newest + 1, chan', task'[t])

LEMMA AnnouncesIs ==
    ASSUME Typed, ReleaseInv, NEW tip \in Nat, NEW same, Publish(tip, same)
    PROVE  /\ Settled(chan, chan')
           /\ UNCHANGED <<clock, world, conn, channels, subs, used, sock, destroys, ghost>>
           /\ \/ /\ UNCHANGED task
                 /\ \A c \in channels :
                        \/ chan[c].last = 0
                           /\ \A t \in Task : ~(task[t].c = c /\ task[t].at \in Sending)
                        \/ chan'[c].raced
              \/ \E t \in Task : Announces(t)
<1> DEFINE call == [Idle EXCEPT !.why = "publish", !.tmpl = Newest + 1,
                                !.prev = ClearsJobs(store, tip)]
<1>1. /\ Settled(chan, chan')
      /\ UNCHANGED <<clock, world, conn, channels, subs, used, sock, destroys, ghost>>
      /\ \/ /\ UNCHANGED task
            /\ \A c \in channels :
                   \/ chan[c].last = 0
                      /\ \A t \in Task : ~(task[t].c = c /\ task[t].at \in Sending)
                   \/ chan'[c].raced
         \/ \E t \in Task : /\ task[t] = Idle /\ task' = [task EXCEPT ![t] = task'[t]]
                            /\ Dispatched(0, chan, call, 0, Newest + 1, chan', task'[t])
  BY PublishIs, OneSubscription
<1>2. call.why = "publish" /\ call.tmpl = Newest + 1
  BY DEF Idle
<1> HIDE DEF call
<1> QED
  BY <1>1, <1>2 DEF Announces

LEMMA WorkInit == Init => WorkInv
<1> SUFFICES ASSUME Init PROVE WorkInv
  OBVIOUS
<1>1. PICK k \in Cases :
        /\ channels = 1..Len(k.open)
        /\ chan = [c \in Channel |->
                     IF c <= Len(k.open) THEN Opened(k.open[c], c, scheme) ELSE NoChannel]
  BY DEF Init
<1>2. Len(k.open) \in Nat /\ Len(k.open) <= MaxChannels
  BY SessionAssumption
<1>3. ASSUME NEW c \in channels PROVE Above(chan[c])
  <2>1. c \in Channel /\ c <= Len(k.open)
    BY <1>1, <1>2, <1>3, SessionAssumption DEF Channel
  <2>2. chan[c] = Opened(k.open[c], c, scheme)
    BY <1>1, <2>1
  <2>3. chan[c].diff = InitialDiff /\ chan[c].max = 0
    BY <2>2 DEF Opened, NoChannel
  <2> QED
    BY <2>3, SessionAssumption DEF Above
<1>4. \A t \in Task : task[t].at = "idle"
  BY DEF Init, Idle
<1>5. paid = {}
  BY DEF Init
<1>6. WorkIsProven
  BY <1>3, <1>5 DEF WorkIsProven, Above
<1> QED
  BY <1>4, <1>6 DEF WorkInv, Telling

LEMMA WorkFrame ==
    ASSUME WorkInv, channels' \subseteq channels, UNCHANGED <<chan, task, paid, env>>
    PROVE  WorkInv'
  BY DEF WorkInv, WorkIsProven, Declaring

\* A call that was idle, and channels that keep what they were granted.
LEMMA WorkPut ==
    ASSUME Typed, WorkInv, NEW t \in Task, task' = [task EXCEPT ![t] = task'[t]],
           task'[t].at \notin Telling \cup {"credited", "counting"}, UNCHANGED <<paid, env>>,
           \A c \in Channel : chan[c].jd => chan'[c].jd,
           \A c \in channels' : \/ c \in channels /\ (Above(chan[c]) => Above(chan'[c]))
                                \/ Above(chan'[c])
    PROVE  WorkInv'
<1>1. \A u \in Task \ {t} : task'[u] = task[u]
  BY DEF Typed, Calls
<1>2. Declaring => Declaring'
  BY DeclaringStep
<1>3. ASSUME NEW c \in channels', ~Declaring' PROVE Above(chan'[c])
  BY <1>2, <1>3 DEF WorkInv, WorkIsProven, Above
<1>4. WorkIsProven'
  BY <1>3 DEF WorkInv, WorkIsProven, Above
<1> QED
  BY <1>1, <1>2, <1>4 DEF WorkInv

LEMMA WorkNext == ASSUME Typed, ReleaseInv, WorkInv, [Next]_vars PROVE WorkInv'
<1>0. channels \subseteq Channel /\ Chans(chan) /\ DOMAIN task = Task
  BY DEF Typed, WorldTyped, Calls
<1> USE DEF base, world, ghost
<1>1. SUFFICES ASSUME Next PROVE WorkInv'
  <2>1. ASSUME UNCHANGED vars PROVE WorkInv'
    <3>1. UNCHANGED <<channels, chan, task, paid, env>>
      BY <2>1 DEF vars
    <3> QED
      BY <3>1, WorkFrame
  <2> QED
    BY <2>1
<1>2. ASSUME NEW t \in Task,
             \/ Resume(t) \/ NoDistribution(t) \/ RecordFails(t) \/ Rejected(t)
             \/ \E rate \in env.rates : Check(t, rate)
      PROVE  WorkInv'
  <2>1. Limits(t) /\ Steady(t)
    BY <1>2, GoesOnIs, LimitsIs, ResumeSteady
  <2>2. \/ paid' = paid
        \/ /\ Counting(t) /\ paid' = paid \cup {Recorded(t)}
           /\ env.port = "pplns" => conn.accepted + 1 > Warmup
    BY <1>2, PaidIs
  <2> QED
    BY <2>1, <2>2, WorkGoesOn
<1>3. ASSUME NEW t \in Task, Receive(t) PROVE WorkInv'
  <2>1. ASSUME NEW w \in BOOLEAN, SetupConnection(t, w) PROVE WorkInv'
    BY <2>1, WorkFrame DEF SetupConnection
  <2>2. ASSUME Unacceptable(t) \/ NoPrefix(t) PROVE WorkInv'
    BY <2>2, WorkFrame DEF Unacceptable, NoPrefix
  <2>3. ASSUME NEW kind \in {"standard", "extended"}, Refuse(t, kind) PROVE WorkInv'
    BY <2>3, WorkFrame DEF Refuse
  <2>4. ASSUME NEW kind \in {"standard", "extended"}, NEW rate \in env.rates,
               NEW limit \in env.limits, Open(t, kind, rate, limit)
        PROVE  WorkInv'
    <3> DEFINE c == conn.next
    <3>1. /\ c \in Channel /\ channels' = channels \cup {c}
          /\ New(kind, rate, limit, chan'[c])
          /\ \A d \in Channel \ {c} : chan'[d] = chan[d]
          /\ task' = [task EXCEPT ![t] = task'[t]]
          /\ task'[t].at \in {"success", "create", "entity"}
          /\ UNCHANGED <<paid, env>>
      BY <2>4, OpenIs
    <3>2. Above(chan'[c])
      BY <3>1, GrantedIs DEF New, Above
    <3>3. ~chan[c].jd
      BY <3>1 DEF Typed, ConnTyped
    <3> HIDE DEF c
    <3> QED
      BY <1>0, <3>1, <3>2, <3>3, WorkPut DEF Telling
  <2>5. ASSUME NEW c \in Channel, CloseChannel(t, c) PROVE WorkInv'
    BY <2>5, WorkFrame DEF CloseChannel
  <2>6. ASSUME NEW c \in Channel, NEW rate \in env.rates, NEW limit \in env.limits,
               Update(t, c, rate, limit)
        PROVE  WorkInv'
    <3>1. /\ c \in channels /\ UNCHANGED <<channels, task, paid, env>>
          /\ Updated(chan[c], chan'[c], rate, limit)
          /\ \A d \in Channel \ {c} : chan'[d] = chan[d]
      BY <2>6, UpdateIs
    <3>2. Above(chan[c]) => Above(chan'[c])
      BY <3>1, GrantedIs DEF Updated, Above
    <3>3. \A d \in Channel : chan[d].jd => chan'[d].jd
      BY <3>1 DEF Updated, SameJobs
    <3>4. Declaring => Declaring'
      BY <3>3, DeclaringStep
    <3>5. ASSUME NEW d \in channels, ~Declaring' PROVE Above(chan'[d])
      <4>1. Above(chan[d])
        BY <3>4, <3>5 DEF WorkInv, WorkIsProven, Above
      <4> QED
        BY <1>0, <3>1, <3>2, <4>1
    <3>6. WorkIsProven'
      BY <3>1, <3>5 DEF WorkInv, WorkIsProven, Above
    <3> QED
      BY <3>1, <3>4, <3>6 DEF WorkInv
  <2>7. ASSUME NEW c \in Channel, NEW tip, SetCustomMiningJob(t, c, tip) PROVE WorkInv'
    <3>1. /\ c \in channels /\ UNCHANGED <<channels, task, paid, env>>
          /\ Customized(chan[c], chan'[c], tip)
          /\ \A d \in Channel \ {c} : chan'[d] = chan[d]
      BY <2>7, SetCustomMiningJobIs
    <3>2. Above(chan[c]) => Above(chan'[c])
      BY <3>1 DEF Customized, Above
    <3>3. \A d \in Channel : chan[d].jd => chan'[d].jd
      BY <3>1 DEF Customized
    <3>4. Declaring => Declaring'
      BY <3>3, DeclaringStep
    <3>5. ASSUME NEW d \in channels, ~Declaring' PROVE Above(chan'[d])
      <4>1. Above(chan[d])
        BY <3>4, <3>5 DEF WorkInv, WorkIsProven, Above
      <4> QED
        BY <1>0, <3>1, <3>2, <4>1
    <3>6. WorkIsProven'
      BY <3>1, <3>5 DEF WorkInv, WorkIsProven, Above
    <3> QED
      BY <3>1, <3>4, <3>6 DEF WorkInv
  <2>8. ASSUME NEW c \in Channel, NEW j, NEW q, Submit(t, c, j, q) PROVE WorkInv'
    <3> DEFINE k == [Idle EXCEPT !.at = "judge", !.why = "share", !.c = c, !.job = j, !.q = q]
    <3>1. Put(t, k) /\ UNCHANGED <<channels, chan, paid, env>>
      BY <2>8 DEF Submit
    <3>2. k.at = "judge"
      BY DEF Idle
    <3> HIDE DEF k
    <3>3. task' = [task EXCEPT ![t] = task'[t]] /\ task'[t].at = "judge"
      BY <1>0, <3>1, <3>2 DEF Put
    <3> QED
      BY <3>1, <3>3, WorkPut DEF Telling
  <2> QED
    BY <1>3, <2>1, <2>2, <2>3, <2>4, <2>5, <2>6, <2>7, <2>8 DEF Receive
<1>4. ASSUME Disconnect \/ Bury \/ Release \/ Tick \/ JdpChanges \/ \E s \in Schemes : Move(s)
      PROVE  WorkInv'
  BY <1>4, WorkFrame DEF Disconnect, Bury, Release, Tick, JdpChanges, Move
<1>5. ASSUME NEW tip \in {store.tip, store.tip + 1}, NEW same \in BOOLEAN, Publish(tip, same)
      PROVE  WorkInv'
  <2>1. tip \in Nat
    BY TipIs
  <2>2. /\ Settled(chan, chan') /\ UNCHANGED <<channels, paid, env>>
        /\ \/ UNCHANGED task
           \/ \E t \in Task : /\ task' = [task EXCEPT ![t] = task'[t]]
                              /\ task'[t].at \in {"idle", "payout"}
    <3>1. /\ Settled(chan, chan') /\ UNCHANGED <<channels, paid, env>>
          /\ UNCHANGED task \/ \E t \in Task : Announces(t)
      BY <1>5, <2>1, AnnouncesIs
    <3>2. ASSUME NEW t \in Task, Announces(t) PROVE task'[t].at \in {"idle", "payout"}
      BY <3>2 DEF Announces, Dispatched, Sends, Idle
    <3> QED
      BY <3>1, <3>2 DEF Announces
  <2>3. \A c \in channels : Above(chan[c]) => Above(chan'[c])
    BY <1>0, <2>2 DEF Settled, SameTargets, Above
  <2>4. \A c \in Channel : chan[c].jd => chan'[c].jd
    BY <2>2 DEF Settled, SameWork
  <2>5. CASE UNCHANGED task
    <3>1. Declaring => Declaring'
      BY <2>4, DeclaringStep
    <3>2. ASSUME NEW d \in channels, ~Declaring' PROVE Above(chan'[d])
      BY <2>3, <3>1, <3>2 DEF WorkInv, WorkIsProven, Above
    <3>3. WorkIsProven'
      BY <2>2, <3>2 DEF WorkInv, WorkIsProven, Above
    <3> QED
      BY <2>2, <2>5, <3>1, <3>3 DEF WorkInv
  <2>6. ASSUME NEW t \in Task, task' = [task EXCEPT ![t] = task'[t]],
               task'[t].at \in {"idle", "payout"}
        PROVE  WorkInv'
    BY <2>2, <2>3, <2>4, <2>6, WorkPut DEF Telling
  <2> QED
    BY <2>2, <2>5, <2>6
<1> QED
  BY <1>1, <1>2, <1>3, <1>4, <1>5 DEF Next

-------------------------------------------------------------------------------
(* Targets and the jobs judged by them. *)

\* What stays due, and where the jobs that are being written belong.
DueNext(c, diff) ==
    /\ Declaring'
    /\ \E t \in Task : task'[t].at \in Telling /\ task'[t].c < c /\ task'[t].diff = diff
DueKept(c) == \A diff : Due(c, diff) => DueNext(c, diff)
SentKept(c) ==
    \A t \in Task : task'[t].at = "sent" /\ task'[t].c = c => task'[t].job \in DOMAIN chan'[c].asked

\* ToldRight, when the step was taken.
ToldNext(c, s) ==
    /\ \A j \in DOMAIN s.asked : s.told \in s.asked[j]
    /\ DOMAIN s.jobDiff \subseteq DOMAIN s.asked
    /\ s.told = 0 \/ s.diff = s.told \/ DueNext(c, s.diff)
    /\ \A j \in DOMAIN s.jobDiff \ s.shared :
          \/ 0 \in s.asked[j]
          \/ \E told \in s.asked[j] :
                s.jobDiff[j] = told \/ (Declaring' /\ s.jobDiff[j] < told)
          \/ DueNext(c, s.jobDiff[j])

LEMMA ToldNextIs ==
    ASSUME NEW c, ToldNext(c, chan'[c]), SentKept(c) PROVE ToldRight(c)'
  BY DEF ToldNext, DueNext, SentKept, ToldRight, Due, Pending

LEMMA DueOthers ==
    ASSUME NEW t \in Task, \A u \in Task \ {t} : task'[u] = task[u],
           task[t].at \notin Telling, Declaring => Declaring', NEW c
    PROVE  DueKept(c)
<1> SUFFICES ASSUME NEW diff, Due(c, diff) PROVE DueNext(c, diff)
  BY DEF DueKept
<1>1. PICK u \in Task : Pending(u, c, diff)
  BY DEF Due
<1>2. u # t
  BY <1>1 DEF Pending
<1>3. task'[u].at \in Telling /\ task'[u].c < c /\ task'[u].diff = diff
  BY <1>1, <1>2 DEF Pending
<1>4. Declaring'
  BY DEF Due
<1> QED
  BY <1>3, <1>4 DEF DueNext

LEMMA SentOthers ==
    ASSUME NEW t \in Task, \A u \in Task \ {t} : task'[u] = task[u], NEW c, ToldRight(c),
           DOMAIN chan[c].asked \subseteq DOMAIN chan'[c].asked,
           \/ task'[t].at # "sent" \/ task'[t].c # c
           \/ task'[t].job \in DOMAIN chan'[c].asked
    PROVE  SentKept(c)
<1> SUFFICES ASSUME NEW u \in Task, task'[u].at = "sent", task'[u].c = c
             PROVE  task'[u].job \in DOMAIN chan'[c].asked
  BY DEF SentKept
<1>1. CASE u = t
  BY <1>1
<1>2. CASE u # t
  BY <1>2 DEF ToldRight
<1> QED
  BY <1>1, <1>2

\* Jobs are forgotten.
LEMMA ToldSame ==
    ASSUME NEW c, ToldRight(c), DueKept(c), Declaring => Declaring',
           SameTargets(chan[c], chan'[c])
    PROVE  ToldNext(c, chan'[c])
<1> DEFINE r == chan[c]
           s == chan'[c]
<1>1. /\ s.told = r.told /\ s.diff = r.diff /\ s.asked = r.asked /\ s.shared = r.shared
      /\ \A j \in DOMAIN s.jobDiff : j \in DOMAIN r.jobDiff /\ s.jobDiff[j] = r.jobDiff[j]
  BY DEF SameTargets
<1> QED
  BY <1>1 DEF ToldRight, DueKept, ToldNext

\* A job is written: a job of the same id, if there is one, is shared with it.
LEMMA ToldWritten ==
    ASSUME NEW c, ToldRight(c), DueKept(c), Declaring => Declaring', NEW j,
           chan'[c].told = chan[c].told, chan'[c].diff = chan[c].diff,
           chan'[c].jobDiff = chan[c].jobDiff,
           chan'[c].asked = With(chan[c].asked, j, {chan[c].told}),
           chan'[c].shared = chan[c].shared \cup ({j} \cap DOMAIN chan[c].asked)
    PROVE  ToldNext(c, chan'[c])
<1> DEFINE r == chan[c]
           s == chan'[c]
<1>1. /\ DOMAIN s.asked = DOMAIN r.asked \cup {j} /\ s.asked[j] = {r.told}
      /\ \A k \in DOMAIN r.asked : k # j => s.asked[k] = r.asked[k]
  BY DEF With
<1>2. \A k \in DOMAIN s.asked : s.told \in s.asked[k]
  BY <1>1 DEF ToldRight
<1>3. DOMAIN s.jobDiff \subseteq DOMAIN s.asked
  BY <1>1 DEF ToldRight
<1>4. s.told = 0 \/ s.diff = s.told \/ DueNext(c, s.diff)
  BY DEF ToldRight, DueKept
<1>5. ASSUME NEW k \in DOMAIN s.jobDiff \ s.shared
      PROVE  \/ 0 \in s.asked[k]
             \/ \E told \in s.asked[k] :
                   s.jobDiff[k] = told \/ (Declaring' /\ s.jobDiff[k] < told)
             \/ DueNext(c, s.jobDiff[k])
  <2>1. k \in DOMAIN r.asked /\ k \in DOMAIN r.jobDiff \ r.shared
    BY DEF ToldRight
  <2>2. k # j
    BY <2>1
  <2>3. s.asked[k] = r.asked[k] /\ s.jobDiff[k] = r.jobDiff[k]
    BY <1>1, <2>1, <2>2
  <2> QED
    BY <2>1, <2>3 DEF ToldRight, DueKept
<1> QED
  BY <1>2, <1>3, <1>4, <1>5 DEF ToldNext

\* A job that was written gets the difficulty of the channel.
LEMMA ToldRecorded ==
    ASSUME NEW c, ToldRight(c), DueKept(c), Declaring => Declaring',
           NEW j \in DOMAIN chan[c].asked,
           chan'[c].told = chan[c].told, chan'[c].diff = chan[c].diff,
           chan'[c].asked = chan[c].asked, chan'[c].shared = chan[c].shared,
           LET given == With(chan[c].jobDiff, j, chan[c].diff)
           IN  \A k \in DOMAIN chan'[c].jobDiff :
                    k \in DOMAIN given /\ chan'[c].jobDiff[k] = given[k]
    PROVE  ToldNext(c, chan'[c])
<1> DEFINE r == chan[c]
           s == chan'[c]
<1>1. ASSUME NEW k \in DOMAIN s.jobDiff
      PROVE  \/ k = j /\ s.jobDiff[k] = r.diff
             \/ k \in DOMAIN r.jobDiff /\ s.jobDiff[k] = r.jobDiff[k]
  <2> DEFINE given == With(r.jobDiff, j, r.diff)
  <2>1. k \in DOMAIN given /\ s.jobDiff[k] = given[k]
    OBVIOUS
  <2>2. /\ DOMAIN given = DOMAIN r.jobDiff \cup {j}
        /\ given[k] = IF k = j THEN r.diff ELSE r.jobDiff[k]
    BY <2>1 DEF With
  <2> HIDE DEF given
  <2> QED
    BY <2>1, <2>2
<1>2. \A k \in DOMAIN s.asked : s.told \in s.asked[k]
  BY DEF ToldRight
<1>3. DOMAIN s.jobDiff \subseteq DOMAIN s.asked
  BY <1>1 DEF ToldRight
<1>4. s.told = 0 \/ s.diff = s.told \/ DueNext(c, s.diff)
  BY DEF ToldRight, DueKept
<1>5. ASSUME NEW k \in DOMAIN s.jobDiff \ s.shared
      PROVE  \/ 0 \in s.asked[k]
             \/ \E told \in s.asked[k] :
                   s.jobDiff[k] = told \/ (Declaring' /\ s.jobDiff[k] < told)
             \/ DueNext(c, s.jobDiff[k])
  <2>1. CASE k = j /\ s.jobDiff[k] = r.diff
    BY <1>2, <1>4, <2>1
  <2>2. CASE k \in DOMAIN r.jobDiff /\ s.jobDiff[k] = r.jobDiff[k]
    BY <2>2 DEF ToldRight, DueKept
  <2> QED
    BY <1>1, <2>1, <2>2
<1> QED
  BY <1>2, <1>3, <1>4, <1>5 DEF ToldNext

\* A target is told: what was due may be it, or a lower one.
LEMMA ToldTold ==
    ASSUME NEW c, ToldRight(c), Declaring => Declaring', NEW diff \in Nat,
           \A x : Due(c, x) => DueNext(c, x) \/ x = diff \/ x < diff,
           chan'[c].told = diff, chan'[c].diff = diff, chan'[c].shared = chan[c].shared,
           chan'[c].jobDiff = chan[c].jobDiff,
           DOMAIN chan'[c].asked = DOMAIN chan[c].asked,
           \A j \in DOMAIN chan[c].asked : chan'[c].asked[j] = chan[c].asked[j] \cup {diff}
    PROVE  ToldNext(c, chan'[c])
<1> DEFINE r == chan[c]
           s == chan'[c]
<1>1. ASSUME NEW k \in DOMAIN s.jobDiff \ s.shared
      PROVE  \/ 0 \in s.asked[k]
             \/ \E told \in s.asked[k] :
                   s.jobDiff[k] = told \/ (Declaring' /\ s.jobDiff[k] < told)
             \/ DueNext(c, s.jobDiff[k])
  <2>1. /\ k \in DOMAIN r.jobDiff \ r.shared /\ s.jobDiff[k] = r.jobDiff[k]
        /\ k \in DOMAIN r.asked /\ s.asked[k] = r.asked[k] \cup {diff}
    BY DEF ToldRight
  <2>2. CASE Due(c, r.jobDiff[k])
    <3>1. Declaring'
      BY <2>2 DEF Due
    <3>2. diff \in s.asked[k]
      BY <2>1
    <3>3. DueNext(c, r.jobDiff[k]) \/ r.jobDiff[k] = diff \/ r.jobDiff[k] < diff
      BY <2>2
    <3> QED
      BY <2>1, <3>1, <3>2, <3>3
  <2>3. CASE 0 \in r.asked[k]
    BY <2>1, <2>3
  <2>4. CASE \E told \in r.asked[k] :
                r.jobDiff[k] = told \/ (Declaring /\ r.jobDiff[k] < told)
    BY <2>1, <2>4
  <2> QED
    BY <2>1, <2>2, <2>3, <2>4 DEF ToldRight
<1> QED
  BY <1>1 DEF ToldRight, ToldNext

\* A difficulty is set that is still to be told.
LEMMA ToldSet ==
    ASSUME NEW c, ToldRight(c), DueKept(c), Declaring => Declaring',
           chan'[c].told = chan[c].told, chan'[c].shared = chan[c].shared,
           chan'[c].jobDiff = chan[c].jobDiff, chan'[c].asked = chan[c].asked,
           chan'[c].diff = chan[c].diff \/ DueNext(c, chan'[c].diff)
    PROVE  ToldNext(c, chan'[c])
<1>1. chan'[c].told = 0 \/ chan'[c].diff = chan'[c].told \/ DueNext(c, chan'[c].diff)
  BY DEF ToldRight, DueKept
<1> DEFINE r == chan[c]
           s == chan'[c]
<1>2. ASSUME NEW k \in DOMAIN s.jobDiff \ s.shared
      PROVE  \/ 0 \in s.asked[k]
             \/ \E told \in s.asked[k] :
                   s.jobDiff[k] = told \/ (Declaring' /\ s.jobDiff[k] < told)
             \/ DueNext(c, s.jobDiff[k])
  BY DEF ToldRight, DueKept
<1> QED
  BY <1>1, <1>2 DEF ToldRight, ToldNext

LEMMA DeclaringKeeps == ASSUME NEW t \in Task, Steady(t) PROVE Declaring => Declaring'
  BY DeclaringStep DEF Steady

LEMMA ToldGoesOn ==
    ASSUME Typed, ToldInv, NEW t \in Task, GoesOn(t), Steady(t), sock' = "open" => sock = "open"
    PROVE  ToldInv'
<1>1. Declaring => Declaring'
  BY DeclaringKeeps
<1>2. \A u \in Task \ {t} : task'[u] = task[u]
  BY DEF Steady
<1>3. CallRec(task[t]) /\ channels \subseteq Channel /\ Chans(chan)
  BY TypedCalls DEF Typed, WorldTyped
<1>4. SUFFICES ASSUME Writable', NEW c \in channels PROVE ToldRight(c)'
  BY DEF ToldInv, Steady
<1>5. /\ ToldRight(c) /\ sock # "closed" /\ Writable
      /\ c \in Channel
  BY <1>3, <1>4 DEF ToldInv, Writable, Steady
<1>6. CASE Quiet(t)
  <2>1. task[t].at \notin Telling /\ task'[t].at # "sent" /\ SameTargets(chan[c], chan'[c])
    BY <1>5, <1>6 DEF Quiet, Sending, Settled
  <2>2. DueKept(c)
    BY <1>1, <1>2, <2>1, DueOthers
  <2>3. SentKept(c)
    BY <1>2, <1>5, <2>1, SentOthers DEF SameTargets
  <2> QED
    BY <1>1, <1>5, <2>1, <2>2, <2>3, ToldSame, ToldNextIs
<1>7. CASE Succeeds(t)
  <2>1. task[t].at \notin Telling /\ task'[t].at # "sent"
    BY <1>3, <1>7 DEF Succeeds, Telling, CallRec, CallFields
  <2>2. DueKept(c)
    BY <1>1, <1>2, <2>1, DueOthers
  <2>3. CASE c # task[t].c
    <3>1. chan'[c] = chan[c]
      BY <1>5, <1>7, <2>3 DEF Succeeds
    <3>2. SentKept(c)
      BY <1>2, <1>5, <2>1, <3>1, SentOthers
    <3>3. SameTargets(chan[c], chan'[c])
      BY <3>1 DEF SameTargets
    <3> QED
      BY <1>1, <1>5, <2>2, <3>2, <3>3, ToldSame, ToldNextIs
  <2>4. CASE c = task[t].c
    <3>1. /\ Retargeted(chan[c], chan'[c], chan[c].diff) /\ chan[c].diff \in Nat
      BY <1>3, <1>5, <1>7, <2>4 DEF Succeeds, Chans, ChanRec
    <3>2. SentKept(c)
      BY <1>2, <1>5, <2>1, <3>1, SentOthers DEF Retargeted, SameJobs
    <3>3. \A x : Due(c, x) => DueNext(c, x)
      BY <2>2 DEF DueKept
    <3>4. ToldNext(c, chan'[c])
      BY <1>1, <1>5, <3>1, <3>3, ToldTold DEF Retargeted, SameJobs
    <3> QED
      BY <3>2, <3>4, ToldNextIs
  <2> QED
    BY <2>3, <2>4
<1>8. CASE Starts(t)
  <2>1. task[t].at \notin Telling /\ task'[t].at # "sent" /\ SameTargets(chan[c], chan'[c])
    BY <1>5, <1>8 DEF Starts, Sends, Settled, Telling
  <2>2. DueKept(c)
    BY <1>1, <1>2, <2>1, DueOthers
  <2>3. SentKept(c)
    BY <1>2, <1>5, <2>1, SentOthers DEF SameTargets
  <2> QED
    BY <1>1, <1>5, <2>1, <2>2, <2>3, ToldSame, ToldNextIs
<1>9. CASE Skips(t)
  <2>1. PICK ch : Settled(chan, ch) /\ Follows(t, ch)
    BY <1>9 DEF Skips
  <2>2. SameTargets(chan[c], ch[c]) /\ SameTargets(ch[c], chan'[c]) /\ task'[t].at # "sent"
    BY <1>5, <2>1, FollowsIs DEF Settled
  <2>3. SameTargets(chan[c], chan'[c])
    BY <2>2 DEF SameTargets
  <2>4. task[t].at \notin Telling
    BY <1>9 DEF Skips, Telling
  <2>5. DueKept(c)
    BY <1>1, <1>2, <2>4, DueOthers
  <2>6. SentKept(c)
    BY <1>2, <1>5, <2>2, <2>3, SentOthers DEF SameTargets
  <2> QED
    BY <1>1, <1>5, <2>3, <2>5, <2>6, ToldSame, ToldNextIs
<1>10. CASE Writes(t) /\ task[t].at = "payout"
  <2>1. DueKept(c)
    BY <1>1, <1>2, <1>10, DueOthers DEF Telling
  <2>2. task'[t].c = task[t].c /\ task'[t].job = store.nextJob
    BY <1>3, <1>10 DEF Writes, CallRec, CallFields
  <2>3. CASE c # task[t].c
    <3>1. chan'[c] = chan[c]
      BY <1>5, <1>10, <2>3 DEF Writes
    <3>2. SentKept(c)
      BY <1>2, <1>5, <2>2, <2>3, <3>1, SentOthers
    <3>3. SameTargets(chan[c], chan'[c])
      BY <3>1 DEF SameTargets
    <3> QED
      BY <1>1, <1>5, <2>1, <3>2, <3>3, ToldSame, ToldNextIs
  <2>4. CASE c = task[t].c
    <3> DEFINE j == store.nextJob
    <3>1. Written(t, chan[c], chan'[c])
      BY <1>10, <2>4 DEF Writes
    <3>2. /\ chan'[c].asked = With(chan[c].asked, j, {chan[c].told})
          /\ chan'[c].told = chan[c].told /\ chan'[c].diff = chan[c].diff
          /\ chan'[c].jobDiff = chan[c].jobDiff
          /\ chan'[c].shared = chan[c].shared \cup ({j} \cap DOMAIN chan[c].asked)
      BY <1>5, <3>1 DEF Written
    <3>3. DOMAIN chan'[c].asked = DOMAIN chan[c].asked \cup {j}
      BY <3>2 DEF With
    <3>4. SentKept(c)
      BY <1>2, <1>5, <2>2, <3>3, SentOthers
    <3>5. ToldNext(c, chan'[c])
      BY <1>1, <1>5, <2>1, <3>2, ToldWritten
    <3> QED
      BY <3>4, <3>5, ToldNextIs
  <2> QED
    BY <2>3, <2>4
<1>11. CASE Records(t)
  <2>1. PICK next :
          /\ IsRecorded(t, chan[task[t].c], next[task[t].c])
          /\ \A d \in Channel \ {task[t].c} : next[d] = chan[d]
          /\ \/ chan' = next /\ task'[t] = [task[t] EXCEPT !.at = "prev"]
             \/ Follows(t, next)
    BY <1>11 DEF Records
  <2>2. DueKept(c)
    BY <1>1, <1>2, <1>11, DueOthers DEF Records, Telling
  <2>3. task'[t].at # "sent" /\ SameTargets(next[c], chan'[c])
    <3>1. CASE chan' = next /\ task'[t] = [task[t] EXCEPT !.at = "prev"]
      BY <1>3, <3>1 DEF CallRec, CallFields, SameTargets
    <3>2. CASE Follows(t, next)
      BY <1>5, <3>2, FollowsIs
    <3> QED
      BY <2>1, <3>1, <3>2
  <2>4. CASE c # task[t].c
    <3>1. next[c] = chan[c]
      BY <1>5, <2>1, <2>4
    <3>2. SentKept(c)
      BY <1>2, <1>5, <2>3, <3>1, SentOthers DEF SameTargets
    <3> QED
      BY <1>1, <1>5, <2>2, <2>3, <3>1, <3>2, ToldSame, ToldNextIs
  <2>5. CASE c = task[t].c
    <3> DEFINE j == task[t].job
    <3>1. j \in DOMAIN chan[c].asked
      BY <1>5, <1>11, <2>5 DEF Records, ToldRight
    <3>2. /\ next[c].asked = chan[c].asked /\ next[c].told = chan[c].told
          /\ next[c].diff = chan[c].diff /\ next[c].shared = chan[c].shared
          /\ next[c].jobDiff = With(chan[c].jobDiff, j, chan[c].diff)
      BY <2>1, <2>5 DEF IsRecorded
    <3>3. SentKept(c)
      BY <1>2, <1>5, <2>3, <3>2, SentOthers DEF SameTargets
    <3>4. ToldNext(c, chan'[c])
      <4> DEFINE given == With(chan[c].jobDiff, j, chan[c].diff)
      <4>1. \A k \in DOMAIN chan'[c].jobDiff :
                    k \in DOMAIN given /\ chan'[c].jobDiff[k] = given[k]
        BY <2>3, <3>2 DEF SameTargets
      <4>2. /\ chan'[c].told = chan[c].told /\ chan'[c].diff = chan[c].diff
            /\ chan'[c].asked = chan[c].asked /\ chan'[c].shared = chan[c].shared
        BY <2>3, <3>2 DEF SameTargets
      <4> QED
        BY <1>1, <1>5, <2>2, <3>1, <4>1, <4>2, ToldRecorded
    <3> QED
      BY <3>3, <3>4, ToldNextIs
  <2> QED
    BY <2>4, <2>5
<1>12. CASE Ratchets(t)
  <2>1. /\ task[t].at \notin Telling /\ task'[t].at = "row" /\ task'[t].c = 0
        /\ SameJobs(chan[c], chan'[c]) /\ chan'[c].asked = chan[c].asked
        /\ chan'[c].told = chan[c].told
        /\ \/ chan'[c].diff = chan[c].diff
           \/ Declaring /\ chan'[c].diff = task'[t].diff
    BY <1>5, <1>12 DEF Ratchets, Telling
  <2>2. DueKept(c)
    BY <1>1, <1>2, <2>1, DueOthers
  <2>3. SentKept(c)
    BY <1>2, <1>5, <2>1, SentOthers
  <2>4. chan'[c].diff = chan[c].diff \/ DueNext(c, chan'[c].diff)
    <3>1. 0 < c
      BY <1>5, ChannelIs
    <3> QED
      BY <1>1, <2>1, <3>1 DEF DueNext, Telling
  <2>5. ToldNext(c, chan'[c])
    BY <1>1, <1>5, <2>1, <2>2, <2>4, ToldSet DEF SameJobs
  <2> QED
    BY <2>3, <2>5, ToldNextIs
<1>13. CASE Tells(t)
  <2>1. CASE (\A d \in channels : d <= task[t].c) /\ chan' = chan /\ task'[t] = Idle
    <3>1. task'[t].at # "sent"
      BY <2>1 DEF Idle
    <3>2. DueKept(c)
      <4> SUFFICES ASSUME NEW diff, Due(c, diff) PROVE DueNext(c, diff)
        BY DEF DueKept
      <4>1. PICK u \in Task : Pending(u, c, diff)
        BY DEF Due
      <4>2. c <= task[t].c /\ c \in Nat /\ task[t].c \in Nat
        BY <1>3, <1>5, <2>1, ChannelIs DEF CallRec
      <4>3. u # t
        BY <4>1, <4>2 DEF Pending
      <4> QED
        BY <1>1, <1>2, <4>1, <4>3 DEF Due, DueNext, Pending
    <3>3. SentKept(c)
      BY <1>2, <1>5, <2>1, <3>1, SentOthers
    <3>4. SameTargets(chan[c], chan'[c])
      BY <2>1 DEF SameTargets
    <3> QED
      BY <1>1, <1>5, <3>2, <3>3, <3>4, ToldSame, ToldNextIs
  <2>2. ASSUME NEW d \in channels, d > task[t].c, \A e \in channels : e > task[t].c => d <= e,
               Clamped(d, task[t].diff) \in Nat,
               Retargeted(chan[d], chan'[d], Clamped(d, task[t].diff)),
               \A e \in Channel \ {d} : chan'[e] = chan[e],
               task'[t] = [task[t] EXCEPT !.at = "targets", !.c = d]
        PROVE  ToldRight(c)'
    <3>1. task'[t].at = "targets" /\ task'[t].c = d /\ task'[t].diff = task[t].diff
      BY <1>3, <2>2 DEF CallRec, CallFields
    <3>2. c \in Nat /\ d \in Nat /\ task[t].c \in Nat /\ task[t].diff \in Nat
      BY <1>3, <1>5, ChannelIs DEF CallRec
    <3>3. CASE c # d
      <4>1. chan'[c] = chan[c]
        BY <1>5, <2>2, <3>3
      <4>2. DueKept(c)
        <5> SUFFICES ASSUME NEW diff, Due(c, diff) PROVE DueNext(c, diff)
          BY DEF DueKept
        <5>1. PICK u \in Task : Pending(u, c, diff)
          BY DEF Due
        <5>2. CASE u = t
          <6>1. d < c
            BY <2>2, <3>2, <3>3, <5>1, <5>2 DEF Pending
          <6> QED
            BY <1>1, <3>1, <5>1, <5>2, <6>1 DEF Due, DueNext, Pending, Telling
        <5>3. CASE u # t
          BY <1>1, <1>2, <5>1, <5>3 DEF Due, DueNext, Pending
        <5> QED
          BY <5>2, <5>3
      <4>3. SentKept(c)
        BY <1>2, <1>5, <3>1, <4>1, SentOthers
      <4>4. SameTargets(chan[c], chan'[c])
        BY <4>1 DEF SameTargets
      <4> QED
        BY <1>1, <1>5, <4>2, <4>3, <4>4, ToldSame, ToldNextIs
    <3>4. CASE c = d
      <4> DEFINE diff == Clamped(c, task[t].diff)
      <4>1. \A x : Due(c, x) => DueNext(c, x) \/ x = diff \/ x < diff
        <5> SUFFICES ASSUME NEW x, Due(c, x) PROVE DueNext(c, x) \/ x = diff \/ x < diff
          OBVIOUS
        <5>1. PICK u \in Task : Pending(u, c, x)
          BY DEF Due
        <5>2. CASE u = t
          <6>1. x = task[t].diff /\ chan[c].max \in Nat
            BY <1>3, <1>5, <5>1, <5>2 DEF Pending, Chans, ChanRec
          <6>2. diff >= x /\ diff \in Nat /\ x \in Nat
            BY <3>2, <6>1, ClampedIs
          <6> HIDE DEF diff
          <6> QED
            BY <6>2
        <5>3. CASE u # t
          BY <1>1, <1>2, <5>1, <5>3 DEF Due, DueNext, Pending
        <5> QED
          BY <5>2, <5>3
      <4>2. Retargeted(chan[c], chan'[c], diff) /\ diff \in Nat
        BY <2>2, <3>4
      <4>3. SentKept(c)
        BY <1>2, <1>5, <3>1, <4>2, SentOthers DEF Retargeted, SameJobs
      <4> HIDE DEF diff
      <4>4. ToldNext(c, chan'[c])
        BY <1>1, <1>5, <4>1, <4>2, ToldTold DEF Retargeted, SameJobs
      <4> QED
        BY <4>3, <4>4, ToldNextIs
    <3> QED
      BY <3>3, <3>4
  <2> QED
    BY <1>13, <2>1, <2>2 DEF Tells
<1> QED
  BY <1>6, <1>7, <1>8, <1>9, <1>10, <1>11, <1>12, <1>13 DEF GoesOn

LEMMA ToldInit == Init => ToldInv
<1> SUFFICES ASSUME Init PROVE ToldInv
  OBVIOUS
<1>1. PICK k \in Cases :
        /\ channels = 1..Len(k.open)
        /\ chan = [c \in Channel |->
                     IF c <= Len(k.open) THEN Opened(k.open[c], c, scheme) ELSE NoChannel]
  BY DEF Init
<1>2. Len(k.open) \in Nat /\ Len(k.open) <= MaxChannels
  BY SessionAssumption
<1>3. \A t \in Task : task[t].at = "idle"
  BY DEF Init, Idle
<1>4. ASSUME NEW c \in channels PROVE ToldRight(c)
  <2> DEFINE jobDiff == With(Empty, c, InitialDiff)
             asked == With(Empty, c, {InitialDiff})
  <2>1. c \in Channel /\ c <= Len(k.open)
    BY <1>1, <1>2, <1>4, SessionAssumption DEF Channel
  <2>2. chan[c] = Opened(k.open[c], c, scheme)
    BY <1>1, <2>1
  <2>3. /\ chan[c].told = InitialDiff /\ chan[c].diff = InitialDiff
        /\ chan[c].jobDiff = jobDiff /\ chan[c].asked = asked
    BY <2>2 DEF Opened, NoChannel
  <2>4. /\ DOMAIN jobDiff = {c} /\ jobDiff[c] = InitialDiff
        /\ DOMAIN asked = {c} /\ asked[c] = {InitialDiff}
    BY DEF With, Empty
  <2> HIDE DEF jobDiff, asked
  <2> QED
    BY <1>3, <2>3, <2>4 DEF ToldRight
<1> QED
  BY <1>4 DEF ToldInv

\* Nothing is done to the targets.
LEMMA ToldFrame ==
    ASSUME ToldInv, channels' \subseteq channels, UNCHANGED <<chan, task>>, Writable' => Writable
    PROVE  ToldInv'
  BY DEF ToldInv, ToldRight, Due, Pending, Declaring

\* A call that was idle begins with something else than targets.
LEMMA ToldPut ==
    ASSUME Typed, ToldInv, NEW t \in Task, task[t] = Idle, task' = [task EXCEPT ![t] = task'[t]],
           task'[t].at \notin Telling \cup {"sent"}, UNCHANGED <<sock, channels>>,
           conn'.destroyed = conn.destroyed,
           \A c \in Channel : chan[c].jd => chan'[c].jd,
           \A c \in channels : SameTargets(chan[c], chan'[c])
    PROVE  ToldInv'
<1>1. \A u \in Task \ {t} : task'[u] = task[u]
  BY DEF Typed, Calls
<1>2. Declaring => Declaring'
  BY DeclaringStep
<1>3. task[t].at \notin Telling
  BY DEF Idle, Telling
<1>4. ASSUME Writable', NEW c \in channels PROVE ToldRight(c)'
  <2>1. ToldRight(c)
    BY <1>4 DEF ToldInv, Writable
  <2>2. DueKept(c)
    BY <1>1, <1>2, <1>3, DueOthers
  <2>3. SameTargets(chan[c], chan'[c])
    BY <1>4
  <2>4. SentKept(c)
    BY <1>1, <2>1, <2>3, SentOthers DEF SameTargets
  <2> QED
    BY <1>2, <2>1, <2>2, <2>3, <2>4, ToldSame, ToldNextIs
<1> QED
  BY <1>4 DEF ToldInv

\* Channel c is touched by a call that does not wait.
LEMMA ToldTouched ==
    ASSUME ToldInv, UNCHANGED <<task, sock, channels>>, conn'.destroyed = conn.destroyed,
           NEW c \in channels, channels \subseteq Channel,
           \A d \in Channel \ {c} : chan'[d] = chan[d],
           Declaring => Declaring', ToldRight(c) => ToldNext(c, chan'[c]),
           DOMAIN chan[c].asked \subseteq DOMAIN chan'[c].asked
    PROVE  ToldInv'
<1>1. ASSUME Writable', NEW d \in channels PROVE ToldRight(d)'
  <2>1. ToldRight(d)
    BY <1>1 DEF ToldInv, Writable
  <2>2. DueKept(d)
    BY DEF DueKept, Due, Pending, DueNext
  <2>3. CASE d = c
    <3>1. SentKept(c)
      BY <2>1, <2>3 DEF ToldRight, SentKept
    <3> QED
      BY <2>1, <2>3, <3>1, ToldNextIs
  <2>4. CASE d # c
    <3>1. chan'[d] = chan[d]
      BY <2>4
    <3>2. SentKept(d)
      BY <2>1, <3>1 DEF ToldRight, SentKept
    <3>3. SameTargets(chan[d], chan'[d])
      BY <3>1 DEF SameTargets
    <3> QED
      BY <2>1, <2>2, <3>2, <3>3, ToldSame, ToldNextIs
  <2> QED
    BY <2>3, <2>4
<1> QED
  BY <1>1 DEF ToldInv

LEMMA ToldReceive == ASSUME Typed, ToldInv, NEW t \in Task, Receive(t) PROVE ToldInv'
<1>0. channels \subseteq Channel /\ Chans(chan) /\ DOMAIN task = Task /\ DOMAIN conn = ConnFields
  BY DEF Typed, WorldTyped, Calls, ConnTyped
<1> USE DEF base, world, ghost
<1>1. ASSUME NEW w \in BOOLEAN, SetupConnection(t, w) PROVE ToldInv'
  <2>1. conn' = [conn EXCEPT !.workSel = w] /\ UNCHANGED <<channels, chan, task, sock>>
    BY <1>1 DEF SetupConnection
  <2>2. conn'.destroyed = conn.destroyed
    BY <1>0, <2>1 DEF ConnFields
  <2> QED
    BY <2>1, <2>2, ToldFrame DEF Writable
<1>2. ASSUME Unacceptable(t) \/ NoPrefix(t) PROVE ToldInv'
  BY <1>2, ToldFrame DEF Unacceptable, NoPrefix, CloseSocket, Writable
<1>3. ASSUME NEW kind \in {"standard", "extended"}, Refuse(t, kind) PROVE ToldInv'
  <2>1. /\ UNCHANGED <<channels, chan, task, sock>>
        /\ conn' = conn \/ conn' = [conn EXCEPT !.prefix = (NextPrefix % MaxPrefix) + 1,
                                                !.refused = @ \cup {NextPrefix}]
    BY <1>3 DEF Refuse
  <2>2. conn'.destroyed = conn.destroyed
    BY <1>0, <2>1 DEF ConnFields
  <2> QED
    BY <2>1, <2>2, ToldFrame DEF Writable
<1>4. ASSUME NEW kind \in {"standard", "extended"}, NEW rate \in env.rates,
             NEW limit \in env.limits, Open(t, kind, rate, limit)
      PROVE  ToldInv'
  <2>0. PICK c : c = conn.next
    OBVIOUS
  <2>1. /\ c \in Channel /\ channels' = channels \cup {c} /\ c \notin channels /\ Writable
        /\ New(kind, rate, limit, chan'[c])
        /\ \A d \in Channel \ {c} : chan'[d] = chan[d]
        /\ task[t] = Idle /\ task' = [task EXCEPT ![t] = task'[t]]
        /\ task'[t].at \in {"success", "create", "entity"}
    BY <1>4, <2>0, OpenIs
  <2>2. ~chan[c].jd /\ \A u \in Task : task[u].c # c
    BY <2>0, <2>1, ChannelIs DEF Typed, ConnTyped, Calls
  <2>3. Declaring => Declaring'
    BY <2>1, <2>2, DeclaringStep
  <2>4. \A u \in Task \ {t} : task'[u] = task[u]
    BY <1>0, <2>1
  <2>5. task[t].at \notin Telling /\ task'[t].at # "sent"
    BY <2>1 DEF Idle, Telling
  <2>6. ToldRight(c)'
    <3>1. /\ chan'[c].asked = Empty /\ chan'[c].jobDiff = Empty
          /\ chan'[c].told = 0 \/ chan'[c].diff = chan'[c].told
      BY <2>1 DEF New
    <3>2. DOMAIN Empty = {}
      BY DEF Empty
    <3>3. ToldNext(c, chan'[c])
      BY <3>1, <3>2 DEF ToldNext
    <3>4. SentKept(c)
      BY <2>2, <2>4, <2>5 DEF SentKept
    <3> QED
      BY <3>3, <3>4, ToldNextIs
  <2>7. ASSUME NEW d \in channels PROVE ToldRight(d)'
    <3>1. ToldRight(d) /\ chan'[d] = chan[d]
      BY <1>0, <2>1, <2>7 DEF ToldInv
    <3>2. DueKept(d)
      BY <2>3, <2>4, <2>5, DueOthers
    <3>3. SentKept(d)
      BY <2>4, <2>5, <3>1, SentOthers
    <3>4. SameTargets(chan[d], chan'[d])
      BY <3>1 DEF SameTargets
    <3> QED
      BY <2>3, <3>1, <3>2, <3>3, <3>4, ToldSame, ToldNextIs
  <2> QED
    BY <2>1, <2>6, <2>7 DEF ToldInv
<1>5. ASSUME NEW c \in Channel, CloseChannel(t, c) PROVE ToldInv'
  <2>1. /\ channels' \subseteq channels /\ UNCHANGED <<chan, task, sock>>
        /\ Writable
    BY <1>5 DEF CloseChannel, Frame, Writable
  <2> QED
    BY <2>1, ToldFrame
<1>6. ASSUME NEW c \in Channel, NEW rate \in env.rates, NEW limit \in env.limits,
             Update(t, c, rate, limit)
      PROVE  ToldInv'
  <2> DEFINE diff == Granted(rate, limit)
             r == chan[c]
             s == chan'[c]
  <2>1. /\ c \in channels /\ UNCHANGED <<channels, task, sock, conn>>
        /\ Updated(r, s, rate, limit)
        /\ \A d \in Channel \ {c} : chan'[d] = chan[d]
    BY <1>6, UpdateIs
  <2>2. DOMAIN s.asked = DOMAIN r.asked /\ s.shared = r.shared /\ s.jobDiff = r.jobDiff
    BY <2>1 DEF Updated, SameJobs
  <2>3. \A d \in Channel : chan[d].jd => chan'[d].jd
    BY <2>1 DEF Updated, SameJobs
  <2>4. Declaring => Declaring'
    BY <2>3, DeclaringStep
  <2>5. DueKept(c) /\ \A x : Due(c, x) => DueNext(c, x)
    BY <2>1, <2>4 DEF DueKept, Due, Pending, DueNext
  <2>6. diff \in Nat
    BY GrantedIs
  <2> HIDE DEF diff
  <2>7. \/ s.diff = r.diff /\ s.told = r.told /\ s.asked = r.asked
        \/ /\ s.diff = diff /\ s.told = diff
           /\ \A j \in DOMAIN r.asked : s.asked[j] = r.asked[j] \cup {diff}
    BY <2>1 DEF Updated, diff
  <2>8. ASSUME ToldRight(c) PROVE ToldNext(c, s)
    <3>1. CASE s.diff = r.diff /\ s.told = r.told /\ s.asked = r.asked
      BY <2>2, <2>4, <2>5, <2>8, <3>1, ToldSet
    <3>2. CASE /\ s.diff = diff /\ s.told = diff
               /\ \A j \in DOMAIN r.asked : s.asked[j] = r.asked[j] \cup {diff}
      BY <2>2, <2>4, <2>5, <2>6, <2>8, <3>2, ToldTold
    <3> QED
      BY <2>7, <3>1, <3>2
  <2> QED
    BY <1>0, <2>1, <2>2, <2>4, <2>8, ToldTouched
<1>7. ASSUME NEW c \in Channel, NEW tip, SetCustomMiningJob(t, c, tip) PROVE ToldInv'
  <2> DEFINE j == conn.custom
             r == chan[c]
             s == chan'[c]
  <2>1. /\ c \in channels /\ UNCHANGED <<channels, task, sock>>
        /\ conn' = [conn EXCEPT !.custom = conn.custom + 1]
        /\ Customized(r, s, tip)
        /\ \A d \in Channel \ {c} : chan'[d] = chan[d]
    BY <1>7, SetCustomMiningJobIs
  <2>2. /\ s.told = r.told /\ s.diff = r.diff /\ s.jobDiff = r.jobDiff
        /\ s.asked = With(r.asked, j, {r.told})
        /\ s.shared = r.shared \cup ({j} \cap DOMAIN r.asked)
    BY <2>1 DEF Customized
  <2>3. \A d \in Channel : chan[d].jd => chan'[d].jd
    BY <2>1 DEF Customized
  <2>4. Declaring => Declaring'
    BY <2>3, DeclaringStep
  <2>5. DueKept(c)
    BY <2>1, <2>4 DEF DueKept, Due, Pending, DueNext
  <2>6. DOMAIN r.asked \subseteq DOMAIN s.asked
    BY <2>2 DEF With
  <2>7. conn'.destroyed = conn.destroyed
    BY <1>0, <2>1 DEF ConnFields
  <2>8. ASSUME ToldRight(c) PROVE ToldNext(c, s)
    BY <2>2, <2>4, <2>5, <2>8, ToldWritten
  <2> QED
    BY <1>0, <2>1, <2>4, <2>6, <2>7, <2>8, ToldTouched
<1>8. ASSUME NEW c \in Channel, NEW j, NEW q, Submit(t, c, j, q) PROVE ToldInv'
  <2> DEFINE k == [Idle EXCEPT !.at = "judge", !.why = "share", !.c = c, !.job = j, !.q = q]
  <2>1. Put(t, k) /\ UNCHANGED <<channels, chan, sock, conn>> /\ task[t] = Idle
    BY <1>8 DEF Submit, Frame, Free
  <2>2. k.at = "judge"
    BY DEF Idle
  <2> HIDE DEF k
  <2>3. task' = [task EXCEPT ![t] = task'[t]] /\ task'[t].at \notin Telling \cup {"sent"}
    BY <1>0, <2>1, <2>2 DEF Put, Telling
  <2>4. \A d \in Channel : SameTargets(chan[d], chan'[d]) /\ (chan[d].jd => chan'[d].jd)
    BY <2>1 DEF SameTargets
  <2> QED
    BY <1>0, <2>1, <2>3, <2>4, ToldPut
<1> QED
  BY <1>1, <1>2, <1>3, <1>4, <1>5, <1>6, <1>7, <1>8 DEF Receive

LEMMA ToldStep == ASSUME Typed, ReleaseInv, ToldInv, [Next]_vars PROVE ToldInv'
<1>0. channels \subseteq Channel /\ Chans(chan) /\ DOMAIN task = Task /\ DOMAIN conn = ConnFields
  BY DEF Typed, WorldTyped, Calls, ConnTyped
<1> USE DEF base, world, ghost
<1>1. SUFFICES ASSUME Next PROVE ToldInv'
  <2>1. ASSUME UNCHANGED vars PROVE ToldInv'
    <3>1. UNCHANGED <<channels, chan, task, sock, conn>>
      BY <2>1 DEF vars
    <3> QED
      BY <3>1, ToldFrame DEF Writable
  <2> QED
    BY <2>1
<1>2. ASSUME NEW t \in Task,
             \/ Resume(t) \/ NoDistribution(t) \/ RecordFails(t) \/ Rejected(t)
             \/ \E rate \in env.rates : Check(t, rate)
      PROVE  ToldInv'
  BY <1>2, GoesOnIs, ResumeSteady, Breaks, ToldGoesOn
<1>3. ASSUME NEW t \in Task, Receive(t) PROVE ToldInv'
  BY <1>3, ToldReceive
<1>4. ASSUME Disconnect \/ Bury \/ Release \/ Tick \/ JdpChanges \/ \E s \in Schemes : Move(s)
      PROVE  ToldInv'
  <2>1. ASSUME Disconnect PROVE ToldInv'
    BY <2>1, ToldFrame DEF Disconnect, CloseSocket, Writable
  <2>2. ASSUME Bury PROVE ToldInv'
    <3>1. conn' = [conn EXCEPT !.destroyed = TRUE] /\ UNCHANGED <<channels, chan, task>>
      BY <2>2 DEF Bury
    <3>2. conn'.destroyed
      BY <1>0, <3>1 DEF ConnFields
    <3> QED
      BY <3>1, <3>2, ToldFrame DEF Writable
  <2>3. ASSUME Release PROVE ToldInv'
    BY <2>3 DEF Release, ToldInv
  <2>4. ASSUME Tick \/ JdpChanges \/ \E s \in Schemes : Move(s) PROVE ToldInv'
    BY <2>4, ToldFrame DEF Tick, JdpChanges, Move, Writable
  <2> QED
    BY <1>4, <2>1, <2>2, <2>3, <2>4
<1>5. ASSUME NEW tip \in {store.tip, store.tip + 1}, NEW same \in BOOLEAN, Publish(tip, same)
      PROVE  ToldInv'
  <2>1. tip \in Nat
    BY TipIs
  <2>2. /\ Settled(chan, chan') /\ UNCHANGED <<channels, sock, conn>>
        /\ UNCHANGED task \/ \E t \in Task : Announces(t)
    BY <1>5, <2>1, AnnouncesIs
  <2>3. \A c \in Channel : SameTargets(chan[c], chan'[c]) /\ (chan[c].jd => chan'[c].jd)
    BY <2>2 DEF Settled, SameTargets
  <2>4. CASE UNCHANGED task
    <3>1. Declaring => Declaring'
      BY <2>3, DeclaringStep
    <3>2. ASSUME Writable', NEW c \in channels PROVE ToldRight(c)'
      <4>1. ToldRight(c) /\ SameTargets(chan[c], chan'[c])
        BY <1>0, <2>2, <2>3, <3>2 DEF ToldInv, Writable
      <4>2. DueKept(c)
        BY <2>4, <3>1 DEF DueKept, Due, Pending, DueNext
      <4>3. SentKept(c)
        BY <2>4, <4>1 DEF ToldRight, SentKept, SameTargets
      <4> QED
        BY <3>1, <4>1, <4>2, <4>3, ToldSame, ToldNextIs
    <3> QED
      BY <2>2, <3>2 DEF ToldInv
  <2>5. ASSUME NEW t \in Task, Announces(t) PROVE ToldInv'
    <3>1. task'[t].at \in {"idle", "payout"} /\ task[t] = Idle /\ task' = [task EXCEPT ![t] = task'[t]]
      BY <2>5 DEF Announces, Dispatched, Sends, Idle
    <3> QED
      BY <1>0, <2>2, <2>3, <3>1, ToldPut DEF Telling
  <2> QED
    BY <2>2, <2>4, <2>5
<1> QED
  BY <1>1, <1>2, <1>3, <1>4, <1>5 DEF Next

LEMMA ToldImplies == ASSUME Typed, ToldInv PROVE JudgedAsTold
<1> SUFFICES ASSUME ~(Declaring /\ \E t \in Task : task[t].at \in Telling), Writable,
                    NEW c \in channels, NEW j \in DOMAIN chan[c].asked \ chan[c].shared,
                    0 \notin chan[c].asked[j]
             PROVE  \E told \in chan[c].asked[j] :
                        JudgedBy(c, j) = told \/ (Declaring /\ JudgedBy(c, j) < told)
  BY DEF JudgedAsTold, Telling
<1>1. ToldRight(c) /\ \A x : ~Due(c, x)
  BY DEF ToldInv, Due, Pending
<1>2. CASE j \in DOMAIN chan[c].jobDiff
  BY <1>1, <1>2 DEF JudgedBy, ToldRight
<1>3. CASE j \notin DOMAIN chan[c].jobDiff
  <2>1. JudgedBy(c, j) = chan[c].diff /\ chan[c].told \in chan[c].asked[j]
    BY <1>1, <1>3 DEF JudgedBy, ToldRight
  <2> QED
    BY <1>1, <2>1 DEF ToldRight
<1> QED
  BY <1>2, <1>3

-------------------------------------------------------------------------------
(* Names. *)

LEMMA NameInit == Init => NameInv
<1> SUFFICES ASSUME Init PROVE NameInv
  OBVIOUS
<1>1. PICK k \in Cases :
        chan = [c \in Channel |->
                  IF c <= Len(k.open) THEN Opened(k.open[c], c, scheme) ELSE NoChannel]
  BY DEF Init
<1>2. ASSUME NEW c \in Channel PROVE ~chan[c].misnamed
  BY <1>1 DEF Opened, NoChannel
<1>3. \A t \in Task : task[t].at = "idle" /\ task[t].why = "none"
  BY DEF Init, Idle
<1> QED
  BY <1>2, <1>3 DEF NameInv, NewestIsNamed, Sending

\* A job that is on its way to a channel that does not count as raced is alone.
LEMMA AloneIs ==
    ASSUME NEW t, NEW ch, NEW call, NEW newest, NEW k, Sends(t, ch, call, newest, k),
           ~ch[k.c].raced,
           call.why = "publish" => \A u \in Task \ {t} :
                                      task[u].why = "publish" => task[u].tmpl # call.tmpl
    PROVE  \A u \in Task \ {t} : ~(task[u].at \in Sending /\ task[u].c = k.c)
  BY DEF Sends, Overlaps

\* Call t takes a step, and what it sends to a channel that does not count as raced
\* is alone there.
LEMMA NamePut ==
    ASSUME NameInv, Newest \in Nat, Newest' \in Nat, Newest' >= Newest, NEW t \in Task,
           \A u \in Task : task[u].tmpl \in Nat,
           \A u \in Task : task'[u].at \in Sending => task'[u].c \in Channel,
           \A u \in Task \ {t} : task'[u] = task[u], Writable' => Writable,
           \A c \in Channel : (chan[c].raced => chan'[c].raced) /\ ~chan'[c].misnamed,
           \A c \in Channel :
                \/ chan'[c].last = chan[c].last
                \/ \A u \in Task \ {t} : ~(task[u].at \in Sending /\ task[u].c = c)
                \/ chan'[c].raced,
           LET k == task'[t]
           IN  /\ k.at = "sent" /\ Writable' => chan'[k.c].last = k.job
               /\ k.at \in Sending =>
                     \/ k.c = task[t].c /\ task[t].at \in Sending
                     \/ chan'[k.c].raced
                     \/ \A u \in Task \ {t} : ~(task[u].at \in Sending /\ task[u].c = k.c)
               /\ k.why = "publish" =>
                     /\ k.at \in Sending /\ k.tmpl <= Newest'
                     /\ \A u \in Task \ {t} : task[u].why = "publish" => task[u].tmpl # k.tmpl
    PROVE  NameInv'
<1>1. NewestIsNamed'
  BY DEF NewestIsNamed
<1>2. ASSUME NEW u \in Task, Writable', task'[u].at = "sent", ~chan'[task'[u].c].raced
      PROVE  chan'[task'[u].c].last = task'[u].job
  <2>1. CASE u = t
    BY <1>2, <2>1
  <2>2. CASE u # t
    <3> DEFINE c == task[u].c
    <3>1. task'[u] = task[u] /\ c \in Channel /\ "sent" \in Sending
      BY <1>2, <2>2 DEF Sending
    <3>2. ~chan[c].raced /\ ~chan'[c].raced
      BY <1>2, <3>1
    <3>3. chan[c].last = task[u].job
      BY <1>2, <3>1, <3>2 DEF NameInv
    <3>4. chan'[c].last = chan[c].last
      BY <1>2, <2>2, <3>1, <3>2
    <3> QED
      BY <3>1, <3>3, <3>4
  <2> QED
    BY <2>1, <2>2
<1>3. ASSUME NEW u \in Task, NEW v \in Task, u # v, task'[u].at \in Sending,
             task'[v].at \in Sending, task'[u].c = task'[v].c
      PROVE  chan'[task'[u].c].raced
  <2>1. ASSUME NEW w \in Task, w # t, task'[w].at \in Sending, task'[w].c = task'[t].c,
               task'[t].at \in Sending
        PROVE  chan'[task'[t].c].raced
    <3>1. task'[w] = task[w] /\ task'[t].c \in Channel
      BY <2>1
    <3>2. CASE task'[t].c = task[t].c /\ task[t].at \in Sending
      BY <2>1, <3>1, <3>2 DEF NameInv
    <3> QED
      BY <2>1, <3>1, <3>2
  <2>2. CASE u = t
    BY <1>3, <2>1, <2>2
  <2>3. CASE v = t
    BY <1>3, <2>1, <2>3
  <2>4. CASE u # t /\ v # t
    BY <1>3, <2>4 DEF NameInv
  <2> QED
    BY <2>2, <2>3, <2>4
<1>4. ASSUME NEW u \in Task, NEW v \in Task, u # v, task'[u].why = "publish",
             task'[v].why = "publish"
      PROVE  task'[u].tmpl # task'[v].tmpl
  BY <1>4 DEF NameInv
<1>5. ASSUME NEW u \in Task, task'[u].why = "publish"
      PROVE  task'[u].at \in Sending /\ task'[u].tmpl <= Newest'
  <2>1. CASE u = t
    BY <1>5, <2>1
  <2>2. CASE u # t
    <3>1. task'[u] = task[u] /\ task[u].at \in Sending /\ task[u].tmpl <= Newest
      BY <1>5, <2>2 DEF NameInv
    <3> QED
      BY <3>1
  <2> QED
    BY <2>1, <2>2
<1> QED
  BY <1>1, <1>2, <1>3, <1>4, <1>5 DEF NameInv

\* What a call that follows does: it is over, or alone on a channel that is not raced.
LEMMA FollowsAlone ==
    ASSUME Typed, NameInv, NEW t \in Task, task[t].at \in Working, NEW ch, Follows(t, ch)
    PROVE  LET k == task'[t]
           IN  /\ k.at \notin {"sent"}
               /\ k.at \in Sending =>
                     \/ chan'[k.c].raced
                     \/ \A u \in Task \ {t} : ~(task[u].at \in Sending /\ task[u].c = k.c)
               /\ k.why = "publish" =>
                     /\ k.at \in Sending /\ k.tmpl <= Newest
                     /\ \A u \in Task \ {t} : task[u].why = "publish" => task[u].tmpl # k.tmpl
<1> DEFINE k == task'[t]
<1>0. Idle.at = "idle" /\ Idle.why = "none"
  BY DEF Idle
<1>1. CASE k = Idle
  BY <1>0, <1>1 DEF Sending
<1>2. CASE Subscribes(t, ch) /\ k # Idle
  <2>1. Sends(t, chan', Replay, Newest, k)
    BY <1>2 DEF Subscribes, Dispatched
  <2>2. Replay.why = "replay"
    BY DEF Replay, Idle
  <2>3. k.at = "payout" /\ k.why = "replay"
    BY <2>1, <2>2 DEF Sends
  <2>4. chan'[k.c].raced \/ \A u \in Task \ {t} : ~(task[u].at \in Sending /\ task[u].c = k.c)
    BY <2>1, <2>2, AloneIs
  <2> QED
    BY <2>3, <2>4
<1>3. CASE Continues(t, ch) /\ k # Idle
  <2>1. Sends(t, chan', task[t], Newest, k)
    BY <1>3 DEF Continues, Dispatched
  <2>2. k.at = "payout" /\ k.why = task[t].why /\ k.tmpl = task[t].tmpl
    BY <2>1 DEF Sends
  <2>3. task[t].why = "publish" => \A u \in Task \ {t} :
                                      task[u].why = "publish" => task[u].tmpl # task[t].tmpl
    BY DEF NameInv
  <2>4. chan'[k.c].raced \/ \A u \in Task \ {t} : ~(task[u].at \in Sending /\ task[u].c = k.c)
    BY <2>1, <2>3, AloneIs
  <2>5. task[t].why = "publish" => task[t].tmpl <= Newest
    BY DEF NameInv
  <2> QED
    BY <2>2, <2>3, <2>4, <2>5 DEF Sending
<1> QED
  BY <1>1, <1>2, <1>3 DEF Follows, Ended

LEMMA NameGoesOn ==
    ASSUME Typed, Calls', NameInv, NEW t \in Task, GoesOn(t), Steady(t),
           sock' = "open" => sock = "open"
    PROVE  NameInv'
<1> DEFINE k == task'[t]
<1>1. CallRec(task[t]) /\ Chans(chan) /\ Newest \in Nat /\ Newest' = Newest
  BY TypedCalls DEF Typed, StoreTyped, Newest, Steady
<1>2. /\ \A u \in Task : task[u].tmpl \in Nat
      /\ \A u \in Task : task'[u].at \in Sending => task'[u].c \in Channel
  <2>1. ASSUME NEW u \in Task PROVE CallRec(task[u]) /\ CallRec(task'[u])
    BY DEF Typed, Calls, CallRec
  <2> QED
    BY <2>1 DEF CallRec, Sending, Working
<1>3. \A u \in Task \ {t} : task'[u] = task[u]
  BY DEF Steady
<1>4. Writable' => Writable
  BY DEF Writable, Steady
<1>5. \A c \in Channel : (chan[c].raced => chan'[c].raced) /\ ~chan[c].misnamed
  BY DEF Steady, NameInv, NewestIsNamed
<1>6. Idle.at = "idle" /\ Idle.why = "none"
  BY DEF Idle
<1>7. CASE Quiet(t)
  <2>1. \A c \in Channel : chan'[c].last = chan[c].last /\ chan'[c].misnamed = chan[c].misnamed
    BY <1>7 DEF Quiet, Settled, SameWork
  <2>2. k.at \notin Sending
    BY <1>7 DEF Quiet
  <2>3. k.why # "publish"
    BY <1>7 DEF Quiet, NameInv
  <2> QED
    BY <1>1, <1>2, <1>3, <1>4, <1>5, <2>1, <2>2, <2>3, NamePut DEF Sending
<1>8. CASE Succeeds(t)
  <2>1. \A c \in Channel : chan'[c].last = chan[c].last /\ chan'[c].misnamed = chan[c].misnamed
    BY <1>8 DEF Succeeds, Retargeted, SameJobs
  <2>2. k.at = "success" /\ k.why = task[t].why
    BY <1>1, <1>8 DEF Succeeds, CallRec, CallFields
  <2>3. k.why # "publish"
    BY <1>8, <2>2 DEF Succeeds, NameInv, Sending
  <2> QED
    BY <1>1, <1>2, <1>3, <1>4, <1>5, <2>1, <2>2, <2>3, NamePut DEF Sending
<1>9. CASE Starts(t)
  <2> DEFINE call == [task[t] EXCEPT !.tmpl = Newest, !.prev = TRUE]
  <2>1. \A c \in Channel : chan'[c].last = chan[c].last /\ chan'[c].misnamed = chan[c].misnamed
    BY <1>9 DEF Starts, Settled, SameWork
  <2>2. Sends(t, chan', call, Newest, k) /\ task[t].at = "success"
    BY <1>9 DEF Starts
  <2>3. call.why = task[t].why /\ task[t].why # "publish"
    BY <1>1, <2>2 DEF NameInv, Sending, CallRec, CallFields
  <2> HIDE DEF call
  <2>4. k.at = "payout" /\ k.why # "publish"
    BY <2>2, <2>3 DEF Sends
  <2>5. chan'[k.c].raced \/ \A u \in Task \ {t} : ~(task[u].at \in Sending /\ task[u].c = k.c)
    BY <2>2, <2>3, AloneIs
  <2> QED
    BY <1>1, <1>2, <1>3, <1>4, <1>5, <2>1, <2>4, <2>5, NamePut
<1>10. CASE Skips(t)
  <2>1. PICK ch : Settled(chan, ch) /\ Follows(t, ch)
    BY <1>10 DEF Skips
  <2>2. \A c \in Channel : SameWork(chan[c], ch[c]) /\ SameWork(ch[c], chan'[c])
    BY <2>1, FollowsIs DEF Settled
  <2>3. \A c \in Channel : chan'[c].last = chan[c].last /\ chan'[c].misnamed = chan[c].misnamed
    BY <2>2 DEF SameWork
  <2>4. task[t].at \in Working
    BY <1>10 DEF Skips, Working
  <2>5. /\ k.at # "sent"
        /\ k.at \in Sending =>
              \/ chan'[k.c].raced
              \/ \A u \in Task \ {t} : ~(task[u].at \in Sending /\ task[u].c = k.c)
        /\ k.why = "publish" =>
              /\ k.at \in Sending /\ k.tmpl <= Newest
              /\ \A u \in Task \ {t} : task[u].why = "publish" => task[u].tmpl # k.tmpl
    BY <2>1, <2>4, FollowsAlone
  <2> QED
    BY <1>1, <1>2, <1>3, <1>4, <1>5, <2>3, <2>5, NamePut
<1>11. CASE Writes(t) /\ task[t].at = "payout"
  <2> DEFINE c == task[t].c
  <2>1. /\ k.at = "sent" /\ k.c = task[t].c /\ k.job = store.nextJob /\ k.why = task[t].why
        /\ k.tmpl = task[t].tmpl
    BY <1>1, <1>11 DEF Writes, CallRec, CallFields
  <2>2. c \in Channel
    BY <1>2, <2>1 DEF Sending
  <2>3. /\ chan'[c].misnamed = chan[c].misnamed
        /\ chan'[c].last = (IF Writable THEN store.nextJob ELSE chan[c].last)
        /\ \A d \in Channel \ {c} : chan'[d] = chan[d]
    BY <1>11 DEF Writes, Written
  <2>4. \A d \in Channel : ~chan'[d].misnamed
    BY <1>5, <2>2, <2>3
  <2>5. ASSUME NEW d \in Channel
        PROVE  \/ chan'[d].last = chan[d].last
               \/ \A u \in Task \ {t} : ~(task[u].at \in Sending /\ task[u].c = d)
               \/ chan'[d].raced
    BY <1>5, <1>11, <2>3, <2>5 DEF NameInv, Sending
  <2>6. Writable' => chan'[k.c].last = k.job
    BY <1>4, <2>1, <2>3
  <2>7. task[t].why = "publish" =>
           /\ task[t].tmpl <= Newest
           /\ \A u \in Task \ {t} : task[u].why = "publish" => task[u].tmpl # task[t].tmpl
    BY DEF NameInv
  <2>8. k.at \in Sending /\ task[t].at \in Sending
    BY <1>11, <2>1 DEF Sending
  <2> HIDE DEF c
  <2> QED
    BY <1>1, <1>2, <1>3, <1>4, <1>5, <2>1, <2>4, <2>5, <2>6, <2>7, <2>8, NamePut
<1>12. CASE Records(t)
  <2> DEFINE c == task[t].c
  <2>1. PICK next :
          /\ IsRecorded(t, chan[c], next[c])
          /\ \A d \in Channel \ {c} : next[d] = chan[d]
          /\ \/ /\ chan' = next
                /\ task'[t] = [task[t] EXCEPT !.at = "prev"]
             \/ Follows(t, next)
    BY <1>12 DEF Records
  <2>2. task[t].at = "sent" /\ c \in Channel
    BY <1>12 DEF Records
  <2>3. Writable /\ ~chan[c].raced => chan[c].last = task[t].job
    BY <2>2 DEF NameInv
  <2>4. next[c].last = chan[c].last /\ ~next[c].misnamed
    BY <1>5, <2>1, <2>2, <2>3 DEF IsRecorded
  <2>5. \A d \in Channel : next[d].last = chan[d].last /\ ~next[d].misnamed
    BY <1>5, <2>1, <2>4
  <2>6. \A d \in Channel : chan'[d].last = chan[d].last /\ ~chan'[d].misnamed
    <3>1. CASE chan' = next
      BY <2>5, <3>1
    <3>2. CASE Follows(t, next)
      BY <2>5, <3>2, FollowsIs DEF SameWork
    <3> QED
      BY <2>1, <3>1, <3>2
  <2>7. task[t].why = "publish" =>
           /\ task[t].tmpl <= Newest
           /\ \A u \in Task \ {t} : task[u].why = "publish" => task[u].tmpl # task[t].tmpl
    BY DEF NameInv
  <2>8. CASE task'[t] = [task[t] EXCEPT !.at = "prev"]
    <3>1. k.at = "prev" /\ k.c = task[t].c /\ k.why = task[t].why /\ k.tmpl = task[t].tmpl
      BY <1>1, <2>8 DEF CallRec, CallFields
    <3>2. k.at \in Sending /\ task[t].at \in Sending
      BY <2>2, <3>1 DEF Sending
    <3> QED
      BY <1>1, <1>2, <1>3, <1>4, <1>5, <2>6, <2>7, <3>1, <3>2, NamePut
  <2>9. CASE Follows(t, next)
    <3>1. task[t].at \in Working
      BY <2>2 DEF Working
    <3>2. /\ k.at # "sent"
          /\ k.at \in Sending =>
                \/ chan'[k.c].raced
                \/ \A u \in Task \ {t} : ~(task[u].at \in Sending /\ task[u].c = k.c)
          /\ k.why = "publish" =>
                /\ k.at \in Sending /\ k.tmpl <= Newest
                /\ \A u \in Task \ {t} : task[u].why = "publish" => task[u].tmpl # k.tmpl
      BY <2>9, <3>1, FollowsAlone
    <3> QED
      BY <1>1, <1>2, <1>3, <1>4, <1>5, <2>6, <3>2, NamePut
  <2> QED
    BY <2>1, <2>8, <2>9
<1>13. CASE Ratchets(t)
  <2>1. \A c \in Channel : chan'[c].last = chan[c].last /\ chan'[c].misnamed = chan[c].misnamed
    BY <1>13 DEF Ratchets, SameJobs
  <2>2. k.at = "row" /\ k.why = "ratchet"
    BY <1>13 DEF Ratchets
  <2> QED
    BY <1>1, <1>2, <1>3, <1>4, <1>5, <2>1, <2>2, NamePut DEF Sending
<1>14. CASE Tells(t)
  <2>1. \A c \in Channel : chan'[c].last = chan[c].last /\ chan'[c].misnamed = chan[c].misnamed
    BY ZenonT(60), <1>14 DEF Tells, Retargeted, SameJobs
  <2>2. k.at \notin Sending /\ (k.why = "none" \/ k.why = task[t].why)
    BY <1>1, <1>6, <1>14 DEF Tells, CallRec, CallFields, Sending
  <2>3. k.why # "publish"
    BY <1>14, <2>2 DEF Tells, NameInv, Sending, Telling
  <2> QED
    BY <1>1, <1>2, <1>3, <1>4, <1>5, <2>1, <2>2, <2>3, NamePut DEF Sending
<1> QED
  BY <1>7, <1>8, <1>9, <1>10, <1>11, <1>12, <1>13, <1>14 DEF GoesOn

\* Nothing is sent.
LEMMA NameFrame ==
    ASSUME NameInv, UNCHANGED <<task, tmpls>>, Writable' => Writable,
           \A t \in Task : task[t].at \in Sending => task[t].c \in Channel,
           \A c \in Channel : /\ chan[c].raced => chan'[c].raced
                              /\ chan'[c].last = chan[c].last
                              /\ chan'[c].misnamed = chan[c].misnamed
    PROVE  NameInv'
<1>1. NewestIsNamed'
  BY DEF NameInv, NewestIsNamed
<1>2. ASSUME NEW t \in Task, Writable', task[t].at = "sent", ~chan'[task[t].c].raced
      PROVE  chan'[task[t].c].last = task[t].job
  BY <1>2 DEF NameInv, Sending
<1> QED
  BY <1>1, <1>2 DEF NameInv, Newest

LEMMA NameReceive == ASSUME Typed, Calls', NameInv, NEW t \in Task, Receive(t) PROVE NameInv'
<1>0. /\ Chans(chan) /\ DOMAIN task = Task /\ DOMAIN conn = ConnFields
      /\ Newest \in Nat
  BY DEF Typed, WorldTyped, Calls, ConnTyped, StoreTyped, Newest
<1>a. /\ \A u \in Task : task[u].tmpl \in Nat
      /\ \A u \in Task : task[u].at \in Sending => task[u].c \in Channel
      /\ \A u \in Task : task'[u].at \in Sending => task'[u].c \in Channel
  <2>1. ASSUME NEW u \in Task PROVE CallRec(task[u]) /\ CallRec(task'[u])
    BY DEF Typed, Calls, CallRec
  <2> QED
    BY <2>1 DEF CallRec, Sending, Working
<1> USE DEF base, world, ghost
<1>1. ASSUME NEW w \in BOOLEAN, SetupConnection(t, w) PROVE NameInv'
  <2>1. conn' = [conn EXCEPT !.workSel = w] /\ UNCHANGED <<chan, task, sock, tmpls>>
    BY <1>1 DEF SetupConnection
  <2>2. conn'.destroyed = conn.destroyed
    BY <1>0, <2>1 DEF ConnFields
  <2> QED
    BY <1>a, <2>1, <2>2, NameFrame DEF Writable
<1>2. ASSUME Unacceptable(t) \/ NoPrefix(t) PROVE NameInv'
  BY <1>a, <1>2, NameFrame DEF Unacceptable, NoPrefix, CloseSocket, Writable
<1>3. ASSUME NEW kind \in {"standard", "extended"}, Refuse(t, kind) PROVE NameInv'
  <2>1. /\ UNCHANGED <<chan, task, sock, tmpls>>
        /\ conn' = conn \/ conn' = [conn EXCEPT !.prefix = (NextPrefix % MaxPrefix) + 1,
                                                !.refused = @ \cup {NextPrefix}]
    BY <1>3 DEF Refuse
  <2>2. conn'.destroyed = conn.destroyed
    BY <1>0, <2>1 DEF ConnFields
  <2> QED
    BY <1>a, <2>1, <2>2, NameFrame DEF Writable
<1>4. ASSUME NEW kind \in {"standard", "extended"}, NEW rate \in env.rates,
             NEW limit \in env.limits, Open(t, kind, rate, limit)
      PROVE  NameInv'
  <2>0. PICK c : c = conn.next
    OBVIOUS
  <2>1. /\ c \in Channel /\ Writable /\ New(kind, rate, limit, chan'[c])
        /\ \A d \in Channel \ {c} : chan'[d] = chan[d]
        /\ task[t] = Idle /\ task' = [task EXCEPT ![t] = task'[t]]
        /\ task'[t].at \in {"success", "create", "entity"} /\ task'[t].why = "open"
    BY <1>4, <2>0, OpenIs
  <2>2. UNCHANGED tmpls
    BY <1>4 DEF Open
  <2>3. \A u \in Task : task[u].c # c
    BY <2>0, <2>1, ChannelIs DEF Typed, Calls
  <2>4. \A u \in Task \ {t} : task'[u] = task[u]
    BY <1>0, <2>1
  <2>5. task'[t].at \notin Sending
    BY <2>1 DEF Sending
  <2>6. \A d \in Channel \ {c} : ~chan'[d].misnamed
    BY <2>1 DEF NameInv, NewestIsNamed
  <2>7. ~chan'[c].misnamed
    BY <2>1 DEF New
  <2>8. NewestIsNamed'
    BY <2>6, <2>7 DEF NewestIsNamed
  <2>9. \A u \in Task : task'[u].at \in Sending =>
            u # t /\ task'[u] = task[u] /\ task[u].c \in Channel \ {c}
                  /\ chan'[task[u].c] = chan[task[u].c]
    BY <1>a, <2>1, <2>3, <2>4, <2>5
  <2>10. \A u \in Task : task'[u].why = "publish" => u # t /\ task'[u] = task[u]
    BY <2>1, <2>4
  <2>11. ASSUME NEW u \in Task, task'[u].at = "sent", ~chan'[task'[u].c].raced
         PROVE  chan'[task'[u].c].last = task'[u].job
    BY <2>1, <2>9, <2>11 DEF NameInv, Sending
  <2>12. ASSUME NEW u \in Task, NEW v \in Task, u # v, task'[u].at \in Sending,
                task'[v].at \in Sending, task'[u].c = task'[v].c
         PROVE  chan'[task'[u].c].raced
    BY <2>9, <2>12 DEF NameInv
  <2>13. ASSUME NEW u \in Task, task'[u].why = "publish"
         PROVE  task'[u].at \in Sending /\ task'[u].tmpl <= Newest'
    BY <2>2, <2>10, <2>13 DEF NameInv, Newest
  <2>14. ASSUME NEW u \in Task, NEW v \in Task, u # v, task'[u].why = "publish",
                task'[v].why = "publish"
         PROVE  task'[u].tmpl # task'[v].tmpl
    BY <2>10, <2>14 DEF NameInv
  <2> QED
    BY <2>8, <2>11, <2>12, <2>13, <2>14 DEF NameInv
<1>5. ASSUME NEW c \in Channel, CloseChannel(t, c) PROVE NameInv'
  <2>1. /\ UNCHANGED <<chan, task, sock, tmpls>> /\ Writable
    BY <1>5 DEF CloseChannel, Frame, Writable
  <2> QED
    BY <1>a, <2>1, NameFrame
<1>6. ASSUME NEW c \in Channel, NEW rate \in env.rates, NEW limit \in env.limits,
             Update(t, c, rate, limit)
      PROVE  NameInv'
  <2>1. /\ UNCHANGED <<task, sock, conn, tmpls>>
        /\ Updated(chan[c], chan'[c], rate, limit)
        /\ \A d \in Channel \ {c} : chan'[d] = chan[d]
    BY <1>6, UpdateIs
  <2>2. SameJobs(chan[c], chan'[c])
    BY <2>1 DEF Updated
  <2> QED
    BY <1>a, <2>1, <2>2, NameFrame DEF Writable, SameJobs
<1>7. ASSUME NEW c \in Channel, NEW tip, SetCustomMiningJob(t, c, tip) PROVE NameInv'
  <2>1. /\ UNCHANGED <<task, sock, tmpls>>
        /\ conn' = [conn EXCEPT !.custom = conn.custom + 1]
        /\ Customized(chan[c], chan'[c], tip)
        /\ \A d \in Channel \ {c} : chan'[d] = chan[d]
    BY <1>7, SetCustomMiningJobIs
  <2>2. conn'.destroyed = conn.destroyed
    BY <1>0, <2>1 DEF ConnFields
  <2>3. \A d \in Channel : /\ chan[d].raced => chan'[d].raced
                           /\ chan'[d].last = chan[d].last
                           /\ chan'[d].misnamed = chan[d].misnamed
    BY <2>1 DEF Customized
  <2> QED
    BY <1>a, <2>1, <2>2, <2>3, NameFrame DEF Writable
<1>8. ASSUME NEW c \in Channel, NEW j, NEW q, Submit(t, c, j, q) PROVE NameInv'
  <2> DEFINE k == [Idle EXCEPT !.at = "judge", !.why = "share", !.c = c, !.job = j, !.q = q]
  <2>1. Put(t, k) /\ UNCHANGED <<tmpls, chan, sock, conn>>
    BY <1>8 DEF Submit
  <2>2. k.at = "judge" /\ k.why = "share"
    BY DEF Idle
  <2> HIDE DEF k
  <2>3. /\ task'[t].at = "judge" /\ task'[t].why = "share"
        /\ \A u \in Task \ {t} : task'[u] = task[u]
    BY <2>1, <2>2, PutIs
  <2>4. \A d \in Channel : /\ chan[d].raced => chan'[d].raced
                           /\ ~chan'[d].misnamed /\ chan'[d].last = chan[d].last
    BY <2>1 DEF NameInv, NewestIsNamed
  <2>5. Newest' = Newest /\ (Writable' => Writable)
    BY <2>1 DEF Newest, Writable
  <2> QED
    BY <1>0, <1>a, <2>3, <2>4, <2>5, NamePut DEF Sending
<1> QED
  BY <1>1, <1>2, <1>3, <1>4, <1>5, <1>6, <1>7, <1>8 DEF Receive

LEMMA NameNext ==
    ASSUME Typed, Calls', ReleaseInv, NameInv, [Next]_vars PROVE NameInv'
<1>0. /\ Chans(chan) /\ DOMAIN task = Task /\ DOMAIN conn = ConnFields
      /\ Newest \in Nat
  BY DEF Typed, WorldTyped, Calls, ConnTyped, StoreTyped, Newest
<1>a. /\ \A u \in Task : task[u].tmpl \in Nat
      /\ \A u \in Task : task[u].at \in Sending => task[u].c \in Channel
      /\ \A u \in Task : task'[u].at \in Sending => task'[u].c \in Channel
  <2>1. ASSUME NEW u \in Task PROVE CallRec(task[u]) /\ CallRec(task'[u])
    BY DEF Typed, Calls, CallRec
  <2> QED
    BY <2>1 DEF CallRec, Sending, Working
<1> USE DEF base, world, ghost
<1>1. SUFFICES ASSUME Next PROVE NameInv'
  <2>1. ASSUME UNCHANGED vars PROVE NameInv'
    <3>1. UNCHANGED <<chan, task, sock, conn, tmpls>>
      BY <2>1 DEF vars
    <3> QED
      BY <1>a, <3>1, NameFrame DEF Writable
  <2> QED
    BY <2>1
<1>2. ASSUME NEW t \in Task,
             \/ Resume(t) \/ NoDistribution(t) \/ RecordFails(t) \/ Rejected(t)
             \/ \E rate \in env.rates : Check(t, rate)
      PROVE  NameInv'
  BY <1>2, GoesOnIs, ResumeSteady, Breaks, NameGoesOn
<1>3. ASSUME NEW t \in Task, Receive(t) PROVE NameInv'
  BY <1>3, NameReceive
<1>4. ASSUME Disconnect \/ Bury \/ Release \/ Tick \/ JdpChanges \/ \E s \in Schemes : Move(s)
      PROVE  NameInv'
  <2>1. /\ UNCHANGED <<chan, task, tmpls>>
        /\ sock' = "open" => sock = "open"
        /\ \/ conn' = conn \/ conn' = [conn EXCEPT !.destroyed = TRUE]
           \/ conn' = [conn EXCEPT !.registered = FALSE, !.sub = 0, !.timer = FALSE,
                                   !.primary = 0, !.leaky = @ \/ Orphan]
    BY <1>4 DEF Disconnect, Bury, Release, Tick, JdpChanges, Move, CloseSocket
  <2>2. conn.destroyed => conn'.destroyed
    BY <1>0, <2>1 DEF ConnFields
  <2> QED
    BY <1>a, <2>1, <2>2, NameFrame DEF Writable
<1>5. ASSUME NEW tip \in {store.tip, store.tip + 1}, NEW same \in BOOLEAN, Publish(tip, same)
      PROVE  NameInv'
  <2>1. tip \in Nat
    BY TipIs
  <2>2. /\ Settled(chan, chan') /\ UNCHANGED <<channels, sock, conn>>
        /\ UNCHANGED task \/ \E t \in Task : Announces(t)
    BY <1>5, <2>1, AnnouncesIs
  <2>3. Newest' = Newest + 1
    BY <1>0, <1>5 DEF Publish, Newest, Typed, StoreTyped
  <2>4. \A c \in Channel : /\ chan[c].raced => chan'[c].raced
                           /\ chan'[c].last = chan[c].last
                           /\ chan'[c].misnamed = chan[c].misnamed
    BY <2>2 DEF Settled, SameWork
  <2>5. Writable' => Writable
    BY <2>2 DEF Writable
  <2>6. \A c \in Channel : ~chan'[c].misnamed
    BY <2>4 DEF NameInv, NewestIsNamed
  <2>7. CASE UNCHANGED task
    <3>1. NewestIsNamed'
      BY <2>6 DEF NewestIsNamed
    <3>2. ASSUME NEW t \in Task, Writable', task[t].at = "sent", ~chan'[task[t].c].raced
          PROVE  chan'[task[t].c].last = task[t].job
      BY <1>a, <2>4, <2>5, <3>2 DEF NameInv, Sending
    <3>3. ASSUME NEW t \in Task, NEW u \in Task, t # u, task[t].at \in Sending,
                 task[u].at \in Sending, task[t].c = task[u].c
          PROVE  chan'[task[t].c].raced
      BY <1>a, <2>4, <3>3 DEF NameInv
    <3>4. ASSUME NEW t \in Task, task[t].why = "publish"
          PROVE  task[t].at \in Sending /\ task[t].tmpl <= Newest'
      BY <1>0, <1>a, <2>3, <3>4 DEF NameInv
    <3> QED
      BY <2>7, <3>1, <3>2, <3>3, <3>4 DEF NameInv
  <2>8. ASSUME NEW t \in Task, Announces(t) PROVE NameInv'
    <3> DEFINE k == task'[t]
    <3>1. PICK call : /\ call.why = "publish" /\ call.tmpl = Newest + 1
                      /\ k = Idle \/ Sends(0, chan', call, Newest + 1, k)
      BY <2>8 DEF Announces, Dispatched
    <3>2. \A u \in Task \ {t} : task'[u] = task[u]
      BY <1>0, <2>8 DEF Announces
    <3>3. \A u \in Task : task[u].why = "publish" => task[u].tmpl # Newest + 1
      BY <1>0, <1>a DEF NameInv
    <3>4. CASE k = Idle
      <4>1. k.at \notin Sending /\ k.why # "publish"
        BY <3>4 DEF Idle, Sending
      <4> QED
        BY <1>0, <1>a, <2>3, <2>4, <2>5, <2>6, <3>2, <4>1, NamePut DEF Sending
    <3>5. CASE Sends(0, chan', call, Newest + 1, k)
      <4>1. k.at = "payout" /\ k.why = "publish" /\ k.tmpl = Newest + 1
        BY <3>1, <3>5 DEF Sends
      <4>2. \/ chan'[k.c].raced
            \/ \A u \in Task \ {0} : ~(task[u].at \in Sending /\ task[u].c = k.c)
        BY <3>1, <3>3, <3>5, AloneIs
      <4>3. 0 \notin Task
        BY SessionAssumption DEF Task
      <4> QED
        BY <1>0, <1>a, <2>3, <2>4, <2>5, <2>6, <3>2, <3>3, <4>1, <4>2, <4>3, NamePut DEF Sending
    <3> QED
      BY <3>1, <3>4, <3>5
  <2> QED
    BY <2>2, <2>7, <2>8
<1> QED
  BY <1>1, <1>2, <1>3, <1>4, <1>5 DEF Next

-------------------------------------------------------------------------------
(* The session holds. *)

IInv == Typed /\ PrefixInv /\ ReleaseInv /\ WorkInv /\ ToldInv /\ NameInv

LEMMA Inductive == Spec => []IInv
<1>1. Init => IInv
  BY TypedInit, PrefixInit, ReleaseInit, WorkInit, ToldInit, NameInit DEF IInv
<1>2. IInv /\ [Next]_vars => IInv'
  <2> SUFFICES ASSUME IInv, [Next]_vars PROVE IInv'
    OBVIOUS
  <2> USE DEF IInv
  <2>1. Typed'
    BY TypedNext
  <2>2. Calls'
    BY <2>1 DEF Typed
  <2>3. PrefixInv' /\ ReleaseInv' /\ WorkInv' /\ ToldInv'
    BY PrefixNext, ReleaseNext, WorkNext, ToldStep
  <2>4. NameInv'
    BY <2>2, NameNext
  <2> QED
    BY <2>1, <2>3, <2>4
<1> QED
  BY <1>1, <1>2, PTL DEF Spec

LEMMA IInvImplies == IInv => SessionHolds
<1> SUFFICES ASSUME IInv PROVE SessionHolds
  OBVIOUS
<1>1. TypeOK /\ PrefixesAccounted /\ WorkIsProven /\ NewestIsNamed
  BY TypedImplies DEF IInv, PrefixInv, WorkInv, NameInv
<1>2. JudgedAsTold
  BY ToldImplies DEF IInv
<1>3. ReleasedWhenEmpty
  BY DEF IInv, ReleaseInv, ReleasedWhenEmpty
<1> QED
  BY <1>1, <1>2, <1>3 DEF SessionHolds, ChannelsSound

(* The channels of a connection are sound in every reachable state, whatever the  *)
(* miner sends, however the frames of the connection interleave with the templates *)
(* and the timer, and whenever the socket closes: every prefix in use is accounted *)
(* for, work is recorded for what it proves, a job is judged by a difficulty the   *)
(* miner was told, the newest job is the one that is named to it, and a connection *)
(* without channels holds nothing of the pool's.                                   *)
THEOREM SessionAlwaysHolds == Spec => []SessionHolds
  BY Inductive, IInvImplies, PTL

-------------------------------------------------------------------------------
(* Credited work: the invariant. *)

\* A job id that was given out; the miner of channel c was asked for job j, or the
\* job was made when nothing was written any more.
Before(j) == j \in Nat /\ j < store.nextJob
Given(c, j) == j \in DOMAIN chan[c].asked \/ (~Writable /\ Before(j))

Issued(c) ==
    /\ \A j \in DOMAIN chan[c].ext : Given(c, j)
    /\ \A j \in chan[c].roots : Given(c, j) /\ Before(j)

\* The job that t is about to record is a new one, unless its id is also that of a
\* custom job of the channel.
FreshJob(t) ==
    LET s == chan[task[t].c]
        j == task[t].job
    IN  /\ Before(j) /\ Given(task[t].c, j)
        /\ \A u \in Task \ {t} : task[u].at = "sent" => task[u].job # j
        /\ s.kind # "extended" => j \notin s.roots
        /\ s.kind = "extended" /\ j \in DOMAIN s.ext => j \in s.shared

\* Job j of a channel is none that was credited before and counts again: the channel
\* forgot it or it is retired, or it is one of those that are excused.
Over(s, j) ==
    /\ s.kind # "extended" => j \notin s.roots
    /\ s.kind = "extended" => \/ s.kept \/ j \in s.shared
                              \/ j \in DOMAIN s.ext => s.ext[j].retired # Active

\* The credited work is remembered, or its job is over, and will not be recorded again.
Once(w) ==
    LET c == w[1]
        j == w[2]
        s == chan[c]
    IN  /\ credits[w] \in Nat /\ c \in Channel /\ c < conn.next /\ Given(c, j)
        /\ s.kind # "extended" => Before(j)
        /\ \A t \in Task : task[t].at = "sent" /\ task[t].c = c /\ task[t].job = j
                                => s.kind = "extended" /\ j \in s.shared
        /\ <<j, w[3]>> \in s.seen \/ Over(s, j)

OnceInv ==
    /\ store.nextJob \in Nat
    /\ \A c \in Channel : Issued(c)
    /\ \A t \in Task : task[t].at = "sent" => FreshJob(t)
    /\ \A w \in DOMAIN credits : Once(w)

\* What a step may do to the work of a channel when only the jobs of J are new.
Reworked(r, s, J) ==
    /\ s.kind = r.kind /\ DOMAIN r.asked \subseteq DOMAIN s.asked /\ r.shared \subseteq s.shared
    /\ r.kept => s.kept
    /\ s.roots \subseteq r.roots \cup J
    /\ \A j \in DOMAIN s.ext \ J :
          j \in DOMAIN r.ext /\ (r.ext[j].retired # Active => s.ext[j].retired # Active)
    /\ \/ r.seen \subseteq s.seen
       \/ s.roots \subseteq J \ r.roots /\ (s.kept \/ \A j \in DOMAIN s.ext \ J : s.ext[j].retired # Active)

LEMMA SameWorkReworked ==
    ASSUME NEW r, NEW s, SameWork(r, s), clock \in Nat, NEW J PROVE Reworked(r, s, J)
  BY DEF SameWork, Reworked, NoneActive, Active

LEMMA ReworkedTrans ==
    ASSUME NEW r, NEW m, NEW s, NEW J, Reworked(r, m, J), SameWork(m, s), clock \in Nat
    PROVE  Reworked(r, s, J)
  BY DEF SameWork, Reworked, NoneActive, Active

LEMMA GivenStays ==
    ASSUME NEW c, NEW j, Given(c, j), DOMAIN chan[c].asked \subseteq DOMAIN chan'[c].asked,
           Writable' => Writable, store.nextJob \in Nat, store'.nextJob \in Nat,
           store'.nextJob >= store.nextJob
    PROVE  Given(c, j)' /\ (Before(j) => Before(j)')
  BY DEF Given, Before

\* A new job of channel c bears the id j, which may be that of credited work.
Harmless(c, j) ==
    IF chan'[c].kind = "extended" THEN j \in chan'[c].shared
    ELSE j \in chan'[c].roots => j \in chan[c].roots

\* Calls but t0 rest, channels but c0 have no new jobs, and its new ones are J.
Reworks(t0, c0, J) ==
    /\ store'.nextJob \in Nat /\ store'.nextJob >= store.nextJob /\ (Writable' => Writable)
    /\ conn'.next \in Nat /\ conn'.next >= conn.next
    /\ \A c \in Channel : \/ Reworked(chan[c], chan'[c], IF c = c0 THEN J ELSE {})
                          \/ c >= conn.next /\ Issued(c)'
    /\ \A u \in Task \ {t0} : task'[u] = task[u]
    /\ t0 \in Task /\ task'[t0].at = "sent" =>
            /\ FreshJob(t0)'
            /\ \A w \in DOMAIN credits :
                  w[1] = task'[t0].c /\ w[2] = task'[t0].job
                        => chan'[w[1]].kind = "extended" /\ w[2] \in chan'[w[1]].shared
    /\ \A w \in DOMAIN credits' : (w \in DOMAIN credits /\ credits'[w] = credits[w]) \/ Once(w)'
    /\ \A j \in J :
            /\ Given(c0, j)' /\ (j \in chan'[c0].roots => Before(j)')
            /\ (\E w \in DOMAIN credits : w[1] = c0 /\ w[2] = j) => Harmless(c0, j)
            /\ (\E u \in Task \ {t0} : task[u].at = "sent" /\ task[u].c = c0 /\ task[u].job = j)
                    => Harmless(c0, j)

LEMMA OnceStep ==
    ASSUME OnceInv, Typed, NEW t0, NEW c0, NEW J, Reworks(t0, c0, J)
    PROVE  OnceInv'
<1> USE DEF Reworks
<1>1. store.nextJob \in Nat /\ conn.next \in Nat /\ Channel \subseteq Nat
  BY ChannelIs DEF OnceInv, Typed, ConnTyped
<1>2. ASSUME NEW c \in Channel PROVE Issued(c)'
  <2>1. CASE Reworked(chan[c], chan'[c], IF c = c0 THEN J ELSE {})
    <3>1. DOMAIN chan[c].asked \subseteq DOMAIN chan'[c].asked
      BY <2>1 DEF Reworked
    <3>2. \A j : Given(c, j) => Given(c, j)' /\ (Before(j) => Before(j)')
      BY <1>1, <3>1, GivenStays
    <3>3. ASSUME NEW j \in DOMAIN chan'[c].ext PROVE Given(c, j)'
      BY <1>2, <2>1, <3>2 DEF Reworked, OnceInv, Issued
    <3>4. ASSUME NEW j \in chan'[c].roots PROVE Given(c, j)' /\ Before(j)'
      BY <1>2, <2>1, <3>2 DEF Reworked, OnceInv, Issued
    <3> QED
      BY <3>3, <3>4 DEF Issued
  <2> QED
    BY <1>2, <2>1
<1>3. ASSUME NEW u \in Task \ {t0}, task'[u].at = "sent" PROVE FreshJob(u)'
  <2> DEFINE j == task[u].job
             d == task[u].c
             r == chan[d]
             s == chan'[d]
             K == IF d = c0 THEN J ELSE {}
  <2>1. task'[u] = task[u] /\ task[u].at = "sent" /\ FreshJob(u)
    BY <1>3 DEF OnceInv
  <2>2. d \in Channel /\ d < conn.next
    BY <2>1 DEF Typed, Calls, CallRec, Working
  <2>a. ~(d >= conn.next)
    <3> HIDE DEF d
    <3> QED
      BY <1>1, <2>2
  <2>3. Reworked(r, s, K)
    BY <2>2, <2>a, Zenon
  <2>4. Given(d, j)' /\ Before(j)'
    <3>1. DOMAIN r.asked \subseteq DOMAIN s.asked
      BY <2>3 DEF Reworked
    <3> QED
      BY <1>1, <2>1, <3>1, GivenStays DEF FreshJob
  <2>5. ASSUME NEW v \in Task \ {u}, task'[v].at = "sent" PROVE task'[v].job # j
    <3>1. CASE v = t0
      BY <1>3, <2>1, <2>5, <3>1 DEF FreshJob
    <3>2. CASE v # t0
      BY <2>1, <2>5, <3>2 DEF FreshJob
    <3> QED
      BY <3>1, <3>2
  <2>6. j \in K => Harmless(d, j)
    BY <1>3, <2>1
  <2>7. /\ s.kind # "extended" => j \notin s.roots
        /\ s.kind = "extended" /\ j \in DOMAIN s.ext => j \in s.shared
    BY <2>1, <2>3, <2>6 DEF FreshJob, Reworked, Harmless
  <2>8. task'[u].c = d /\ task'[u].job = j
    BY <2>1
  <2> QED
    BY <2>4, <2>5, <2>7, <2>8 DEF FreshJob
<1>4. ASSUME NEW w \in DOMAIN credits', w \in DOMAIN credits, credits'[w] = credits[w]
      PROVE  Once(w)'
  <2> DEFINE c == w[1]
             j == w[2]
             r == chan[c]
             s == chan'[c]
             K == IF c = c0 THEN J ELSE {}
  <2>1. Once(w)
    BY <1>4 DEF OnceInv
  <2>a. credits[w] \in Nat /\ c \in Channel /\ c < conn.next
    BY <2>1 DEF Once
  <2>2. c \in Channel /\ c < conn'.next /\ credits'[w] \in Nat /\ ~(c >= conn.next)
    <3> HIDE DEF c
    <3> QED
      BY <1>1, <1>4, <2>a
  <2>3. Reworked(r, s, K)
    BY <2>2, Zenon
  <2>4. Given(c, j)' /\ (Before(j) => Before(j)')
    <3>1. DOMAIN r.asked \subseteq DOMAIN s.asked
      BY <2>3 DEF Reworked
    <3> QED
      BY <1>1, <2>1, <3>1, GivenStays DEF Once
  <2>5. s.kind = r.kind
    BY <2>3 DEF Reworked
  <2>6. j \in K => Harmless(c, j)
    BY <1>4
  <2>7. ASSUME NEW t \in Task, task'[t].at = "sent", task'[t].c = c, task'[t].job = j
        PROVE  s.kind = "extended" /\ j \in s.shared
    <3>1. CASE t = t0
      BY <1>4, <2>7, <3>1
    <3>2. CASE t # t0
      <4>1. r.kind = "extended" /\ j \in r.shared
        BY <2>1, <2>7, <3>2 DEF Once
      <4> QED
        BY <2>3, <4>1 DEF Reworked
    <3> QED
      BY <3>1, <3>2
  <2>8. <<j, w[3]>> \in s.seen \/ Over(s, j)
    <3>1. CASE <<j, w[3]>> \in r.seen
      BY <2>3, <2>6, <3>1 DEF Reworked, Over, Harmless
    <3>2. CASE Over(r, j)
      BY <2>3, <2>6, <3>2 DEF Reworked, Over, Harmless
    <3> QED
      BY <2>1, <3>1, <3>2 DEF Once
  <2> QED
    BY <2>1, <2>2, <2>4, <2>5, <2>7, <2>8 DEF Once
<1>5. \A w \in DOMAIN credits' : Once(w)'
  BY <1>4
<1>6. \A u \in Task : task'[u].at = "sent" => FreshJob(u)'
  BY <1>3
<1> QED
  BY <1>2, <1>5, <1>6 DEF OnceInv

\* A share is credited.
Credits(t) ==
    LET c == task[t].c
        j == task[t].job
        q == task[t].q
        work == <<c, j, q>>
    IN  /\ task[t].at = "judge" /\ c \in Channel
        /\ <<j, q>> \notin chan[c].seen /\ Known(c, j)
        /\ Classify(Entry(c, j), clock) # "stale-rejected"
        /\ <<j, q>> \in chan'[c].seen /\ task'[t].at # "sent"
        /\ credits' = With(credits, work, IF work \in DOMAIN credits THEN credits[work] + 1 ELSE 1)

\* The registry of jobs loses a job at most.
StoreShrinks ==
    /\ store'.nextJob = store.nextJob /\ store'.tip = store.tip
    /\ \A i \in DOMAIN store'.jobs : i \in DOMAIN store.jobs /\ store'.jobs[i] = store.jobs[i]

LEMMA CreditsIs ==
    ASSUME Typed, NEW t \in Task,
           \/ Resume(t) \/ NoDistribution(t) \/ RecordFails(t) \/ Rejected(t)
           \/ \E rate \in env.rates : Check(t, rate)
    PROVE  /\ credits' = credits \/ Credits(t)
           /\ StoreShrinks \/ (Writes(t) /\ task[t].at = "payout")
           /\ UNCHANGED <<clock, tmpls, turned>>
<1> USE DEF ghost, base
<1>0. store' = store => StoreShrinks
  BY DEF StoreShrinks
<1>1. CASE Judge(t)
  <2> DEFINE c == task[t].c
             j == task[t].job
             q == task[t].q
             pair == <<j, q>>
             work == <<c, j, q>>
             k == [task[t] EXCEPT !.at = "credited", !.diff = JudgedBy(c, j), !.entry = Entry(c, j)]
  <2>1. /\ task[t].at = "judge" /\ c \in Channel /\ ChanRec(chan[c]) /\ DOMAIN chan = Channel
        /\ CallRec(task[t]) /\ DOMAIN store = StoreFields
    BY <1>1, TypedCalls DEF Judge, Working, Typed, Chans, StoreTyped
  <2>2. /\ chan' = [chan EXCEPT ![c].seen = @ \cup {pair}]
        /\ UNCHANGED <<clock, tmpls, turned>>
        /\ \/ store' = store
           \/ store' = [store EXCEPT !.jobs = [i \in DOMAIN @ \ {j} |-> @[i]]]
        /\ \/ credits' = credits
           \/ /\ ~Duplicate(c, j, q) /\ Known(c, j)
              /\ Classify(Entry(c, j), clock) # "stale-rejected" /\ Put(t, k)
              /\ credits' = With(credits, work,
                                 IF work \in DOMAIN credits THEN credits[work] + 1 ELSE 1)
    BY <1>1 DEF Judge
  <2>3. pair \in chan'[c].seen
    <3> HIDE DEF pair, c
    <3> QED
      BY <2>1, <2>2 DEF ChanRec, ChanFields
  <2>4. StoreShrinks
    <3>1. CASE store' = [store EXCEPT !.jobs = [i \in DOMAIN @ \ {j} |-> @[i]]]
      <4> DEFINE jobs == [i \in DOMAIN store.jobs \ {j} |-> store.jobs[i]]
      <4>1. store' = [store EXCEPT !.jobs = jobs]
        BY <3>1
      <4>2. \A i \in DOMAIN jobs : i \in DOMAIN store.jobs /\ jobs[i] = store.jobs[i]
        OBVIOUS
      <4> HIDE DEF jobs
      <4> QED
        BY <2>1, <4>1, <4>2 DEF StoreShrinks, StoreFields
    <3> QED
      BY <1>0, <2>2, <3>1
  <2>5. Put(t, k) => task'[t].at # "sent"
    <3>1. k.at = "credited"
      BY <2>1 DEF CallRec, CallFields
    <3> HIDE DEF k
    <3> QED
      BY <3>1, PutIs
  <2> QED
    BY <2>1, <2>2, <2>3, <2>4, <2>5 DEF Credits, Duplicate
<1>2. CASE Payout(t)
  BY <1>0, <1>2, PayoutIs
<1>3. CASE Create(t) \/ Entity(t) \/ Success(t) \/ Sent(t) \/ Prevd(t)
  BY <1>0, <1>3 DEF Create, Entity, Success, Sent, Prevd
<1>4. CASE Tell(t) \/ SubmitBlock(t) \/ RecordShare(t) \/ AfterShare(t)
  BY <1>0, <1>4 DEF Tell, SubmitBlock, RecordShare, AfterShare
<1>5. CASE \/ NoDistribution(t) \/ RecordFails(t) \/ Rejected(t)
           \/ \E rate \in env.rates : Check(t, rate)
  BY <1>0, <1>5 DEF NoDistribution, RecordFails, Rejected, Check
<1> QED
  BY <1>1, <1>2, <1>3, <1>4, <1>5 DEF Resume

\* A share is credited: its job was given out, and its work is remembered.
LEMMA OnceCredited ==
    ASSUME OnceInv, Typed, NEW t \in Task, Credits(t), StoreShrinks, Writable' => Writable,
           conn'.next = conn.next, \A u \in Task \ {t} : task'[u] = task[u],
           \A c \in Channel : SameWork(chan[c], chan'[c]),
           NEW w \in DOMAIN credits'
    PROVE  (w \in DOMAIN credits /\ credits'[w] = credits[w]) \/ Once(w)'
<1>0. PICK c, j, q : c = task[t].c /\ j = task[t].job /\ q = task[t].q
  OBVIOUS
<1> DEFINE work == <<c, j, q>>
           n == IF work \in DOMAIN credits THEN credits[work] + 1 ELSE 1
           r == chan[c]
           s == chan'[c]
<1>1. /\ task[t].at = "judge" /\ c \in Channel /\ Known(c, j)
      /\ <<j, q>> \in s.seen /\ task'[t].at # "sent" /\ credits' = With(credits, work, n)
  BY <1>0 DEF Credits
<1>2. c < conn.next
  BY <1>0 DEF Typed, Calls
<1>3. /\ r.kind = "extended" => j \in DOMAIN r.ext
      /\ r.kind # "extended" => j \in r.roots
  BY <1>1 DEF Known
<1>4. Given(c, j) /\ (r.kind # "extended" => Before(j))
  BY <1>1, <1>3 DEF OnceInv, Issued
<1>5. s.kind = r.kind /\ DOMAIN s.asked = DOMAIN r.asked /\ s.shared = r.shared
  BY <1>1 DEF SameWork
<1>6. Given(c, j)' /\ (Before(j) => Before(j)')
  <2>1. /\ store.nextJob \in Nat /\ store'.nextJob \in Nat
        /\ store'.nextJob >= store.nextJob
    BY DEF OnceInv, StoreShrinks
  <2>2. DOMAIN chan[c].asked \subseteq DOMAIN chan'[c].asked
    BY <1>5
  <2> QED
    BY <1>4, <2>1, <2>2, GivenStays
<1>7. ASSUME NEW u \in Task, task'[u].at = "sent", task'[u].c = c, task'[u].job = j
      PROVE  s.kind = "extended" /\ j \in s.shared
  <2>1. u # t /\ task'[u] = task[u]
    BY <1>1, <1>7
  <2>2. FreshJob(u) /\ task[u].c = c /\ task[u].job = j
    BY <1>7, <2>1 DEF OnceInv
  <2> QED
    BY <1>3, <1>5, <2>2 DEF FreshJob
<1>8. n \in Nat
  <2>1. \A v \in DOMAIN credits : credits[v] \in Nat
    BY DEF OnceInv, Once
  <2> HIDE DEF work
  <2> QED
    BY <2>1
<1>9. CASE w = work
  <2>1. w[1] = c /\ w[2] = j /\ w[3] = q
    BY <1>9
  <2> HIDE DEF n, r, s, work
  <2>b. credits' = With(credits, work, n)
    BY <1>1
  <2>a. credits'[w] = n
    BY <1>9, <2>b DEF With
  <2>2. /\ credits'[w] \in Nat /\ c < conn'.next
    BY <1>2, <1>8, <2>a
  <2>3. s.kind # "extended" => Before(j)'
    BY <1>4, <1>5, <1>6 DEF r, s
  <2>4. Once(w)'
    BY <1>1, <1>6, <1>7, <2>1, <2>2, <2>3 DEF Once, s
  <2> QED
    BY <2>4
<1>10. CASE w # work
  <2> HIDE DEF n, work
  <2>b. credits' = With(credits, work, n)
    BY <1>1
  <2>1. DOMAIN credits' = DOMAIN credits \cup {work}
        /\ \A y \in DOMAIN credits : y # work => credits'[y] = credits[y]
    BY <2>b DEF With
  <2> QED
    BY <1>10, <2>1
<1> QED
  BY <1>9, <1>10

LEMMA SameWorkSelf == ASSUME NEW r PROVE SameWork(r, r)
  BY DEF SameWork

LEMMA SameJobsWork ==
    ASSUME NEW r, NEW s, SameJobs(r, s) PROVE SameWork(r, s)
  BY DEF SameJobs, SameWork

\* Only old work is touched, and it is forgotten or retired at most.
LEMMA OnceCalm ==
    ASSUME OnceInv, Typed, NEW t \in Task, StoreShrinks, Writable' => Writable,
           conn'.next = conn.next, \A u \in Task \ {t} : task'[u] = task[u],
           task'[t].at # "sent", \A c \in Channel : SameWork(chan[c], chan'[c]),
           credits' = credits \/ Credits(t)
    PROVE  OnceInv'
<1>1. clock \in Nat /\ conn.next \in Nat
  BY DEF Typed, WorldTyped, ConnTyped
<1>2. \A c \in Channel : Reworked(chan[c], chan'[c], IF c = 0 THEN {} ELSE {})
  BY <1>1, SameWorkReworked
<1>3. store'.nextJob \in Nat /\ store'.nextJob >= store.nextJob
  BY DEF OnceInv, StoreShrinks
<1>4. \A w \in DOMAIN credits' :
        (w \in DOMAIN credits /\ credits'[w] = credits[w]) \/ Once(w)'
  <2>1. CASE Credits(t)
    BY <2>1, OnceCredited
  <2> QED
    BY <2>1
<1>5. Reworks(t, 0, {})
  BY <1>1, <1>2, <1>3, <1>4 DEF Reworks
<1> QED
  BY <1>5, OnceStep

LEMMA OnceWritten ==
    ASSUME OnceInv, Typed, NEW t \in Task, Writes(t), task[t].c \in Channel,
           Writable' => Writable, conn'.next = conn.next,
           \A u \in Task \ {t} : task'[u] = task[u], credits' = credits
    PROVE  OnceInv'
<1>0. PICK c, j : c = task[t].c /\ j = store.nextJob
  OBVIOUS
<1> DEFINE r == chan[c]
           s == chan'[c]
<1>1. /\ c \in Channel /\ CallRec(task[t]) /\ DOMAIN store = StoreFields /\ j \in Nat
      /\ conn.next \in Nat
  BY <1>0, TypedCalls DEF Typed, StoreTyped, OnceInv, ConnTyped
<1>2. /\ Written(t, r, s) /\ \A d \in Channel \ {c} : chan'[d] = chan[d]
      /\ store' = AddJob(store, StoreJob(task[t].built, task[t].route))
      /\ task'[t] = [task[t] EXCEPT !.at = "sent", !.job = j] /\ UNCHANGED conn
  BY <1>0 DEF Writes
<1>3. store'.nextJob = j + 1
  <2>1. "nextJob" \in DOMAIN store
    BY <1>1 DEF StoreFields
  <2> QED
    BY <1>0, <1>2, <2>1 DEF AddJob
<1>4. task'[t].at = "sent" /\ task'[t].c = c /\ task'[t].job = j
  BY <1>0, <1>1, <1>2 DEF CallRec, CallFields
<1>5. /\ s.kind = r.kind /\ s.roots = r.roots /\ s.ext = r.ext /\ s.seen = r.seen
      /\ s.kept = r.kept /\ s.shared = r.shared \cup ({j} \cap DOMAIN r.asked)
      /\ s.asked = (IF Writable THEN With(r.asked, j, {r.told}) ELSE r.asked)
  BY <1>0, <1>2 DEF Written
<1>6. DOMAIN s.asked = IF Writable THEN DOMAIN r.asked \cup {j} ELSE DOMAIN r.asked
  BY <1>5 DEF With
<1>7. \A d \in Channel : Reworked(chan[d], chan'[d], IF d = c THEN {} ELSE {})
  <2>1. Reworked(r, s, {})
    BY <1>5, <1>6 DEF Reworked
  <2>2. \A d \in Channel \ {c} : Reworked(chan[d], chan'[d], {})
    BY <1>2 DEF Reworked
  <2> QED
    BY <2>1, <2>2
<1>8. Before(j)'
  BY <1>1, <1>3 DEF Before
<1>9. Given(c, j)'
  BY <1>6, <1>8 DEF Given
<1>10. j \in DOMAIN r.asked \/ ~Given(c, j)
  BY <1>0, <1>1 DEF Given, Before
<1>11. FreshJob(t)'
  <2>1. ASSUME NEW u \in Task \ {t}, task'[u].at = "sent" PROVE task'[u].job # j
    BY <1>0, <1>1, <2>1 DEF OnceInv, FreshJob, Before
  <2>2. r.kind # "extended" => j \notin r.roots
    BY <1>0, <1>1 DEF OnceInv, Issued, Before
  <2>3. r.kind = "extended" /\ j \in DOMAIN r.ext => j \in s.shared
    BY <1>1, <1>5, <1>10 DEF OnceInv, Issued
  <2> QED
    BY <1>4, <1>5, <1>8, <1>9, <2>1, <2>2, <2>3 DEF FreshJob
<1>12. ASSUME NEW w \in DOMAIN credits, w[1] = c, w[2] = j
       PROVE  chan'[w[1]].kind = "extended" /\ w[2] \in chan'[w[1]].shared
  <2>1. Given(c, j) /\ (r.kind # "extended" => Before(j))
    BY <1>12 DEF OnceInv, Once
  <2>2. r.kind = "extended"
    BY <1>0, <1>1, <2>1 DEF Before
  <2> QED
    BY <1>5, <1>10, <1>12, <2>1, <2>2
<1>13. /\ store'.nextJob \in Nat /\ store'.nextJob >= store.nextJob
       /\ conn'.next \in Nat /\ conn'.next >= conn.next
  BY <1>0, <1>1, <1>3
<1>14. \A w \in DOMAIN credits : w[1] = task'[t].c /\ w[2] = task'[t].job
            => chan'[w[1]].kind = "extended" /\ w[2] \in chan'[w[1]].shared
  BY <1>4, <1>12
<1>15. \A w \in DOMAIN credits' :
        (w \in DOMAIN credits /\ credits'[w] = credits[w]) \/ Once(w)'
  OBVIOUS
<1> HIDE DEF r, s
<1>16. Reworks(t, c, {})
  BY <1>7, <1>11, <1>13, <1>14, <1>15, Zenon DEF Reworks
<1> QED
  BY <1>16, OnceStep

LEMMA OnceRecorded ==
    ASSUME OnceInv, Typed, NEW t \in Task, Records(t), StoreShrinks,
           Writable' => Writable, conn'.next = conn.next,
           \A u \in Task \ {t} : task'[u] = task[u], credits' = credits
    PROVE  OnceInv'
<1>0. PICK c, j : c = task[t].c /\ j = task[t].job
  OBVIOUS
<1>1. /\ c \in Channel /\ CallRec(task[t]) /\ conn.next \in Nat /\ clock \in Nat
      /\ task[t].at = "sent" /\ FreshJob(t)
  BY <1>0, TypedCalls DEF Typed, ConnTyped, WorldTyped, Records, OnceInv
<1>2. PICK next :
        /\ IsRecorded(t, chan[c], next[c]) /\ \A d \in Channel \ {c} : next[d] = chan[d]
        /\ \/ chan' = next /\ task'[t] = [task[t] EXCEPT !.at = "prev"]
           \/ Follows(t, next)
  BY <1>0 DEF Records
<1>3. /\ task'[t].at # "sent"
      /\ \A d \in Channel : chan'[d] = next[d] \/ SameWork(next[d], chan'[d])
  BY <1>1, <1>2, FollowsIs DEF CallRec, CallFields
<1>4. Reworked(chan[c], next[c], {j})
  <2> DEFINE r == chan[c]
             m == next[c]
             job == ExtJob(task[t].tmpl, task[t].built, PrevHash(t), task[t].route, After(r.ext))
  <2>1. /\ m.kind = r.kind /\ m.asked = r.asked /\ m.shared = r.shared /\ m.kept = r.kept
        /\ m.seen = r.seen /\ m.roots \subseteq r.roots \cup {j}
        /\ m.ext = r.ext \/ m.ext = With(r.ext, j, job)
    BY <1>0, <1>2 DEF IsRecorded
  <2> HIDE DEF job, m, r
  <2>2. \A i \in DOMAIN m.ext \ {j} : i \in DOMAIN r.ext /\ m.ext[i] = r.ext[i]
    BY <2>1 DEF With
  <2>3. Reworked(r, m, {j})
    BY <2>1, <2>2 DEF Reworked
  <2> QED
    BY <2>3 DEF r, m
<1>5. \A d \in Channel : Reworked(chan[d], chan'[d], IF d = c THEN {j} ELSE {})
  <2>1. Reworked(chan[c], chan'[c], {j})
    BY <1>1, <1>3, <1>4, ReworkedTrans
  <2>2. ASSUME NEW d \in Channel \ {c} PROVE Reworked(chan[d], chan'[d], {})
    <3>1. Reworked(chan[d], next[d], {})
      BY <1>2 DEF Reworked
    <3> QED
      BY <1>1, <1>3, <3>1, ReworkedTrans
  <2> QED
    BY <2>1, <2>2
<1>6. /\ store.nextJob \in Nat /\ store'.nextJob \in Nat /\ store'.nextJob >= store.nextJob
  BY DEF OnceInv, StoreShrinks
<1>7. Given(c, j)' /\ Before(j)'
  <2>1. Given(c, j) /\ Before(j)
    BY <1>0, <1>1 DEF FreshJob
  <2>2. DOMAIN chan[c].asked \subseteq DOMAIN chan'[c].asked
    BY <1>1, <1>5 DEF Reworked
  <2> QED
    BY <1>6, <2>1, <2>2, GivenStays
<1>8. ASSUME NEW w \in DOMAIN credits, w[1] = c, w[2] = j
      PROVE  chan'[c].kind = "extended" /\ j \in chan'[c].shared
  <2>1. chan[c].kind = "extended" /\ j \in chan[c].shared
    BY <1>0, <1>1, <1>8 DEF OnceInv, Once
  <2> QED
    BY <1>1, <1>5, <2>1 DEF Reworked
<1>9. \A u \in Task \ {t} : ~(task[u].at = "sent" /\ task[u].job = j)
  BY <1>0, <1>1 DEF FreshJob
<1>10. conn'.next \in Nat /\ conn'.next >= conn.next
  BY <1>1
<1>11. \A w \in DOMAIN credits' :
        (w \in DOMAIN credits /\ credits'[w] = credits[w]) \/ Once(w)'
  OBVIOUS
<1>12. ~(t \in Task /\ task'[t].at = "sent")
  BY <1>3
<1>13. \A i \in {j} :
        /\ Given(c, i)' /\ (i \in chan'[c].roots => Before(i)')
        /\ (\E w \in DOMAIN credits : w[1] = c /\ w[2] = i) => Harmless(c, i)
        /\ (\E u \in Task \ {t} : task[u].at = "sent" /\ task[u].c = c /\ task[u].job = i)
                => Harmless(c, i)
  <2>1. Given(c, j)' /\ (j \in chan'[c].roots => Before(j)')
    BY <1>7
  <2>2. (\E w \in DOMAIN credits : w[1] = c /\ w[2] = j) => Harmless(c, j)
    BY <1>8 DEF Harmless
  <2>3. ~\E u \in Task \ {t} : task[u].at = "sent" /\ task[u].c = c /\ task[u].job = j
    BY <1>9
  <2> QED
    BY <2>1, <2>2, <2>3
<1>14. Reworks(t, c, {j})
  BY <1>5, <1>6, <1>10, <1>11, <1>12, <1>13, Zenon DEF Reworks
<1> QED
  BY <1>14, OnceStep

\* A call that goes on writes a job, records one, or touches old work only.
LEMMA Touches ==
    ASSUME Typed, NEW t \in Task, GoesOn(t)
    PROVE  \/ Writes(t) /\ task[t].at = "payout"
           \/ Records(t)
           \/ task'[t].at # "sent" /\ \A c \in Channel : SameWork(chan[c], chan'[c])
<1>0. CallRec(task[t])
  BY TypedCalls
<1>1. CASE Quiet(t) \/ Starts(t)
  BY <1>1 DEF Quiet, Settled, Sending, Starts, Sends
<1>2. CASE Succeeds(t)
  <2>1. task'[t].at = "success"
    BY <1>0, <1>2 DEF Succeeds, CallRec, CallFields
  <2>2. \A c \in Channel : SameJobs(chan[c], chan'[c])
    BY <1>2 DEF Succeeds, Retargeted, SameJobs
  <2> QED
    BY <2>1, <2>2, SameJobsWork
<1>3. CASE Skips(t)
  <2>1. PICK ch : Settled(chan, ch) /\ Follows(t, ch)
    BY <1>3 DEF Skips
  <2>2. Settled(chan, chan')
    BY <2>1, SettledTrans DEF Follows
  <2> QED
    BY <2>1, <2>2, FollowsIs DEF Settled
<1>4. CASE Ratchets(t)
  BY <1>4, SameJobsWork DEF Ratchets
<1>5. CASE Tells(t)
  <2>1. CASE chan' = chan /\ task'[t] = Idle
    BY <2>1, SameWorkSelf DEF Idle
  <2>2. ASSUME NEW c \in channels, SameJobs(chan[c], chan'[c]),
               \A d \in Channel \ {c} : chan'[d] = chan[d],
               task'[t] = [task[t] EXCEPT !.at = "targets", !.c = c]
        PROVE  task'[t].at # "sent" /\ \A d \in Channel : SameWork(chan[d], chan'[d])
    BY <1>0, <2>2, SameJobsWork, SameWorkSelf DEF CallRec, CallFields
  <2>3. \/ chan' = chan /\ task'[t] = Idle
        \/ \E c \in channels :
              /\ SameJobs(chan[c], chan'[c]) /\ \A d \in Channel \ {c} : chan'[d] = chan[d]
              /\ task'[t] = [task[t] EXCEPT !.at = "targets", !.c = c]
    BY <1>5 DEF Tells, Retargeted
  <2> QED
    BY <2>1, <2>2, <2>3
<1> QED
  BY <1>1, <1>2, <1>3, <1>4, <1>5 DEF GoesOn

LEMMA OnceGoesOn ==
    ASSUME Typed, OnceInv, NEW t \in Task, GoesOn(t), Steady(t),
           sock' = "open" => sock = "open", credits' = credits \/ Credits(t),
           StoreShrinks \/ (Writes(t) /\ task[t].at = "payout")
    PROVE  OnceInv'
<1>0. task[t].at \in Working => task[t].c \in Channel
  BY TypedCalls
<1>1. /\ Writable' => Writable
      /\ conn'.next = conn.next /\ \A u \in Task \ {t} : task'[u] = task[u]
  BY DEF Steady, Writable
<1>2. CASE Writes(t) /\ task[t].at = "payout"
  BY <1>0, <1>1, <1>2, OnceWritten DEF Credits, Working
<1>3. CASE Records(t) /\ StoreShrinks
  <2>1. credits' = credits
    BY <1>3 DEF Records, Credits
  <2> QED
    BY <1>1, <1>3, <2>1, OnceRecorded
<1>4. CASE /\ StoreShrinks /\ task'[t].at # "sent"
           /\ \A c \in Channel : SameWork(chan[c], chan'[c])
  BY <1>1, <1>4, OnceCalm
<1> QED
  BY <1>2, <1>3, <1>4, Touches

\* Nothing is credited, written or recorded.
LEMMA OnceFrame ==
    ASSUME OnceInv, Typed, NEW t, store'.nextJob = store.nextJob, Writable' => Writable,
           conn'.next = conn.next, \A u \in Task \ {t} : task'[u] = task[u],
           ~(t \in Task /\ task'[t].at = "sent"),
           \A c \in Channel : SameWork(chan[c], chan'[c]), credits' = credits
    PROVE  OnceInv'
<1>1. clock \in Nat /\ conn.next \in Nat
  BY DEF Typed, WorldTyped, ConnTyped
<1>2. \A c \in Channel : Reworked(chan[c], chan'[c], IF c = 0 THEN {} ELSE {})
  BY <1>1, SameWorkReworked
<1>3. store'.nextJob \in Nat /\ store'.nextJob >= store.nextJob
  BY DEF OnceInv
<1>4. \A w \in DOMAIN credits' :
        (w \in DOMAIN credits /\ credits'[w] = credits[w]) \/ Once(w)'
  OBVIOUS
<1>5. Reworks(t, 0, {})
  BY <1>1, <1>2, <1>3, <1>4 DEF Reworks
<1> QED
  BY <1>5, OnceStep

\* A channel is opened: it has no jobs.
LEMMA OnceOpened ==
    ASSUME OnceInv, Typed, NEW t \in Task, NEW kind \in {"standard", "extended"},
           NEW rate \in env.rates, NEW limit \in env.limits, Open(t, kind, rate, limit)
    PROVE  OnceInv'
<1>0. PICK c : c = conn.next
  OBVIOUS
<1>1. /\ c \in Channel /\ New(kind, rate, limit, chan'[c])
      /\ \A d \in Channel \ {c} : chan'[d] = chan[d]
      /\ task' = [task EXCEPT ![t] = task'[t]]
      /\ task'[t].at \in {"success", "create", "entity"}
  BY <1>0, OpenIs
<1>2. /\ conn'.next = c + 1 /\ c \in Nat
      /\ UNCHANGED <<store, clock, credits>> /\ Writable
  <2>1. DOMAIN conn = ConnFields /\ c \in Nat
    BY <1>0 DEF Typed, ConnTyped
  <2> QED
    BY <1>0, <2>1 DEF Open, Frame, Writable, ConnFields, base, ghost
<1>3. \A u \in Task \ {t} : task'[u] = task[u]
  BY <1>1 DEF Typed, Calls
<1>4. Issued(c)'
  BY <1>1 DEF Issued, New, Empty
<1>5. ASSUME NEW d \in Channel
      PROVE  \/ Reworked(chan[d], chan'[d], IF d = 0 THEN {} ELSE {})
             \/ d >= conn.next /\ Issued(d)'
  <2>1. CASE d = c
    BY <1>0, <1>2, <1>4, <2>1
  <2>2. CASE d # c
    BY <1>1, <2>2 DEF Reworked
  <2> QED
    BY <2>1, <2>2
<1>6. /\ store'.nextJob \in Nat /\ store'.nextJob >= store.nextJob
      /\ conn'.next \in Nat /\ conn'.next >= conn.next
  BY <1>0, <1>2 DEF OnceInv
<1>7. ~(t \in Task /\ task'[t].at = "sent")
  BY <1>1
<1>8. \A w \in DOMAIN credits' :
        (w \in DOMAIN credits /\ credits'[w] = credits[w]) \/ Once(w)'
  BY <1>2
<1>9. Reworks(t, 0, {})
  BY <1>2, <1>3, <1>5, <1>6, <1>7, <1>8, Zenon DEF Reworks
<1> QED
  BY <1>9, OnceStep

\* A custom job that bears the id of a job the miner was asked for shares it.
LEMMA OnceCustomized ==
    ASSUME OnceInv, Typed, NEW t \in Task, NEW c \in Channel, NEW tip,
           SetCustomMiningJob(t, c, tip)
    PROVE  OnceInv'
<1>0. PICK j : j = conn.custom
  OBVIOUS
<1> DEFINE r == chan[c]
           s == chan'[c]
           job == ExtJob(0, 0, tip, "none", After(r.ext))
<1>1. /\ Writable /\ UNCHANGED <<store, clock, credits, task, sock>>
      /\ conn' = [conn EXCEPT !.custom = j + 1]
      /\ Customized(r, s, tip) /\ \A d \in Channel \ {c} : chan'[d] = chan[d]
  BY <1>0, SetCustomMiningJobIs DEF base, ghost
<1>2. conn'.next = conn.next /\ conn.next \in Nat
  <2>1. DOMAIN conn = ConnFields /\ conn.next \in Nat
    BY DEF Typed, ConnTyped
  <2> QED
    BY <1>1, <2>1 DEF ConnFields
<1>3. /\ s.kind = r.kind /\ s.roots = r.roots /\ s.kept = r.kept /\ s.seen = r.seen
      /\ s.ext = With(r.ext, j, job) /\ s.asked = With(r.asked, j, {r.told})
      /\ s.shared = r.shared \cup ({j} \cap DOMAIN r.asked)
  BY <1>0, <1>1 DEF Customized
<1> HIDE DEF job
<1>4. /\ DOMAIN s.asked = DOMAIN r.asked \cup {j}
      /\ \A i \in DOMAIN s.ext \ {j} : i \in DOMAIN r.ext /\ s.ext[i] = r.ext[i]
  BY <1>3 DEF With
<1>5. Reworked(r, s, {j})
  BY <1>3, <1>4 DEF Reworked
<1>6. ASSUME NEW d \in Channel PROVE Reworked(chan[d], chan'[d], IF d = c THEN {j} ELSE {})
  <2>1. CASE d = c
    BY <1>5, <2>1
  <2>2. CASE d # c
    BY <1>1, <2>2 DEF Reworked
  <2> QED
    BY <2>1, <2>2
<1>7. Given(c, j)'
  BY <1>4 DEF Given
<1>8. j \in s.roots => Before(j)'
  BY <1>1, <1>3 DEF OnceInv, Issued, Before
<1>9. Given(c, j) => j \in s.shared
  BY <1>1, <1>3 DEF Given
<1>a. j \in r.shared => j \in s.shared
  BY <1>3
<1>10. Harmless(c, j) \/ ~Given(c, j)
  BY <1>3, <1>9 DEF Harmless
<1>11. \A i \in {j} :
        /\ Given(c, i)' /\ (i \in chan'[c].roots => Before(i)')
        /\ (\E w \in DOMAIN credits : w[1] = c /\ w[2] = i) => Harmless(c, i)
        /\ (\E u \in Task \ {0} : task[u].at = "sent" /\ task[u].c = c /\ task[u].job = i)
                => Harmless(c, i)
  <2>1. Given(c, j)' /\ (j \in chan'[c].roots => Before(j)')
    BY <1>7, <1>8
  <2>2. (\E w \in DOMAIN credits : w[1] = c /\ w[2] = j) => Harmless(c, j)
    BY <1>10 DEF OnceInv, Once
  <2>3. (\E u \in Task \ {0} : task[u].at = "sent" /\ task[u].c = c /\ task[u].job = j)
            => Harmless(c, j)
    BY <1>10 DEF OnceInv, FreshJob
  <2> QED
    BY <2>1, <2>2, <2>3
<1>12. /\ store'.nextJob \in Nat /\ store'.nextJob >= store.nextJob
       /\ conn'.next \in Nat /\ conn'.next >= conn.next /\ (Writable' => Writable)
  BY <1>1, <1>2 DEF OnceInv
<1>13. \A w \in DOMAIN credits' :
        (w \in DOMAIN credits /\ credits'[w] = credits[w]) \/ Once(w)'
  BY <1>1
<1>14. 0 \notin Task /\ \A u \in Task \ {0} : task'[u] = task[u]
  BY <1>1 DEF Task
<1> HIDE DEF r, s
<1>15. Reworks(0, c, {j})
  BY <1>6, <1>11, <1>12, <1>13, <1>14, Zenon DEF Reworks
<1> QED
  BY <1>15, OnceStep

LEMMA OnceReceive == ASSUME OnceInv, Typed, NEW t \in Task, Receive(t) PROVE OnceInv'
<1>0. DOMAIN conn = ConnFields /\ DOMAIN task = Task /\ 0 \notin Task
  BY DEF Typed, ConnTyped, Calls, Task
<1> USE DEF base, world, ghost
<1>a. ASSUME UNCHANGED <<store, chan, credits>>, Writable' => Writable,
             conn'.next = conn.next, UNCHANGED task
      PROVE  OnceInv'
  <2>1. \A u \in Task \ {0} : task'[u] = task[u]
    BY <1>a
  <2>2. \A c \in Channel : SameWork(chan[c], chan'[c])
    BY <1>a, SameWorkSelf
  <2> QED
    BY <1>0, <1>a, <2>1, <2>2, OnceFrame
<1>1. ASSUME NEW w \in BOOLEAN, SetupConnection(t, w) PROVE OnceInv'
  <2>1. conn' = [conn EXCEPT !.workSel = w] /\ UNCHANGED <<store, chan, credits, task, sock>>
    BY <1>1 DEF SetupConnection
  <2>2. conn'.next = conn.next /\ conn'.destroyed = conn.destroyed
    BY <1>0, <2>1 DEF ConnFields
  <2> QED
    BY <1>a, <2>1, <2>2 DEF Writable
<1>2. ASSUME Unacceptable(t) \/ NoPrefix(t) PROVE OnceInv'
  BY <1>a, <1>2 DEF Unacceptable, NoPrefix, CloseSocket, Writable
<1>3. ASSUME NEW kind \in {"standard", "extended"}, Refuse(t, kind) PROVE OnceInv'
  <2>1. /\ UNCHANGED <<store, chan, credits, task, sock>>
        /\ conn' = conn \/ conn' = [conn EXCEPT !.prefix = (NextPrefix % MaxPrefix) + 1,
                                                !.refused = @ \cup {NextPrefix}]
    BY <1>3 DEF Refuse
  <2>2. conn'.next = conn.next /\ conn'.destroyed = conn.destroyed
    BY <1>0, <2>1 DEF ConnFields
  <2> QED
    BY <1>a, <2>1, <2>2 DEF Writable
<1>4. ASSUME NEW kind \in {"standard", "extended"}, NEW rate \in env.rates,
             NEW limit \in env.limits, Open(t, kind, rate, limit)
      PROVE  OnceInv'
  BY <1>4, OnceOpened
<1>5. ASSUME NEW c \in Channel, CloseChannel(t, c) PROVE OnceInv'
  <2>1. /\ UNCHANGED <<store, chan, credits, task, sock>> /\ Writable
        /\ \E p, s, l, m : conn' = [conn EXCEPT !.primary = p, !.sub = s, !.timer = l, !.leaky = m]
    BY <1>5 DEF CloseChannel, Frame, Writable
  <2>2. conn'.next = conn.next
    BY <1>0, <2>1 DEF ConnFields
  <2> QED
    BY <1>a, <2>1, <2>2
<1>6. ASSUME NEW c \in Channel, NEW rate \in env.rates, NEW limit \in env.limits,
             Update(t, c, rate, limit)
      PROVE  OnceInv'
  <2>1. /\ UNCHANGED <<task, sock, conn, store, credits>>
        /\ Updated(chan[c], chan'[c], rate, limit)
        /\ \A d \in Channel \ {c} : chan'[d] = chan[d]
    BY <1>6, UpdateIs DEF Update
  <2>2. SameJobs(chan[c], chan'[c])
    BY <2>1 DEF Updated
  <2>3. \A d \in Channel : SameWork(chan[d], chan'[d])
    BY <2>1, <2>2, SameJobsWork, SameWorkSelf
  <2>4. \A u \in Task \ {0} : task'[u] = task[u]
    BY <2>1
  <2> QED
    BY <1>0, <2>1, <2>3, <2>4, OnceFrame DEF Writable
<1>7. ASSUME NEW c \in Channel, NEW tip, SetCustomMiningJob(t, c, tip) PROVE OnceInv'
  BY <1>7, OnceCustomized
<1>8. ASSUME NEW c \in Channel, NEW j, NEW q, Submit(t, c, j, q) PROVE OnceInv'
  <2> DEFINE k == [Idle EXCEPT !.at = "judge", !.why = "share", !.c = c, !.job = j, !.q = q]
  <2>1. Put(t, k) /\ UNCHANGED <<store, chan, credits, sock, conn>>
    BY <1>8 DEF Submit
  <2>2. k.at = "judge"
    BY DEF Idle
  <2> HIDE DEF k
  <2>3. task'[t].at = "judge" /\ \A u \in Task \ {t} : task'[u] = task[u]
    BY <2>1, <2>2, PutIs
  <2>4. \A d \in Channel : SameWork(chan[d], chan'[d])
    BY <2>1, SameWorkSelf
  <2> QED
    BY <2>1, <2>3, <2>4, OnceFrame DEF Writable
<1> QED
  BY <1>1, <1>2, <1>3, <1>4, <1>5, <1>6, <1>7, <1>8 DEF Receive

LEMMA OnceNext == ASSUME OnceInv, Typed, ReleaseInv, [Next]_vars PROVE OnceInv'
<1>0. DOMAIN conn = ConnFields /\ DOMAIN task = Task /\ 0 \notin Task
  BY DEF Typed, ConnTyped, Calls, Task
<1> USE DEF base, world, ghost
<1>a. ASSUME UNCHANGED <<store, chan, credits>>, Writable' => Writable,
             conn'.next = conn.next, UNCHANGED task
      PROVE  OnceInv'
  <2>1. \A u \in Task \ {0} : task'[u] = task[u]
    BY <1>a
  <2>2. \A c \in Channel : SameWork(chan[c], chan'[c])
    BY <1>a, SameWorkSelf
  <2> QED
    BY <1>0, <1>a, <2>1, <2>2, OnceFrame
<1>1. SUFFICES ASSUME Next PROVE OnceInv'
  BY <1>a DEF vars, Writable
<1>2. ASSUME NEW t \in Task,
             \/ Resume(t) \/ NoDistribution(t) \/ RecordFails(t) \/ Rejected(t)
             \/ \E rate \in env.rates : Check(t, rate)
      PROVE  OnceInv'
  BY <1>2, GoesOnIs, ResumeSteady, Breaks, CreditsIs, OnceGoesOn
<1>3. ASSUME NEW t \in Task, Receive(t) PROVE OnceInv'
  BY <1>3, OnceReceive
<1>4. ASSUME Disconnect \/ Bury \/ Release \/ Tick \/ JdpChanges \/ \E s \in Schemes : Move(s)
      PROVE  OnceInv'
  <2>1. /\ UNCHANGED <<store, chan, task, credits>>
        /\ sock' = "open" => sock = "open"
        /\ \/ conn' = conn \/ conn' = [conn EXCEPT !.destroyed = TRUE]
           \/ conn' = [conn EXCEPT !.registered = FALSE, !.sub = 0, !.timer = FALSE,
                                   !.primary = 0, !.leaky = @ \/ Orphan]
    BY <1>4 DEF Disconnect, Bury, Release, Tick, JdpChanges, Move, CloseSocket
  <2>2. (conn.destroyed => conn'.destroyed) /\ conn'.next = conn.next
    BY <1>0, <2>1 DEF ConnFields
  <2> QED
    BY <1>a, <2>1, <2>2 DEF Writable
<1>5. ASSUME NEW tip \in {store.tip, store.tip + 1}, NEW same \in BOOLEAN, Publish(tip, same)
      PROVE  OnceInv'
  <2>1. tip \in Nat
    BY TipIs
  <2>2. /\ Settled(chan, chan') /\ UNCHANGED <<channels, sock, conn, credits>>
        /\ UNCHANGED task \/ \E t \in Task : Announces(t)
    BY <1>5, <2>1, AnnouncesIs
  <2>3. store'.nextJob = store.nextJob
    BY <1>5, NewTemplateIs DEF Publish
  <2>4. \A c \in Channel : SameWork(chan[c], chan'[c])
    BY <2>2 DEF Settled
  <2>5. (Writable' => Writable) /\ conn'.next = conn.next
    BY <2>2 DEF Writable
  <2>6. CASE UNCHANGED task
    <3>1. \A u \in Task \ {0} : task'[u] = task[u]
      BY <2>6
    <3> QED
      BY <1>0, <2>2, <2>3, <2>4, <2>5, <3>1, OnceFrame
  <2>7. ASSUME NEW t \in Task, Announces(t) PROVE OnceInv'
    <3>1. task'[t].at # "sent"
      BY <2>7 DEF Announces, Dispatched, Sends, Idle
    <3>2. \A u \in Task \ {t} : task'[u] = task[u]
      BY <1>0, <2>7 DEF Announces
    <3> QED
      BY <2>2, <2>3, <2>4, <2>5, <3>1, <3>2, OnceFrame
  <2> QED
    BY <2>2, <2>6, <2>7
<1> QED
  BY <1>1, <1>2, <1>3, <1>4, <1>5 DEF Next

LEMMA OnceInit == Init => OnceInv
<1> SUFFICES ASSUME Init PROVE OnceInv
  OBVIOUS
<1>1. PICK k \in Cases :
        /\ conn = IF Len(k.open) = 0 THEN Fresh ELSE Started(Len(k.open), k.open)
        /\ chan = [c \in Channel |->
                     IF c <= Len(k.open) THEN Opened(k.open[c], c, scheme) ELSE NoChannel]
        /\ store.nextJob = Len(k.open) + 1
  <2> DEFINE first == NewTemplate(EmptyStore, 0, 0)
  <2>1. PICK k \in Cases :
            /\ conn = IF Len(k.open) = 0 THEN Fresh ELSE Started(Len(k.open), k.open)
            /\ chan = [c \in Channel |->
                         IF c <= Len(k.open) THEN Opened(k.open[c], c, scheme) ELSE NoChannel]
            /\ \E jobs : store = [first EXCEPT !.jobs = jobs, !.nextJob = Len(k.open) + 1]
    BY DEF Init
  <2>2. DOMAIN first = StoreFields
    <3> DEFINE cleaned == Cleanup(EmptyStore, ClearsJobs(EmptyStore, 0), 0)
    <3>1. DOMAIN cleaned = StoreFields
      BY DEF Cleanup, EmptyStore, StoreFields
    <3> HIDE DEF cleaned
    <3> QED
      BY <3>1 DEF NewTemplate, cleaned, StoreFields
  <2> HIDE DEF first
  <2>3. store.nextJob = Len(k.open) + 1
    BY <2>1, <2>2 DEF StoreFields
  <2> QED
    BY <2>1, <2>3
<1>2. Len(k.open) \in Nat
  BY SessionAssumption
<1>3. ASSUME NEW c \in Channel PROVE Issued(c)
  <2>1. c \in Nat /\ c > 0
    BY DEF Channel
  <2>2. CASE c <= Len(k.open)
    <3> DEFINE job == [tmpl |-> 1, built |-> 1, prev |-> 0, made |-> 0, retired |-> Active,
                       late |-> FALSE, route |-> scheme, nth |-> 1]
    <3>1. chan[c] = Opened(k.open[c], c, scheme)
      BY <1>1, <2>2
    <3>2. /\ chan[c].asked = With(Empty, c, {InitialDiff})
          /\ chan[c].ext = IF k.open[c] = "extended" THEN With(Empty, c, job) ELSE Empty
          /\ chan[c].roots = IF k.open[c] = "standard" THEN {c} ELSE {}
      BY <3>1 DEF Opened, NoChannel
    <3>3. /\ DOMAIN chan[c].asked = {c} /\ DOMAIN chan[c].ext \subseteq {c}
          /\ chan[c].roots \subseteq {c}
      BY <3>2 DEF With, Empty
    <3> QED
      BY <1>1, <1>2, <2>1, <2>2, <3>3 DEF Issued, Given, Before
  <2>3. CASE ~(c <= Len(k.open))
    <3>1. chan[c].ext = Empty /\ chan[c].roots = {}
      BY <1>1, <2>3 DEF NoChannel
    <3> QED
      BY <3>1 DEF Issued, Empty
  <2> QED
    BY <2>2, <2>3
<1>4. (\A t \in Task : task[t].at = "idle") /\ DOMAIN credits = {}
  BY DEF Init, Idle, Empty
<1> QED
  BY <1>1, <1>2, <1>3, <1>4 DEF OnceInv

-------------------------------------------------------------------------------
(* Late work: the invariant. *)

Past(x) == x \in Nat /\ x <= clock
Turned(tip) == tip = store.tip \/ tip \in DOMAIN turned

\* A retired job was retired when its tip was replaced at the latest, and no other
\* one is on a replaced tip; unless it was late already or its channel was left alone.
Timely(kept, e) ==
    /\ e.retired = Active \/ Past(e.retired)
    /\ \/ e.late \/ kept \/ e.prev = store.tip
       \/ e.prev \in DOMAIN turned /\ e.retired # Active /\ e.retired <= turned[e.prev]

\* The same for the registry, where a job may also be made on a replaced tip.
JobFields == {"tmpl", "made", "retired", "route"}
JobTimely(e) ==
    LET prev == tmpls[e.tmpl].tip
    IN  /\ DOMAIN e = JobFields /\ e.tmpl \in 1..Newest
        /\ Past(e.made) /\ (e.retired = Active \/ Past(e.retired))
        /\ \/ prev = store.tip
           \/ /\ prev \in DOMAIN turned
              /\ \/ e.made >= turned[prev]
                 \/ e.retired # Active /\ e.retired <= turned[prev]

TurnedInv ==
    /\ \A p \in DOMAIN turned : Past(turned[p])
    /\ \A b \in 1..Newest : Turned(tmpls[b].tip)
ExtTimely == \A c \in Channel : \A j \in DOMAIN chan[c].ext : Timely(chan[c].kept, chan[c].ext[j])
JobsTimely == \A i \in DOMAIN store.jobs : JobTimely(store.jobs[i])
KnownCall(k) ==
    /\ k.at \in Sending => k.tmpl \in 1..Newest /\ k.built \in 1..Newest
    /\ k.at \in Opening => k.why = "open"
CallsKnown == \A t \in Task : KnownCall(task[t])
KindsKnown ==
    \A c \in Channel : c < conn.next => chan[c].kind \in {"standard", "extended"}

LateInv == TurnedInv /\ ExtTimely /\ JobsTimely /\ CallsKnown /\ KindsKnown

\* No template comes, and time does not go back.
Still ==
    /\ UNCHANGED <<tmpls, turned>> /\ store'.tip = store.tip
    /\ clock' \in Nat /\ clock' >= clock

LEMMA TurnedStill == ASSUME TurnedInv, clock \in Nat, Still PROVE TurnedInv'
  BY DEF TurnedInv, Still, Past, Turned, Newest

LEMMA TimelyStill ==
    ASSUME clock \in Nat, Still, NEW r, NEW s, SameWork(r, s),
           \A j \in DOMAIN r.ext : Timely(r.kept, r.ext[j])
    PROVE  \A j \in DOMAIN s.ext : Timely(s.kept, s.ext[j])'
<1> SUFFICES ASSUME NEW j \in DOMAIN s.ext PROVE Timely(s.kept, s.ext[j])'
  OBVIOUS
<1> DEFINE e == r.ext[j]
           f == s.ext[j]
<1>1. /\ Timely(r.kept, e) /\ f.prev = e.prev /\ f.late = e.late /\ (r.kept => s.kept)
      /\ f.retired = e.retired \/ (e.retired = Active /\ f.retired = clock)
  BY DEF SameWork
<1> HIDE DEF e, f
<1>2. Timely(s.kept, f)'
  BY <1>1 DEF Timely, Past, Still, Active
<1> QED
  BY <1>2 DEF f

LEMMA JobStill ==
    ASSUME clock \in Nat, Still, NEW e, JobTimely(e) PROVE JobTimely(e)'
  BY DEF JobTimely, Past, Still, Newest

LEMMA JobsStill == ASSUME clock \in Nat, Still, StoreShrinks, JobsTimely PROVE JobsTimely'
  BY JobStill DEF JobsTimely, StoreShrinks

LEMMA JobsWritten ==
    ASSUME Typed, TurnedInv, JobsTimely, CallsKnown, NEW t \in Task, Writes(t),
           task[t].at = "payout", UNCHANGED <<clock, tmpls, turned>>
    PROVE  JobsTimely' /\ store'.tip = store.tip
<1> DEFINE j == store.nextJob
           e == StoreJob(task[t].built, task[t].route)
<1>1. DOMAIN store = StoreFields /\ clock \in Nat
  BY DEF Typed, StoreTyped, WorldTyped
<1>2. store' = AddJob(store, e)
  BY DEF Writes
<1>3. JobTimely(e)
  <2>1. task[t].built \in 1..Newest /\ Turned(tmpls[task[t].built].tip)
    BY DEF CallsKnown, KnownCall, Sending, TurnedInv
  <2>2. DOMAIN e = JobFields /\ e.tmpl = task[t].built /\ e.made = clock /\ e.retired = Active
    BY DEF StoreJob, JobFields
  <2> HIDE DEF e
  <2> QED
    BY <1>1, <2>1, <2>2 DEF JobTimely, Turned, TurnedInv, Past
<1> HIDE DEF e
<1> DEFINE jobs == [i \in DOMAIN store.jobs \cup {j} |-> IF i = j THEN e ELSE store.jobs[i]]
<1>4. store' = [store EXCEPT !.jobs = jobs, !.nextJob = j + 1]
  BY <1>2 DEF AddJob
<1>5. \A i \in DOMAIN jobs : JobTimely(jobs[i])
  BY <1>3 DEF JobsTimely
<1> HIDE DEF jobs
<1>6. store'.jobs = jobs /\ store'.tip = store.tip
  BY <1>1, <1>4 DEF StoreFields
<1>7. Still
  BY <1>1, <1>6 DEF Still
<1> QED
  BY <1>1, <1>5, <1>6, <1>7, JobStill DEF JobsTimely

\* A job is recorded as late, or for the tip.
LEMMA ExtRecorded ==
    ASSUME Typed, ExtTimely, NEW t \in Task, Records(t), Still, UNCHANGED clock
    PROVE  ExtTimely'
<1>0. PICK c : c = task[t].c
  OBVIOUS
<1>1. c \in Channel /\ CallRec(task[t]) /\ clock \in Nat
  BY <1>0, TypedCalls DEF Records, Typed, WorldTyped
<1>2. PICK next :
        /\ IsRecorded(t, chan[c], next[c]) /\ \A d \in Channel \ {c} : next[d] = chan[d]
        /\ chan' = next \/ Follows(t, next)
  BY <1>0 DEF Records
<1>3. \A d \in Channel : SameWork(next[d], chan'[d])
  BY <1>2, FollowsIs, SameWorkSelf
<1>4. \A j \in DOMAIN next[c].ext : Timely(next[c].kept, next[c].ext[j])
  <2> DEFINE r == chan[c]
             m == next[c]
             j == task[t].job
             job == ExtJob(task[t].tmpl, task[t].built, PrevHash(t), task[t].route, After(r.ext))
  <2>1. m.kept = r.kept /\ (m.ext = r.ext \/ m.ext = With(r.ext, j, job))
    BY <1>2 DEF IsRecorded
  <2>2. Timely(r.kept, job)
    <3>1. job.retired = Active /\ job.prev = PrevHash(t) /\ job.late = (PrevHash(t) # store.tip)
      BY ExtJobIs
    <3> HIDE DEF job
    <3>2. job.late \/ job.prev = store.tip
      BY <3>1, Zenon
    <3> QED
      BY <3>1, <3>2 DEF Timely
  <2>3. \A i \in DOMAIN r.ext : Timely(r.kept, r.ext[i])
    BY <1>1 DEF ExtTimely
  <2> HIDE DEF job, r, m
  <2>4. \A i \in DOMAIN m.ext : m.ext[i] = job \/ (i \in DOMAIN r.ext /\ m.ext[i] = r.ext[i])
    BY <2>1 DEF With
  <2> QED
    BY <2>1, <2>2, <2>3, <2>4 DEF m
<1>5. \A d \in Channel : \A j \in DOMAIN next[d].ext : Timely(next[d].kept, next[d].ext[j])
  BY <1>2, <1>4 DEF ExtTimely
<1> QED
  BY <1>1, <1>3, <1>5, TimelyStill DEF ExtTimely

\* A send is for a template that was published.
LEMMA SentKnown ==
    ASSUME NEW u, NEW ch, NEW call, NEW k, Sends(u, ch, call, Newest, k),
           Newest \in 1..Newest, call.tmpl \in 1..Newest
    PROVE  KnownCall(k)
<1>1. k.at = "payout" /\ k.tmpl \in 1..Newest /\ k.built \in 1..Newest
  BY DEF Sends
<1> QED
  BY <1>1 DEF KnownCall, Opening

LEMMA FollowsKnown ==
    ASSUME Typed, NEW t \in Task, KnownCall(task[t]), NEW ch, Follows(t, ch),
           task[t].at \in {"success", "payout", "sent", "prev"},
           task[t].at = "success" => task[t].why = "open"
    PROVE  KnownCall(task'[t])
<1>0. Newest \in 1..Newest
  BY DEF Typed, StoreTyped, Newest
<1>1. CASE task'[t] = Idle
  BY <1>1 DEF Idle, KnownCall, Sending, Opening
<1>2. CASE Sends(t, chan', Replay, Newest, task'[t])
  <2>1. Replay.tmpl = Newest
    BY DEF Replay, Idle
  <2> QED
    BY <1>0, <1>2, <2>1, SentKnown
<1>3. CASE Sends(t, chan', task[t], Newest, task'[t]) /\ task[t].why # "open"
  <2>1. task[t].tmpl \in 1..Newest
    BY <1>3 DEF KnownCall, Sending
  <2> QED
    BY <1>0, <1>3, <2>1, SentKnown
<1> QED
  BY <1>1, <1>2, <1>3 DEF Follows, Ended, Subscribes, Continues, Dispatched

\* Every call stays known.
LEMMA CallsGoOn ==
    ASSUME Typed, CallsKnown, NEW t \in Task, GoesOn(t), UNCHANGED tmpls,
           \A u \in Task \ {t} : task'[u] = task[u]
    PROVE  CallsKnown'
<1>0. /\ CallRec(task[t]) /\ KnownCall(task[t])
      /\ Newest \in 1..Newest /\ Newest' = Newest
  BY TypedCalls DEF Typed, StoreTyped, Newest, CallsKnown
<1> SUFFICES KnownCall(task'[t])
  BY <1>0 DEF CallsKnown, KnownCall
<1>1. CASE Quiet(t)
  <2>1. task'[t].at \notin Sending
    BY <1>1 DEF Quiet
  <2>2. task'[t].at \in Opening => task'[t].why = "open"
    BY <1>0, <1>1 DEF Quiet, KnownCall
  <2> QED
    BY <2>1, <2>2 DEF KnownCall
<1>2. CASE Succeeds(t)
  <2>1. task'[t].at = "success" /\ task'[t].why = task[t].why /\ task[t].at = "entity"
    BY <1>0, <1>2 DEF Succeeds, CallRec, CallFields
  <2> QED
    BY <1>0, <2>1 DEF KnownCall, Sending, Opening
<1>3. CASE Starts(t)
  <2>1. PICK call : Sends(t, chan', call, Newest, task'[t]) /\ call.tmpl = Newest
    <3> DEFINE call == [task[t] EXCEPT !.tmpl = Newest, !.prev = TRUE]
    <3>1. Sends(t, chan', call, Newest, task'[t])
      BY <1>3 DEF Starts
    <3>2. call.tmpl = Newest
      BY <1>0 DEF CallRec, CallFields
    <3> QED
      BY <3>1, <3>2
  <2> QED
    BY <1>0, <2>1, SentKnown
<1>5. CASE Skips(t)
  <2>1. PICK ch : Follows(t, ch)
    BY <1>5 DEF Skips
  <2>2. task[t].at = "success" => task[t].why = "open"
    BY <1>0 DEF KnownCall, Opening
  <2> QED
    BY <1>0, <1>5, <2>1, <2>2, FollowsKnown DEF Skips
<1>6. CASE Writes(t) /\ task[t].at = "payout"
  <2>1. task'[t].at = "sent" /\ task'[t].tmpl = task[t].tmpl /\ task'[t].built = task[t].built
    BY <1>0, <1>6 DEF Writes, CallRec, CallFields
  <2> QED
    BY <1>0, <1>6, <2>1 DEF KnownCall, Sending, Opening
<1>7. CASE Records(t)
  <2>1. CASE task'[t] = [task[t] EXCEPT !.at = "prev"]
    <3>1. task'[t].at = "prev" /\ task'[t].tmpl = task[t].tmpl /\ task'[t].built = task[t].built
      BY <1>0, <2>1 DEF CallRec, CallFields
    <3> QED
      BY <1>0, <1>7, <3>1 DEF KnownCall, Sending, Opening, Records
  <2>2. ASSUME NEW ch, Follows(t, ch) PROVE KnownCall(task'[t])
    BY <1>0, <1>7, <2>2, FollowsKnown DEF Records
  <2> QED
    BY <1>7, <2>1, <2>2 DEF Records
<1>8. CASE Ratchets(t)
  BY <1>8 DEF Ratchets, KnownCall, Sending, Opening
<1>9. CASE Tells(t)
  <2>1. task'[t] = Idle \/ \E c : task'[t] = [task[t] EXCEPT !.at = "targets", !.c = c]
    BY <1>9 DEF Tells
  <2>2. ASSUME NEW c, task'[t] = [task[t] EXCEPT !.at = "targets", !.c = c]
        PROVE  task'[t].at = "targets"
    BY <1>0, <2>2 DEF CallRec, CallFields
  <2>3. task'[t].at = "idle" \/ task'[t].at = "targets"
    <3>1. Idle.at = "idle"
      BY DEF Idle
    <3> QED
      BY <2>1, <2>2, <3>1, Zenon
  <2> QED
    BY <2>3 DEF KnownCall, Sending, Opening
<1> QED
  BY <1>1, <1>2, <1>3, <1>5, <1>6, <1>7, <1>8, <1>9 DEF GoesOn

LEMMA LateGoesOn ==
    ASSUME Typed, LateInv, NEW t \in Task, GoesOn(t), Steady(t),
           StoreShrinks \/ (Writes(t) /\ task[t].at = "payout"),
           UNCHANGED <<clock, tmpls, turned>>
    PROVE  LateInv'
<1>0. clock \in Nat
  BY DEF Typed, WorldTyped
<1>1. store'.tip = store.tip /\ JobsTimely'
  <2>1. CASE StoreShrinks
    <3>1. Still
      BY <1>0, <2>1 DEF Still, StoreShrinks
    <3> QED
      BY <1>0, <2>1, <3>1, JobsStill DEF LateInv, StoreShrinks
  <2> QED
    BY <2>1, JobsWritten DEF LateInv
<1>2. Still
  BY <1>0, <1>1 DEF Still
<1>3. TurnedInv'
  BY <1>0, <1>2, TurnedStill DEF LateInv
<1>4. ExtTimely'
  <2>1. CASE Records(t)
    BY <1>2, <2>1, ExtRecorded DEF LateInv
  <2>2. CASE \A c \in Channel : SameWork(chan[c], chan'[c])
    BY <1>0, <1>2, <2>2, TimelyStill DEF LateInv, ExtTimely
  <2>3. CASE Writes(t) /\ task[t].at = "payout"
    <3>1. \A c \in Channel : chan'[c].ext = chan[c].ext /\ chan'[c].kept = chan[c].kept
      BY <2>3 DEF Writes, Written
    <3>2. ASSUME NEW k, NEW e, Timely(k, e) PROVE Timely(k, e)'
      BY <1>2, <3>2 DEF Timely, Still, Past
    <3> QED
      BY <3>1, <3>2 DEF LateInv, ExtTimely
  <2> QED
    BY <2>1, <2>2, <2>3, Touches
<1>5. CallsKnown'
  BY CallsGoOn DEF LateInv, Steady
<1>6. KindsKnown'
  BY DEF LateInv, KindsKnown, Steady
<1> QED
  BY <1>1, <1>3, <1>4, <1>5, <1>6 DEF LateInv

\* No template comes, and nothing is recorded.
LEMMA LateFrame ==
    ASSUME Typed, LateInv, Still, StoreShrinks, conn'.next = conn.next,
           \A u \in Task : task'[u] = task[u] \/ KnownCall(task'[u]),
           \A c \in Channel : SameWork(chan[c], chan'[c])
    PROVE  LateInv'
<1>0. clock \in Nat /\ Newest' = Newest
  BY DEF Typed, WorldTyped, Still, Newest
<1>1. TurnedInv' /\ JobsTimely'
  BY <1>0, TurnedStill, JobsStill DEF LateInv
<1>2. ExtTimely'
  BY <1>0, TimelyStill DEF LateInv, ExtTimely
<1>3. CallsKnown'
  BY <1>0 DEF LateInv, CallsKnown, KnownCall
<1>4. KindsKnown'
  BY DEF LateInv, KindsKnown, SameWork
<1> QED
  BY <1>1, <1>2, <1>3, <1>4 DEF LateInv

LEMMA StoreStill ==
    ASSUME Typed, UNCHANGED <<store, tmpls, turned>>, clock' = clock \/ clock' = clock + 1
    PROVE  StoreShrinks /\ Still
  BY DEF Typed, WorldTyped, StoreShrinks, Still

\* A channel is opened: it has no jobs, and its call opens it.
LEMMA LateOpened ==
    ASSUME LateInv, Typed, NEW t \in Task, NEW kind \in {"standard", "extended"},
           NEW rate \in env.rates, NEW limit \in env.limits, Open(t, kind, rate, limit)
    PROVE  LateInv'
<1>0. PICK c : c = conn.next
  OBVIOUS
<1>1. /\ c \in Channel /\ New(kind, rate, limit, chan'[c])
      /\ \A d \in Channel \ {c} : chan'[d] = chan[d]
      /\ task' = [task EXCEPT ![t] = task'[t]] /\ task'[t].why = "open"
      /\ task'[t].at \in {"success", "create", "entity"} /\ conn'.next = c + 1
  BY <1>0, OpenIs
<1>2. UNCHANGED <<clock, store, tmpls, turned>>
  BY DEF Open, base
<1>3. clock \in Nat /\ Still /\ StoreShrinks /\ Newest' = Newest
  BY <1>2, StoreStill DEF Typed, WorldTyped, Newest
<1>4. TurnedInv' /\ JobsTimely'
  BY <1>3, TurnedStill, JobsStill DEF LateInv
<1>5. ExtTimely'
  <2>1. DOMAIN chan'[c].ext = {}
    BY <1>1 DEF New, Empty
  <2>2. ASSUME NEW d \in Channel \ {c}
        PROVE  (\A j \in DOMAIN chan[d].ext : Timely(chan[d].kept, chan[d].ext[j]))'
    BY <1>1, <1>3, TimelyStill, SameWorkSelf DEF LateInv, ExtTimely
  <2> QED
    BY <2>1, <2>2 DEF ExtTimely
<1>6. CallsKnown'
  <2>1. KnownCall(task'[t])
    BY <1>1 DEF KnownCall, Sending
  <2>2. \A u \in Task : u = t \/ task'[u] = task[u]
    BY <1>1 DEF Typed, Calls
  <2> QED
    BY <1>3, <2>1, <2>2 DEF LateInv, CallsKnown, KnownCall
<1>7. KindsKnown'
  <2>1. \A d \in Channel : d < c + 1 => d = c \/ d < c
    BY <1>0, ChannelIs DEF Typed, ConnTyped
  <2>2. chan'[c].kind = kind
    BY <1>1 DEF New
  <2> QED
    BY <1>0, <1>1, <2>1, <2>2 DEF LateInv, KindsKnown
<1> QED
  BY <1>4, <1>5, <1>6, <1>7 DEF LateInv

\* A custom job is late, or for the tip.
LEMMA LateCustomized ==
    ASSUME LateInv, Typed, NEW t \in Task, NEW c \in Channel, NEW tip,
           SetCustomMiningJob(t, c, tip)
    PROVE  LateInv'
<1>0. PICK j : j = conn.custom
  OBVIOUS
<1> DEFINE job == ExtJob(0, 0, tip, "none", After(chan[c].ext))
<1>1. /\ UNCHANGED <<clock, store, tmpls, turned, task>>
      /\ conn' = [conn EXCEPT !.custom = j + 1]
      /\ Customized(chan[c], chan'[c], tip) /\ \A d \in Channel \ {c} : chan'[d] = chan[d]
  BY <1>0, SetCustomMiningJobIs DEF SetCustomMiningJob, base
<1>2. clock \in Nat /\ Still /\ StoreShrinks /\ Newest' = Newest /\ conn'.next = conn.next
  BY <1>1, StoreStill DEF Typed, WorldTyped, Newest, ConnTyped, ConnFields
<1>3. TurnedInv' /\ JobsTimely'
  BY <1>2, TurnedStill, JobsStill DEF LateInv
<1>4. Timely(chan[c].kept, job)
  <2>1. job.retired = Active /\ job.prev = tip /\ job.late = (tip # store.tip)
    BY ExtJobIs
  <2> HIDE DEF job
  <2>2. job.late \/ job.prev = store.tip
    BY <2>1, Zenon
  <2> QED
    BY <2>1, <2>2 DEF Timely
<1> HIDE DEF job
<1>5. ExtTimely'
  <2>1. ASSUME NEW k, NEW e, Timely(k, e) PROVE Timely(k, e)'
    BY <1>1, <2>1 DEF Timely, Past
  <2>2. chan'[c].kept = chan[c].kept /\ chan'[c].ext = With(chan[c].ext, j, job)
    BY <1>0, <1>1 DEF Customized, job
  <2>3. \A i \in DOMAIN chan'[c].ext :
            chan'[c].ext[i] = job \/ (i \in DOMAIN chan[c].ext /\ chan'[c].ext[i] = chan[c].ext[i])
    BY <2>2 DEF With
  <2>4. (\A i \in DOMAIN chan[c].ext : Timely(chan[c].kept, chan[c].ext[i]))'
    BY <1>4, <2>1, <2>2, <2>3 DEF LateInv, ExtTimely
  <2>5. ASSUME NEW d \in Channel \ {c}
        PROVE  (\A i \in DOMAIN chan[d].ext : Timely(chan[d].kept, chan[d].ext[i]))'
    BY <1>1, <2>1 DEF LateInv, ExtTimely
  <2> QED
    BY <2>4, <2>5 DEF ExtTimely
<1>6. CallsKnown'
  BY <1>1, <1>2 DEF LateInv, CallsKnown, KnownCall
<1>7. KindsKnown'
  BY <1>1, <1>2 DEF LateInv, KindsKnown, Customized
<1> QED
  BY <1>3, <1>5, <1>6, <1>7 DEF LateInv

LEMMA LateReceive == ASSUME LateInv, Typed, NEW t \in Task, Receive(t) PROVE LateInv'
<1>0. DOMAIN conn = ConnFields /\ DOMAIN task = Task
  BY DEF Typed, ConnTyped, Calls
<1> USE DEF base
<1>a. ASSUME UNCHANGED <<base, chan, task>>, conn'.next = conn.next PROVE LateInv'
  <2>1. \A c \in Channel : SameWork(chan[c], chan'[c])
    BY <1>a, SameWorkSelf
  <2>2. Still /\ StoreShrinks
    BY <1>a, StoreStill
  <2> QED
    BY <1>a, <2>1, <2>2, LateFrame
<1>1. ASSUME NEW w \in BOOLEAN, SetupConnection(t, w) PROVE LateInv'
  <2>1. conn' = [conn EXCEPT !.workSel = w] /\ UNCHANGED <<base, chan, task>>
    BY <1>1 DEF SetupConnection
  <2>2. conn'.next = conn.next
    BY <1>0, <2>1 DEF ConnFields
  <2> QED
    BY <1>a, <2>1, <2>2
<1>2. ASSUME Unacceptable(t) \/ NoPrefix(t) PROVE LateInv'
  BY <1>a, <1>2 DEF Unacceptable, NoPrefix
<1>3. ASSUME NEW kind \in {"standard", "extended"}, Refuse(t, kind) PROVE LateInv'
  <2>1. /\ UNCHANGED <<base, chan, task>>
        /\ conn' = conn \/ conn' = [conn EXCEPT !.prefix = (NextPrefix % MaxPrefix) + 1,
                                                !.refused = @ \cup {NextPrefix}]
    BY <1>3 DEF Refuse
  <2>2. conn'.next = conn.next
    BY <1>0, <2>1 DEF ConnFields
  <2> QED
    BY <1>a, <2>1, <2>2
<1>4. ASSUME NEW kind \in {"standard", "extended"}, NEW rate \in env.rates,
             NEW limit \in env.limits, Open(t, kind, rate, limit)
      PROVE  LateInv'
  BY <1>4, LateOpened
<1>5. ASSUME NEW c \in Channel, CloseChannel(t, c) PROVE LateInv'
  <2>1. /\ UNCHANGED <<base, chan, task>>
        /\ \E p, s, l, m : conn' = [conn EXCEPT !.primary = p, !.sub = s, !.timer = l, !.leaky = m]
    BY <1>5 DEF CloseChannel
  <2>2. conn'.next = conn.next
    BY <1>0, <2>1 DEF ConnFields
  <2> QED
    BY <1>a, <2>1, <2>2
<1>6. ASSUME NEW c \in Channel, NEW rate \in env.rates, NEW limit \in env.limits,
             Update(t, c, rate, limit)
      PROVE  LateInv'
  <2>1. /\ UNCHANGED <<task, conn, base>>
        /\ Updated(chan[c], chan'[c], rate, limit)
        /\ \A d \in Channel \ {c} : chan'[d] = chan[d]
    BY <1>6, UpdateIs DEF Update
  <2>2. SameJobs(chan[c], chan'[c])
    BY <2>1 DEF Updated
  <2>3. \A d \in Channel : SameWork(chan[d], chan'[d])
    BY <2>1, <2>2, SameJobsWork, SameWorkSelf
  <2>4. Still /\ StoreShrinks
    BY <2>1, StoreStill
  <2> QED
    BY <2>1, <2>3, <2>4, LateFrame
<1>7. ASSUME NEW c \in Channel, NEW tip, SetCustomMiningJob(t, c, tip) PROVE LateInv'
  BY <1>7, LateCustomized
<1>8. ASSUME NEW c \in Channel, NEW j, NEW q, Submit(t, c, j, q) PROVE LateInv'
  <2> DEFINE k == [Idle EXCEPT !.at = "judge", !.why = "share", !.c = c, !.job = j, !.q = q]
  <2>1. Put(t, k) /\ UNCHANGED <<base, chan, conn>>
    BY <1>8 DEF Submit
  <2>2. k.at = "judge"
    BY DEF Idle
  <2> HIDE DEF k
  <2>3. task'[t].at = "judge" /\ \A u \in Task \ {t} : task'[u] = task[u]
    BY <2>1, <2>2, PutIs
  <2>4. \A d \in Channel : SameWork(chan[d], chan'[d])
    BY <2>1, SameWorkSelf
  <2>5. KnownCall(task'[t])
    BY <2>3 DEF KnownCall, Sending, Opening
  <2>6. Still /\ StoreShrinks
    BY <2>1, StoreStill
  <2>7. \A u \in Task : task'[u] = task[u] \/ KnownCall(task'[u])
    BY <2>3, <2>5
  <2> QED
    BY <2>1, <2>4, <2>6, <2>7, LateFrame
<1> QED
  BY <1>1, <1>2, <1>3, <1>4, <1>5, <1>6, <1>7, <1>8 DEF Receive

\* A block change retires every job that stays in the registry.
LEMMA NewTemplateJobs ==
    ASSUME Typed, NEW tip
    PROVE  LET new == NewTemplate(store, tip, clock)
           IN  \A i \in DOMAIN new.jobs :
                  /\ i \in DOMAIN store.jobs
                  /\ new.jobs[i] =
                        IF ClearsJobs(store, tip)
                        THEN [store.jobs[i] EXCEPT !.retired = IF @ = Active THEN clock ELSE @]
                        ELSE store.jobs[i]
<1> DEFINE clears == ClearsJobs(store, tip)
           swept == IF clears THEN Retire(store.jobs, clock) ELSE store.jobs
           cleaned == Cleanup(store, clears, clock)
<1>1. DOMAIN store = StoreFields
  BY DEF Typed, StoreTyped
<1>2. \A i \in DOMAIN Aged(swept, clock) : i \in DOMAIN swept /\ Aged(swept, clock)[i] = swept[i]
  BY DEF Aged
<1>3. /\ DOMAIN swept = DOMAIN store.jobs
      /\ \A i \in DOMAIN store.jobs :
            swept[i] = IF clears
                       THEN [store.jobs[i] EXCEPT !.retired = IF @ = Active THEN clock ELSE @]
                       ELSE store.jobs[i]
  BY DEF Retire
<1>4. DOMAIN cleaned = StoreFields /\ cleaned.jobs = Aged(swept, clock)
  BY <1>1 DEF Cleanup, StoreFields
<1> HIDE DEF cleaned, swept
<1>5. NewTemplate(store, tip, clock).jobs = Aged(swept, clock)
  BY <1>4 DEF NewTemplate, cleaned, StoreFields
<1> QED
  BY <1>2, <1>3, <1>5

\* A template is published: on a new tip, what was left active is retired now, and the
\* old tip is turned now.
LatePublished(tip) ==
    /\ store' = NewTemplate(store, tip, clock) /\ clock' = clock
    /\ \E template \in Templates : tmpls' = Append(tmpls, template) /\ template.tip = tip
    /\ turned' = (IF ClearsJobs(store, tip) THEN With(turned, store.tip, clock) ELSE turned)
    /\ \A c \in Channel : SameWork(chan[c], chan'[c])
    /\ ClearsJobs(store, tip) => \A c \in Channel : NoneActive(chan'[c])

\* What a template does to the tips.
Turns ==
    /\ clock' = clock /\ clock \in Nat /\ Newest \in Nat /\ Newest' = Newest + 1
    /\ \A b \in 1..Newest : tmpls'[b] = tmpls[b]
    /\ tmpls'[Newest + 1].tip = store'.tip
    /\ \/ UNCHANGED turned /\ store'.tip = store.tip
       \/ turned' = With(turned, store.tip, clock)

LEMMA TurnsIs ==
    ASSUME Typed, NEW tip, LatePublished(tip)
    PROVE  Turns /\ (ClearsJobs(store, tip) <=> store.tip # tip)
<1>1. /\ tmpls \in Seq(Templates) /\ Len(tmpls) \in Nat /\ Len(tmpls) >= 1
      /\ store.nextTemplate = Len(tmpls) + 1 /\ clock \in Nat
  BY DEF Typed, StoreTyped, WorldTyped, Newest
<1>2. PICK template \in Templates : tmpls' = Append(tmpls, template) /\ template.tip = tip
  BY DEF LatePublished
<1>3. /\ Len(tmpls') = Len(tmpls) + 1 /\ tmpls'[Len(tmpls) + 1] = template
      /\ \A b \in 1..Len(tmpls) : tmpls'[b] = tmpls[b]
  BY <1>1, <1>2
<1>4. store'.tip = tip
  BY NewTemplateIs DEF LatePublished
<1>5. ClearsJobs(store, tip) <=> store.tip # tip
  BY <1>1 DEF ClearsJobs
<1> QED
  BY <1>1, <1>2, <1>3, <1>4, <1>5 DEF Turns, LatePublished, Newest

LEMMA TurnedTurns == ASSUME TurnedInv, Turns PROVE TurnedInv'
<1>1. (\A p \in DOMAIN turned : Past(turned[p]))'
  BY DEF TurnedInv, Turns, With, Past
<1>2. ASSUME NEW b \in 1..Newest' PROVE Turned(tmpls[b].tip)'
  BY DEF TurnedInv, Turns, With, Turned
<1> QED
  BY <1>1, <1>2 DEF TurnedInv

LEMMA ExtPublished ==
    ASSUME Typed, TurnedInv, ExtTimely, NEW tip, LatePublished(tip) PROVE ExtTimely'
<1>0. Turns /\ (ClearsJobs(store, tip) <=> store.tip # tip) /\ store'.tip = tip
  BY TurnsIs, NewTemplateIs DEF LatePublished
<1> SUFFICES ASSUME NEW c \in Channel, NEW j \in DOMAIN chan'[c].ext
             PROVE  Timely(chan[c].kept, chan[c].ext[j])'
  BY DEF ExtTimely
<1>1. PICK r, s : r = chan[c] /\ s = chan'[c]
  OBVIOUS
<1>2. PICK e, f : e = r.ext[j] /\ f = s.ext[j]
  OBVIOUS
<1>3. /\ f.prev = e.prev /\ f.late = e.late /\ (r.kept => s.kept)
      /\ f.retired = e.retired \/ (e.retired = Active /\ f.retired = clock)
      /\ Timely(r.kept, e)
  BY <1>1, <1>2 DEF LatePublished, SameWork, ExtTimely
<1>4. store.tip # tip => s.kept \/ f.retired # Active
  BY <1>0, <1>1, <1>2 DEF LatePublished, NoneActive
<1>5. turned' = turned \/ turned' = With(turned, store.tip, clock)
  BY DEF LatePublished
<1>6. Timely(s.kept, f)'
  <2>1. CASE store.tip = tip
    <3>1. turned' = turned
      BY <1>0, <2>1 DEF LatePublished
    <3> QED
      BY <1>0, <1>3, <2>1, <3>1 DEF Timely, Past, Turns, Active
  <2>2. CASE store.tip # tip /\ ~s.kept /\ ~f.late
    <3>1. f.retired # Active /\ Past(f.retired)
      BY <1>0, <1>3, <1>4, <2>2 DEF Timely, Past, Turns
    <3>2. turned' = With(turned, store.tip, clock)
      BY <1>0, <2>2 DEF LatePublished
    <3>3. CASE f.prev = store.tip
      <4>1. f.prev \in DOMAIN turned' /\ turned'[f.prev] = clock
        BY <3>2, <3>3 DEF With
      <4> QED
        BY <1>0, <3>1, <4>1 DEF Timely, Past, Turns
    <3>4. CASE f.prev # store.tip
      <4>1. e.prev \in DOMAIN turned /\ e.retired # Active /\ e.retired <= turned[e.prev]
        BY <1>3, <2>2, <3>4 DEF Timely
      <4>2. f.prev \in DOMAIN turned' /\ turned'[f.prev] = turned[e.prev]
        BY <1>3, <3>2, <3>4, <4>1 DEF With
      <4> QED
        BY <1>0, <1>3, <3>1, <4>1, <4>2 DEF Timely, Past, Turns
    <3> QED
      BY <3>3, <3>4
  <2>3. CASE s.kept \/ f.late
    BY <1>0, <1>3, <2>3 DEF Timely, Past, Turns
  <2> QED
    BY <2>1, <2>2, <2>3
<1> QED
  BY <1>1, <1>2, <1>6 DEF Timely, Past

LEMMA JobsPublished ==
    ASSUME Typed, TurnedInv, JobsTimely, NEW tip, LatePublished(tip) PROVE JobsTimely'
<1>0. Turns /\ (ClearsJobs(store, tip) <=> store.tip # tip) /\ store'.tip = tip
  BY TurnsIs, NewTemplateIs DEF LatePublished
<1> SUFFICES ASSUME NEW i \in DOMAIN store'.jobs PROVE JobTimely(store.jobs[i])'
  BY DEF JobsTimely
<1>1. PICK e, f : e = store.jobs[i] /\ f = store'.jobs[i]
  OBVIOUS
<1>2. /\ JobTimely(e)
      /\ f = IF store.tip # tip
             THEN [e EXCEPT !.retired = IF @ = Active THEN clock ELSE @] ELSE e
  BY <1>0, <1>1, NewTemplateJobs DEF LatePublished, JobsTimely
<1>3. /\ DOMAIN f = JobFields /\ f.tmpl = e.tmpl /\ f.made = e.made
      /\ f.retired = IF store.tip # tip /\ e.retired = Active THEN clock ELSE e.retired
  BY <1>2 DEF JobTimely, JobFields
<1>4. PICK prev : prev = tmpls[e.tmpl].tip /\ prev = tmpls'[f.tmpl].tip
  BY <1>0, <1>2, <1>3 DEF JobTimely, Turns
<1>5. /\ f.tmpl \in 1..Newest' /\ f.made \in Nat /\ f.made <= clock'
      /\ f.retired = Active \/ (f.retired \in Nat /\ f.retired <= clock')
  BY <1>0, <1>2, <1>3 DEF JobTimely, Turns, Past
<1>6. \/ prev = store'.tip
      \/ /\ prev \in DOMAIN turned'
         /\ \/ f.made >= turned'[prev]
            \/ f.retired # Active /\ f.retired <= turned'[prev]
  <2>1. CASE store.tip = tip
    <3>1. turned' = turned
      BY <1>0, <2>1 DEF LatePublished
    <3> QED
      BY <1>0, <1>2, <1>3, <1>4, <2>1, <3>1 DEF JobTimely
  <2>2. CASE store.tip # tip
    <3>1. f.retired # Active
      BY <1>0, <1>3, <2>2 DEF Turns, Active
    <3>2. turned' = With(turned, store.tip, clock)
      BY <1>0, <2>2 DEF LatePublished
    <3>3. CASE prev = store.tip
      <4>1. prev \in DOMAIN turned' /\ turned'[prev] = clock
        BY <3>2, <3>3 DEF With
      <4> QED
        BY <1>0, <1>5, <3>1, <4>1 DEF Turns
    <3>4. CASE prev # store.tip
      <4>1. /\ prev \in DOMAIN turned
            /\ \/ e.made >= turned[prev]
               \/ e.retired # Active /\ e.retired <= turned[prev]
        BY <1>2, <1>4, <3>4 DEF JobTimely
      <4>2. prev \in DOMAIN turned' /\ turned'[prev] = turned[prev]
        BY <3>2, <3>4, <4>1 DEF With
      <4> QED
        BY <1>3, <4>1, <4>2
    <3> QED
      BY <3>3, <3>4
  <2> QED
    BY <2>1, <2>2
<1> QED
  BY <1>1, <1>3, <1>4, <1>5, <1>6 DEF JobTimely, Past

LEMMA CallsAnnounced ==
    ASSUME Typed, CallsKnown, Turns, UNCHANGED task \/ \E t \in Task : Announces(t)
    PROVE  CallsKnown'
<1>1. ASSUME NEW k, KnownCall(k) PROVE KnownCall(k)'
  BY <1>1 DEF KnownCall, Turns
<1>2. ASSUME NEW t \in Task, Announces(t) PROVE KnownCall(task[t])'
  <2>1. PICK call : /\ call.tmpl = Newest + 1
                    /\ task'[t] = Idle \/ Sends(0, chan', call, Newest + 1, task'[t])
    BY <1>2 DEF Announces, Dispatched
  <2>2. CASE task'[t] = Idle
    BY <2>2 DEF Idle, KnownCall, Sending, Opening
  <2>3. CASE Sends(0, chan', call, Newest + 1, task'[t])
    <3>1. /\ task'[t].at = "payout"
          /\ task'[t].tmpl = Newest + 1 /\ task'[t].built = Newest + 1
      BY <2>1, <2>3 DEF Sends
    <3> QED
      BY <3>1 DEF KnownCall, Turns, Opening
  <2> QED
    BY <2>1, <2>2, <2>3
<1>3. ASSUME NEW t \in Task, Announces(t) PROVE \A u \in Task \ {t} : task'[u] = task[u]
  BY <1>3 DEF Announces, Typed, Calls
<1>4. ASSUME NEW u \in Task, task'[u] = task[u] PROVE KnownCall(task[u])'
  <2>1. PICK k : k = task[u]
    OBVIOUS
  <2>2. KnownCall(k)'
    BY <1>1, <2>1 DEF CallsKnown
  <2> QED
    BY <1>4, <2>1, <2>2 DEF KnownCall
<1>5. CASE UNCHANGED task
  BY <1>4, <1>5 DEF CallsKnown
<1>6. ASSUME NEW t \in Task, Announces(t) PROVE CallsKnown'
  BY <1>2, <1>3, <1>4, <1>6 DEF CallsKnown
<1> QED
  BY <1>5, <1>6

LEMMA LateNext == ASSUME LateInv, Typed, ReleaseInv, [Next]_vars PROVE LateInv'
<1>0. DOMAIN conn = ConnFields
  BY DEF Typed, ConnTyped
<1> USE DEF base
<1>a. ASSUME UNCHANGED <<store, tmpls, turned, chan, task>>, conn'.next = conn.next,
             clock' = clock \/ clock' = clock + 1
      PROVE  LateInv'
  <2>1. \A c \in Channel : SameWork(chan[c], chan'[c])
    BY <1>a, SameWorkSelf
  <2>2. Still /\ StoreShrinks
    BY <1>a, StoreStill
  <2> QED
    BY <1>a, <2>1, <2>2, LateFrame
<1>1. SUFFICES ASSUME Next PROVE LateInv'
  BY <1>a DEF vars
<1>2. ASSUME NEW t \in Task,
             \/ Resume(t) \/ NoDistribution(t) \/ RecordFails(t) \/ Rejected(t)
             \/ \E rate \in env.rates : Check(t, rate)
      PROVE  LateInv'
  <2>1. UNCHANGED <<clock, tmpls, turned>>
    BY <1>2, ResumeSteady DEF Steady
  <2> QED
    BY <1>2, <2>1, GoesOnIs, ResumeSteady, CreditsIs, LateGoesOn
<1>3. ASSUME NEW t \in Task, Receive(t) PROVE LateInv'
  BY <1>3, LateReceive
<1>4. ASSUME Disconnect \/ Bury \/ Release \/ Tick \/ JdpChanges \/ \E s \in Schemes : Move(s)
      PROVE  LateInv'
  <2>1. /\ UNCHANGED <<store, tmpls, turned, chan, task>>
        /\ clock' = clock \/ clock' = clock + 1
        /\ \/ conn' = conn \/ conn' = [conn EXCEPT !.destroyed = TRUE]
           \/ conn' = [conn EXCEPT !.registered = FALSE, !.sub = 0, !.timer = FALSE,
                                   !.primary = 0, !.leaky = @ \/ Orphan]
    BY <1>4 DEF Disconnect, Bury, Release, Tick, JdpChanges, Move
  <2>2. conn'.next = conn.next
    BY <1>0, <2>1 DEF ConnFields
  <2> QED
    BY <1>a, <2>1, <2>2
<1>5. ASSUME NEW tip \in {store.tip, store.tip + 1}, NEW same \in BOOLEAN, Publish(tip, same)
      PROVE  LateInv'
  <2>1. tip \in Nat
    BY TipIs
  <2>2. /\ Settled(chan, chan') /\ UNCHANGED conn
        /\ UNCHANGED task \/ \E t \in Task : Announces(t)
    BY <1>5, <2>1, AnnouncesIs
  <2>3. LatePublished(tip)
    <3>1. \A c \in Channel : SameWork(chan[c], chan'[c])
      BY <2>2 DEF Settled
    <3> QED
      BY <1>5, <2>1, <3>1, PublishIs, OneSubscription DEF LatePublished
  <2>4. Turns
    BY <2>3, TurnsIs
  <2>5. TurnedInv' /\ ExtTimely' /\ JobsTimely'
    BY <2>3, <2>4, TurnedTurns, ExtPublished, JobsPublished DEF LateInv
  <2>6. CallsKnown'
    BY <2>2, <2>4, CallsAnnounced DEF LateInv
  <2>7. KindsKnown'
    BY <2>2 DEF LateInv, KindsKnown, Settled, SameWork
  <2> QED
    BY <2>5, <2>6, <2>7 DEF LateInv
<1> QED
  BY <1>1, <1>2, <1>3, <1>4, <1>5 DEF Next

LEMMA LateInit == Init => LateInv
<1> SUFFICES ASSUME Init PROVE LateInv
  OBVIOUS
<1>1. PICK k \in Cases :
        /\ conn = IF Len(k.open) = 0 THEN Fresh ELSE Started(Len(k.open), k.open)
        /\ chan = [c \in Channel |->
                     IF c <= Len(k.open) THEN Opened(k.open[c], c, scheme) ELSE NoChannel]
        /\ store.tip = 0
        /\ \A i \in DOMAIN store.jobs :
              store.jobs[i] = [tmpl |-> 1, made |-> 0, retired |-> Active, route |-> scheme]
  <2> DEFINE first == NewTemplate(EmptyStore, 0, 0)
             job == [tmpl |-> 1, made |-> 0, retired |-> Active, route |-> scheme]
  <2>1. PICK k \in Cases :
            /\ conn = IF Len(k.open) = 0 THEN Fresh ELSE Started(Len(k.open), k.open)
            /\ chan = [c \in Channel |->
                         IF c <= Len(k.open) THEN Opened(k.open[c], c, scheme) ELSE NoChannel]
            /\ store = [first EXCEPT !.jobs = [j \in 1..Len(k.open) |-> job],
                                     !.nextJob = Len(k.open) + 1]
    BY DEF Init
  <2>2. DOMAIN first = StoreFields /\ first.tip = 0
    <3> DEFINE cleaned == Cleanup(EmptyStore, ClearsJobs(EmptyStore, 0), 0)
    <3>1. DOMAIN cleaned = StoreFields
      BY DEF Cleanup, EmptyStore, StoreFields
    <3> HIDE DEF cleaned
    <3> QED
      BY <3>1 DEF NewTemplate, cleaned, StoreFields
  <2> HIDE DEF first, job
  <2> DEFINE jobs == [j \in 1..Len(k.open) |-> job]
  <2>3. \A i \in DOMAIN jobs : jobs[i] = job
    OBVIOUS
  <2> HIDE DEF jobs
  <2>4. store.tip = 0 /\ store.jobs = jobs
    BY <2>1, <2>2 DEF StoreFields, jobs
  <2> QED
    BY <2>1, <2>3, <2>4 DEF job
<1>2. /\ tmpls = << [tip |-> 0, clears |-> FALSE, content |-> 1] >> /\ clock = 0
      /\ turned = Empty /\ \A t \in Task : task[t] = Idle
  BY DEF Init
<1>3. Newest = 1 /\ tmpls[1].tip = 0
  BY <1>2 DEF Newest
<1>4. TurnedInv
  BY <1>1, <1>2, <1>3 DEF TurnedInv, Turned, Empty
<1>5. Len(k.open) \in Nat /\ \A c \in 1..Len(k.open) : k.open[c] \in {"standard", "extended"}
  BY SessionAssumption
<1>6. ASSUME NEW c \in Channel, c <= Len(k.open)
      PROVE  /\ chan[c].kind = k.open[c]
             /\ \A j \in DOMAIN chan[c].ext : Timely(chan[c].kept, chan[c].ext[j])
  <2> DEFINE job == [tmpl |-> 1, built |-> 1, prev |-> 0, made |-> 0, retired |-> Active,
                     late |-> FALSE, route |-> scheme, nth |-> 1]
  <2>1. chan[c] = Opened(k.open[c], c, scheme)
    BY <1>1, <1>6
  <2>2. /\ chan[c].kind = k.open[c]
        /\ chan[c].ext = IF k.open[c] = "extended" THEN With(Empty, c, job) ELSE Empty
    BY <2>1 DEF Opened, NoChannel
  <2>3. Timely(chan[c].kept, job)
    BY <1>1 DEF Timely
  <2> HIDE DEF job
  <2>4. \A j \in DOMAIN chan[c].ext : chan[c].ext[j] = job
    BY <2>2 DEF With, Empty
  <2> QED
    BY <2>2, <2>3, <2>4
<1>7. ASSUME NEW c \in Channel, ~(c <= Len(k.open)) PROVE chan[c].ext = Empty
  BY <1>1, <1>7 DEF NoChannel
<1>8. ExtTimely
  BY <1>6, <1>7 DEF ExtTimely, Empty
<1>9. JobsTimely
  <2> DEFINE job == [tmpl |-> 1, made |-> 0, retired |-> Active, route |-> scheme]
  <2>1. JobTimely(job)
    BY <1>1, <1>2, <1>3 DEF JobTimely, JobFields, Past
  <2> QED
    BY <1>1, <2>1 DEF JobsTimely
<1>10. CallsKnown
  BY <1>2 DEF CallsKnown, KnownCall, Idle, Sending, Opening
<1>11. KindsKnown
  <2>1. conn.next = Len(k.open) + 1
    BY <1>1, <1>5 DEF Fresh, Started
  <2>2. \A c \in Channel : c < conn.next => c \in 1..Len(k.open)
    BY <1>5, <2>1 DEF Channel
  <2> QED
    BY <1>5, <1>6, <2>2 DEF KindsKnown
<1> QED
  BY <1>4, <1>8, <1>9, <1>10, <1>11 DEF LateInv

-------------------------------------------------------------------------------
(* What is credited. *)

LEMMA CreditedBy ==
    ASSUME Typed, [Next]_vars, credits' # credits PROVE \E t \in Task : Credits(t)
<1> USE DEF ghost
<1>1. PICK t \in Task :
        \/ Resume(t) \/ Receive(t) \/ NoDistribution(t) \/ RecordFails(t) \/ Rejected(t)
        \/ \E rate \in env.rates : Check(t, rate)
  <2>1. ~UNCHANGED vars
    BY DEF vars
  <2>2. ~(\/ Disconnect \/ Bury \/ Release \/ Tick \/ JdpChanges
          \/ \E s \in Schemes : Move(s)
          \/ \E tip \in {store.tip, store.tip + 1}, same \in BOOLEAN : Publish(tip, same))
    BY DEF Disconnect, Bury, Release, Tick, JdpChanges, Move, Publish
  <2> QED
    BY <2>1, <2>2 DEF Next
<1>2. ~Receive(t)
  <2>1. \A w : ~SetupConnection(t, w)
    BY DEF SetupConnection
  <2>2. ~Unacceptable(t) /\ ~NoPrefix(t)
    BY DEF Unacceptable, NoPrefix
  <2>3. \A k, r, m : ~Refuse(t, k) /\ ~Open(t, k, r, m)
    BY DEF Refuse, Open
  <2>4. \A c, r, m : ~CloseChannel(t, c) /\ ~Update(t, c, r, m)
    BY DEF CloseChannel, Update
  <2>5. \A c, j, q : ~SetCustomMiningJob(t, c, j) /\ ~Submit(t, c, j, q)
    BY DEF SetCustomMiningJob, Submit
  <2> QED
    BY <2>1, <2>2, <2>3, <2>4, <2>5 DEF Receive
<1> QED
  BY <1>1, <1>2, CreditsIs

\* The job of credited work is known, and creditable.
Creditable(w) ==
    LET c == w[1]
        e == Entry(c, w[2])
    IN  /\ c \in Channel /\ c < conn.next /\ Known(c, w[2])
        /\ <<w[2], w[3]>> \notin chan[c].seen
        /\ e.retired = Active \/ clock - e.retired <= Grace

LEMMA CreditedIs ==
    ASSUME Typed, OnceInv, [Next]_vars, NEW w \in DOMAIN credits',
           w \notin DOMAIN credits \/ credits'[w] > credits[w]
    PROVE  Creditable(w)
<1>1. credits' # credits
  <2>1. SUFFICES ASSUME credits' = credits PROVE FALSE
    OBVIOUS
  <2>2. w \in DOMAIN credits /\ credits[w] > credits[w]
    BY <2>1
  <2>3. credits[w] \in Nat
    BY <2>2 DEF OnceInv, Once
  <2> QED
    BY <2>2, <2>3
<1>2. PICK t \in Task : Credits(t)
  BY <1>1, CreditedBy
<1>3. PICK c, j, q : c = task[t].c /\ j = task[t].job /\ q = task[t].q
  OBVIOUS
<1> DEFINE work == <<c, j, q>>
           n == IF work \in DOMAIN credits THEN credits[work] + 1 ELSE 1
<1>4. /\ c \in Channel /\ <<j, q>> \notin chan[c].seen /\ Known(c, j)
      /\ Classify(Entry(c, j), clock) # "stale-rejected"
      /\ credits' = With(credits, work, n)
  BY <1>2, <1>3 DEF Credits
<1>5. c < conn.next
  BY <1>3 DEF Typed, Calls
<1>6. work[1] = c /\ work[2] = j /\ work[3] = q
  OBVIOUS
<1> HIDE DEF work, n
<1>7. w = work
  <2>1. SUFFICES ASSUME w # work PROVE FALSE
    OBVIOUS
  <2>2. w \in DOMAIN credits /\ credits'[w] = credits[w]
    BY <1>4, <2>1 DEF With
  <2>3. credits[w] \in Nat
    BY <2>2 DEF OnceInv, Once
  <2> QED
    BY <2>2, <2>3
<1>8. PICK e : e = Entry(c, j)
  OBVIOUS
<1>9. e.retired = Active \/ clock - e.retired <= Grace
  BY <1>4, <1>8 DEF Classify
<1> QED
  BY <1>4, <1>5, <1>6, <1>7, <1>8, <1>9 DEF Creditable

\* Work that was credited is over when it is credited again.
LEMMA CreditedOnce ==
    ASSUME Typed, OnceInv, [Next]_vars, NEW w \in DOMAIN credits',
           w \in DOMAIN credits, credits'[w] > credits[w]
    PROVE  \/ Entry(w[1], w[2]).retired # Active
           \/ chan[w[1]].kind = "extended" /\ (chan[w[1]].kept \/ w[2] \in chan[w[1]].shared)
<1>1. Creditable(w)
  BY CreditedIs
<1>2. Over(chan[w[1]], w[2])
  BY <1>1 DEF OnceInv, Once, Creditable
<1> QED
  BY <1>1, <1>2 DEF Over, Creditable, Known, Entry

\* Late work is within the grace time of its tip, or excused.
LEMMA LateIsBounded ==
    ASSUME Typed, OnceInv, LateInv, [Next]_vars, NEW w \in DOMAIN credits',
           w \notin DOMAIN credits \/ credits'[w] > credits[w]
    PROVE  LET prev == HeaderPrev(w[1], w[2])
           IN  \/ prev = store.tip \/ clock - turned[prev] <= Grace
               \/ chan[w[1]].kind = "extended"
                  /\ (chan[w[1]].ext[w[2]].late \/ chan[w[1]].kept)
               \/ /\ chan[w[1]].kind = "standard"
                  /\ store.jobs[w[2]].made >= turned[prev]
                  /\ store.jobs[w[2]].retired = Active
                     \/ store.jobs[w[2]].retired > turned[prev]
<1>1. PICK c, j : c = w[1] /\ j = w[2]
  OBVIOUS
<1>2. /\ c \in Channel /\ c < conn.next /\ Known(c, j)
      /\ Entry(c, j).retired = Active \/ clock - Entry(c, j).retired <= Grace
  BY <1>1, CreditedIs DEF Creditable
<1>3. clock \in Nat /\ \A p \in DOMAIN turned : turned[p] \in Nat /\ turned[p] <= clock
  BY DEF Typed, WorldTyped, LateInv, TurnedInv, Past
<1>4. PICK prev : prev = HeaderPrev(c, j)
  OBVIOUS
<1>5. CASE chan[c].kind = "extended"
  <2>1. PICK e : e = chan[c].ext[j]
    OBVIOUS
  <2>2. Timely(chan[c].kept, e) /\ (e.retired = Active \/ clock - e.retired <= Grace)
    BY <1>2, <1>5, <2>1 DEF LateInv, ExtTimely, Known, Entry
  <2>3. prev = e.prev
    BY <1>4, <1>5, <2>1 DEF HeaderPrev
  <2>4. \/ prev = store.tip \/ clock - turned[prev] <= Grace
        \/ e.late \/ chan[c].kept
    BY <1>3, <2>2, <2>3, StoreAssumption DEF Timely, Past
  <2> QED
    BY <1>1, <1>4, <1>5, <2>1, <2>4
<1>6. CASE chan[c].kind # "extended"
  <2>1. chan[c].kind = "standard"
    BY <1>2, <1>6 DEF LateInv, KindsKnown
  <2>2. PICK e : e = store.jobs[j]
    OBVIOUS
  <2>3. JobTimely(e) /\ (e.retired = Active \/ clock - e.retired <= Grace)
    BY <1>2, <1>6, <2>2 DEF LateInv, JobsTimely, Known, Entry
  <2>4. prev = tmpls[e.tmpl].tip
    BY <1>4, <1>6, <2>2 DEF HeaderPrev
  <2>5. \/ prev = store.tip \/ clock - turned[prev] <= Grace
        \/ e.made >= turned[prev] /\ (e.retired = Active \/ e.retired > turned[prev])
    BY <1>3, <2>3, <2>4, StoreAssumption DEF JobTimely, Past
  <2> QED
    BY <1>1, <1>4, <2>1, <2>2, <2>5
<1> QED
  BY <1>5, <1>6

CountInv == IInv /\ OnceInv /\ LateInv

LEMMA CountInductive == Spec => []CountInv
<1>1. Init => CountInv
  BY TypedInit, PrefixInit, ReleaseInit, WorkInit, ToldInit, NameInit, OnceInit, LateInit
     DEF IInv, CountInv
<1>2. (OnceInv /\ LateInv) /\ IInv /\ [Next]_vars => (OnceInv /\ LateInv)'
  BY OnceNext, LateNext DEF IInv
<1>3. Init => OnceInv /\ LateInv
  BY OnceInit, LateInit
<1>4. Spec => [](OnceInv /\ LateInv)
  BY <1>2, <1>3, Inductive, PTL DEF Spec
<1> QED
  BY <1>4, Inductive, PTL DEF CountInv

\* The same work is credited again only on a job that a block change has retired, and
\* work on a tip that was replaced only within the grace time or on a job made after
\* the change: however submissions, templates, custom jobs and closing channels meet.
THEOREM WorkAlwaysCounts == Spec => WorkCounts
<1>1. CountInv /\ [Next]_vars =>
        [\A w \in DOMAIN credits' :
            w \in DOMAIN credits /\ credits'[w] > credits[w]
              => \/ Entry(w[1], w[2]).retired # Active
                 \/ chan[w[1]].kind = "extended" /\ (chan[w[1]].kept \/ w[2] \in chan[w[1]].shared)]_vars
  BY CreditedOnce DEF CountInv, IInv
<1>2. CountInv /\ [Next]_vars =>
        [\A w \in DOMAIN credits' :
            (w \notin DOMAIN credits \/ credits'[w] > credits[w])
              => LET prev == HeaderPrev(w[1], w[2])
                 IN  \/ prev = store.tip \/ clock - turned[prev] <= Grace
                     \/ chan[w[1]].kind = "extended"
                        /\ (chan[w[1]].ext[w[2]].late \/ chan[w[1]].kept)
                     \/ /\ chan[w[1]].kind = "standard"
                        /\ store.jobs[w[2]].made >= turned[prev]
                        /\ store.jobs[w[2]].retired = Active
                           \/ store.jobs[w[2]].retired > turned[prev]]_vars
  BY LateIsBounded DEF CountInv, IInv
<1> QED
  BY <1>1, <1>2, CountInductive, PTL DEF Spec, WorkCounts, WorkCreditedOnce, LateWorkBounded

-------------------------------------------------------------------------------
(* The headers: the invariant. *)

\* Call u will name the tip to channel c: it is about to, or it is a broadcast that
\* has not reached c.
Brings(u, c) ==
    /\ task[u].prev /\ tmpls[task[u].tmpl].tip = store.tip
    /\ \/ task[u].at \in {"payout", "sent"} /\ task[u].c = c
       \/ task[u].at \in Sending /\ task[u].why # "open" /\ task[u].c < c
Coming(c) == \E u \in Task : Brings(u, c)

\* Call t has a SetNewPrevHash for channel c.
Brought(t, c) == task[t].prev /\ task[t].at \in {"payout", "sent"} /\ task[t].c = c

\* A standard channel whose miner hashes on another block than the tip, or is to be
\* told of a block, will be told of the tip.
Fed(c) ==
    /\ chan[c].kind # "extended" /\ ~chan[c].raced /\ ~chan[c].jd
    /\ chan[c].tip \notin {Nowhere, store.tip} \/ \E t \in Task : Brought(t, c)
    => Coming(c)
FedInv == Writable => \A c \in channels : Fed(c)

\* What the miner hashes job j on is what the pool will put into its header.
Hashed(c, j) ==
    LET s == chan[c]
    IN  \/ s.mined[j] = Nowhere
        \/ IF s.kind = "extended" THEN j \in DOMAIN s.ext => s.ext[j].prev = s.mined[j]
           ELSE j \in s.roots /\ j \in DOMAIN store.jobs
                    => tmpls[store.jobs[j].tmpl].tip = s.mined[j]

\* latestExtendedPrevHash is what the miner was named last.
MinedOK(c) ==
    LET s == chan[c]
    IN  /\ DOMAIN s.mined \subseteq DOMAIN s.asked
        /\ s.tip # Nowhere => s.last # 0
        /\ Writable /\ s.kind = "extended" /\ s.tip # Nowhere => s.latest = s.tip
        /\ ~s.raced => \A j \in DOMAIN s.mined \ s.shared : Hashed(c, j)
MinedInv == \A c \in Channel : MinedOK(c)

\* A job on its way that is no future one is for the block that its miner hashes on,
\* and will be recorded with that block.
SendOK(t) ==
    LET k == task[t]
        s == chan[k.c]
    IN  /\ k.at \in Sending /\ s.kind # "extended" => k.built = k.tmpl
        /\ k.at = "payout" /\ ~k.prev /\ ~s.raced /\ s.kind # "extended" /\ Writable
              => s.tip \in {Nowhere, tmpls[k.built].tip}
        /\ k.at = "sent" =>
              /\ Writable => s.last # 0
              /\ k.job \in DOMAIN store.jobs => store.jobs[k.job].tmpl = k.built
              /\ ~s.raced /\ k.job \in DOMAIN s.mined \ s.shared =>
                    \/ s.mined[k.job] = Nowhere
                    \/ ~k.prev /\ s.mined[k.job] = IF s.kind = "extended" THEN s.latest
                                                   ELSE tmpls[k.built].tip
SendInv == \A t \in Task : SendOK(t)

HeadInv == FedInv /\ MinedInv /\ SendInv

-------------------------------------------------------------------------------
(* A channel will be told of the tip. *)

\* A broadcast goes to the next channel that is neither noticed nor raced.
LEMMA DispatchedOn ==
    ASSUME NEW u, NEW ch, NEW call, NEW after, NEW newest, NEW new, NEW k,
           Dispatched(u, ch, call, after, newest, new, k), channels \subseteq Channel,
           NEW c \in channels, c > after, ~new[c].jd, ~new[c].raced
    PROVE  /\ k.at = "payout" /\ k.prev = call.prev /\ k.tmpl = call.tmpl /\ k.why = call.why
           /\ k.c = c \/ k.c < c
<1>1. Sends(u, new, call, newest, k) /\ k.c \in channels /\ (\A d \in channels : after < d /\ d < k.c => new[d].jd)
  BY DEF Dispatched
<1>2. ~(c < k.c) /\ k.c \in Nat /\ c \in Nat
  BY <1>1, ChannelIs
<1> QED
  BY <1>1, <1>2 DEF Sends

\* A call that follows is idle, or sends to a fed channel; what it sends to one that is
\* not raced is the newest template.
LEMMA FollowsSends ==
    ASSUME NEW t \in Task, NEW ch, Follows(t, ch)
    PROVE  LET k == task'[t]
           IN  \/ k = Idle
               \/ \E call : /\ Sends(t, chan', call, Newest, k)
                            /\ call.why = "publish" =>
                                 task[t].why = "publish" /\ call.tmpl = task[t].tmpl
                            /\ k.c \in channels /\ ~chan'[k.c].jd
<1>1. Replay.why # "publish"
  BY DEF Replay, Idle
<1> QED
  BY <1>1 DEF Follows, Ended, Subscribes, Continues, Dispatched

\* The step of a call that sends: it sends something new, writes, or records.
LEMMA SendsNext ==
    ASSUME Typed, NameInv, NEW t \in Task, GoesOn(t), task'[t].at \in Sending
    PROVE  LET k == task'[t]
           IN  \/ Writes(t) /\ task[t].at = "payout"
               \/ /\ Records(t) /\ task[t].prev /\ task[t].at = "sent"
                  /\ k = [task[t] EXCEPT !.at = "prev"]
               \/ \E call : /\ Sends(t, chan', call, Newest, k)
                            /\ call.why = "publish" =>
                                 task[t].why = "publish" /\ call.tmpl = task[t].tmpl
                            /\ k.c \in channels /\ (~k.prev => ~chan'[k.c].jd)
<1>0. CallRec(task[t]) /\ Idle.at \notin Sending
  BY TypedCalls DEF Idle, Sending
<1>1. CASE Quiet(t) \/ Ratchets(t)
  BY <1>1 DEF Quiet, Ratchets, Sending
<1>2. CASE Succeeds(t)
  BY <1>0, <1>2 DEF Succeeds, CallRec, CallFields, Sending
<1>3. CASE Starts(t)
  <2> DEFINE call == [task[t] EXCEPT !.tmpl = Newest, !.prev = TRUE]
  <2>1. /\ Sends(t, chan', call, Newest, task'[t]) /\ task'[t].c \in channels
        /\ task[t].at = "success"
    BY <1>3 DEF Starts
  <2>2. call.prev /\ call.why = task[t].why /\ call.tmpl = Newest
    BY <1>0 DEF CallRec, CallFields
  <2>3. task[t].why # "publish"
    BY <2>1 DEF NameInv, Sending
  <2> HIDE DEF call
  <2> QED
    BY <2>1, <2>2, <2>3 DEF Sends
<1>4. CASE Skips(t)
  BY <1>0, <1>4, FollowsSends DEF Skips
<1>5. CASE Records(t)
  BY <1>0, <1>5, FollowsSends DEF Records
<1>6. CASE Tells(t)
  <2>1. task'[t] = Idle \/ \E c : task'[t] = [task[t] EXCEPT !.at = "targets", !.c = c]
    BY <1>6 DEF Tells
  <2>2. ASSUME NEW c, task'[t] = [task[t] EXCEPT !.at = "targets", !.c = c]
        PROVE  task'[t].at = "targets"
    BY <1>0, <2>2 DEF CallRec, CallFields
  <2> QED
    BY <1>0, <2>1, <2>2 DEF Sending
<1> QED
  BY <1>1, <1>2, <1>3, <1>4, <1>5, <1>6 DEF GoesOn

\* The tip of the registry is that of the newest template.
LEMMA NewestTip == ASSUME Typed PROVE tmpls[Newest].tip = store.tip
  BY DEF Typed, StoreTyped

\* What t names to a channel that is not raced, and did not before, is the tip.
LEMMA BroughtOn ==
    ASSUME Typed, NameInv, NEW t \in Task, GoesOn(t), UNCHANGED tmpls, store'.tip = store.tip,
           NEW c \in Channel, Brought(t, c)', ~chan'[c].raced
    PROVE  Brought(t, c) \/ Brings(t, c)'
<1> DEFINE k == task'[t]
<1>1. k.prev /\ k.at \in {"payout", "sent"} /\ k.c = c
  BY DEF Brought
<1>2. CASE Writes(t) /\ task[t].at = "payout"
  <2>1. task[t].prev = k.prev /\ task[t].c = k.c
    BY <1>2, TypedCalls DEF Writes, CallRec, CallFields
  <2> QED
    BY <1>1, <1>2, <2>1 DEF Brought
<1>3. CASE Records(t) /\ task[t].prev /\ task[t].at = "sent" /\ k = [task[t] EXCEPT !.at = "prev"]
  <2>1. k.at = "prev"
    BY <1>3, TypedCalls DEF CallRec, CallFields
  <2> QED
    BY <1>1, <2>1
<1>4. ASSUME NEW call, Sends(t, chan', call, Newest, k) PROVE Brings(t, c)'
  <2>1. k.tmpl = Newest
    BY <1>1, <1>4 DEF Sends
  <2> QED
    BY <1>1, <2>1, NewestTip DEF Brings
<1> QED
  BY <1>1, <1>2, <1>3, <1>4, SendsNext DEF Sending

\* What would bring the tip to a channel still will after its step, unless it does it.
LEMMA BringsOn ==
    ASSUME Typed, NameInv, NEW t \in Task, GoesOn(t), Steady(t), SendOK(t),
           store'.tip = store.tip, Writable, Writable', NEW c \in channels, Brings(t, c),
           chan[c].kind # "extended", ~chan'[c].raced, ~chan'[c].jd
    PROVE  \/ Brings(t, c)'
           \/ /\ task[t].at = "sent" /\ task[t].c = c /\ task'[t].at = "prev"
              /\ chan'[c].tip = store.tip
<1> DEFINE k == task'[t]
<1>0. /\ CallRec(task[t]) /\ task[t].c \in Nat /\ channels \subseteq Channel /\ c \in Channel
      /\ UNCHANGED tmpls /\ (task[t].at \in Working => task[t].c \in Channel)
  BY TypedCalls DEF Typed, WorldTyped, CallRec, Steady
<1>1. /\ task[t].at \in Sending /\ task[t].prev /\ tmpls[task[t].tmpl].tip = store.tip
      /\ task[t].c = c \/ (task[t].why # "open" /\ task[t].c < c)
      /\ task[t].c = c => task[t].at \in {"payout", "sent"}
  <2>1. c \in Nat
    BY <1>0, ChannelIs
  <2> QED
    BY <1>0, <2>1 DEF Brings, Sending
<1>2. CASE Quiet(t)
  BY <1>1, <1>2 DEF Quiet, Writable
<1>3. CASE Succeeds(t) \/ Starts(t) \/ Ratchets(t) \/ Tells(t)
  BY <1>1, <1>3 DEF Succeeds, Starts, Ratchets, Tells, Sending, Telling
<1>4. CASE Writes(t) /\ task[t].at = "payout"
  <2>1. /\ k.at = "sent" /\ k.prev = task[t].prev /\ k.tmpl = task[t].tmpl
        /\ k.why = task[t].why /\ k.c = task[t].c
    BY <1>0, <1>4 DEF Writes, CallRec, CallFields
  <2> QED
    BY <1>0, <1>1, <2>1 DEF Brings, Sending
<1>5. CASE Records(t)
  <2>1. PICK next :
          /\ IsRecorded(t, chan[task[t].c], next[task[t].c])
          /\ chan' = next /\ task'[t] = [task[t] EXCEPT !.at = "prev"]
    BY <1>1, <1>5 DEF Records
  <2>2. /\ k.at = "prev" /\ k.prev = task[t].prev /\ k.tmpl = task[t].tmpl
        /\ k.why = task[t].why /\ k.c = task[t].c
    BY <1>0, <2>1 DEF CallRec, CallFields
  <2>3. CASE task[t].c = c
    <3>0. task[t].at = "sent"
      BY <1>5 DEF Records
    <3>1. chan'[c].tip = tmpls[task[t].built].tip
      BY <1>0, <1>1, <2>1, <2>3 DEF IsRecorded
    <3>2. task[t].built = task[t].tmpl
      BY <1>1, <2>3 DEF SendOK
    <3> QED
      BY <1>1, <2>2, <2>3, <3>0, <3>1, <3>2
  <2>4. CASE task[t].why # "open" /\ task[t].c < c
    BY <1>0, <1>1, <2>2, <2>4 DEF Brings, Sending
  <2> QED
    BY <1>1, <2>3, <2>4
<1>6. CASE Skips(t)
  <2>1. PICK ch : /\ Settled(chan, ch) /\ Follows(t, ch)
                  /\ task[t].at = "payout" /\ task[t].prev => ch[task[t].c].raced
    BY <1>6 DEF Skips
  <2>2. task[t].at \in {"payout", "prev"}
    BY <1>1, <1>6 DEF Skips, Sending
  <2>3. task[t].c # c
    <3>1. task[t].c = c => chan'[c].raced
      BY <1>0, <1>1, <2>1, <2>2 DEF Follows, Settled, SameWork
    <3> QED
      BY <3>1
  <2>4. Continues(t, ch) /\ task[t].c < c
    BY <1>1, <2>1, <2>3 DEF Follows, Ended, Subscribes
  <2>5. Dispatched(t, ch, task[t], task[t].c, Newest, chan', k) /\ c > task[t].c
    BY <1>0, <2>4, ChannelIs DEF Continues
  <2>6. /\ k.at = "payout" /\ k.prev = task[t].prev /\ k.tmpl = task[t].tmpl
        /\ k.why = task[t].why /\ (k.c = c \/ k.c < c)
    BY <1>0, <2>5, DispatchedOn
  <2>7. task[t].why # "open"
    BY <2>4 DEF Continues
  <2> QED
    BY <1>0, <1>1, <2>6, <2>7 DEF Brings, Sending
<1> QED
  BY <1>2, <1>3, <1>4, <1>5, <1>6 DEF GoesOn

\* A call that has just been made brings nothing to a channel, or the tip.
LEMMA FedGoesOn ==
    ASSUME Typed, NameInv, FedInv, SendInv, NEW t \in Task, GoesOn(t), Steady(t),
           store'.tip = store.tip, Writable' => Writable
    PROVE  FedInv'
<1>0. /\ UNCHANGED <<tmpls, channels>> /\ channels \subseteq Channel
      /\ \A u \in Task \ {t} : task'[u] = task[u]
  BY DEF Steady, Typed, WorldTyped
<1> SUFFICES ASSUME Writable, Writable', NEW c \in channels,
                    chan'[c].kind # "extended", ~chan'[c].raced, ~chan'[c].jd,
                    \/ chan'[c].tip \notin {Nowhere, store.tip}
                    \/ \E u \in Task : Brought(u, c)'
             PROVE  Coming(c)'
  BY <1>0 DEF FedInv, Fed
<1>1. /\ c \in Channel /\ chan[c].kind # "extended" /\ ~chan[c].raced /\ ~chan[c].jd
  BY <1>0 DEF Steady
<1>2. ASSUME NEW u \in Task \ {t}
      PROVE  (Brought(u, c)' => Brought(u, c)) /\ (Brings(u, c) => Brings(u, c)')
  BY <1>0 DEF Brought, Brings
<1>3. chan'[c].tip = chan[c].tip \/ Brought(t, c)
  <2>1. CASE Writes(t) \/ \A d \in Channel : SameWork(chan[d], chan'[d])
    BY <1>1, <2>1 DEF Writes, Written, SameWork
  <2>2. CASE Records(t)
    <3>1. PICK next :
            /\ IsRecorded(t, chan[task[t].c], next[task[t].c])
            /\ \A d \in Channel \ {task[t].c} : next[d] = chan[d]
            /\ chan' = next \/ Follows(t, next)
      BY <2>2 DEF Records
    <3>2. chan'[c].tip = next[c].tip
      BY <1>1, <3>1 DEF Follows, Settled, SameWork
    <3>3. CASE task[t].c = c
      BY <2>2, <3>1, <3>2, <3>3 DEF IsRecorded, Brought, Records
    <3>4. CASE task[t].c # c
      BY <1>1, <3>1, <3>2, <3>4
    <3> QED
      BY <3>3, <3>4
  <2> QED
    BY <2>1, <2>2, Touches
<1>4. Coming(c) \/ Coming(c)'
  <2>1. ASSUME chan[c].tip \notin {Nowhere, store.tip} \/ \E u \in Task : Brought(u, c)
        PROVE  Coming(c)
    BY <1>1, <2>1 DEF FedInv, Fed
  <2>2. ASSUME Brought(t, c)' PROVE Coming(c) \/ Coming(c)'
    <3>1. Brought(t, c) \/ Brings(t, c)'
      BY <1>0, <1>1, <2>2, BroughtOn
    <3>2. Brings(t, c)' => Coming(c)'
      BY DEF Coming
    <3> QED
      BY <2>1, <3>1, <3>2
  <2>3. ASSUME NEW u \in Task \ {t}, Brought(u, c)' PROVE Coming(c)
    BY <1>2, <2>1, <2>3
  <2>4. ASSUME chan'[c].tip \notin {Nowhere, store.tip} PROVE Coming(c)
    BY <1>3, <2>1, <2>4
  <2>5. ASSUME NEW u \in Task, Brought(u, c)' PROVE Coming(c) \/ Coming(c)'
    BY <2>2, <2>3, <2>5
  <2> QED
    BY <2>4, <2>5
<1>5. ASSUME NEW u \in Task \ {t}, Brings(u, c) PROVE Coming(c)'
  <2>1. Brings(u, c)'
    BY <1>2, <1>5
  <2> QED
    BY <2>1 DEF Coming
<1>6. ASSUME Brings(t, c), ~Brings(t, c)' PROVE Coming(c)'
  <2>1. /\ task[t].at = "sent" /\ task[t].c = c /\ task'[t].at = "prev"
        /\ chan'[c].tip = store.tip
    BY <1>1, <1>6, BringsOn DEF SendInv
  <2>2. PICK u \in Task : Brought(u, c)'
    BY <2>1
  <2>3. u # t
    BY <2>1, <2>2 DEF Brought
  <2>4. Brought(u, c)
    BY <1>2, <2>2, <2>3
  <2>5. chan[c].raced
    BY <2>1, <2>3, <2>4 DEF NameInv, Brought, Sending
  <2> QED
    BY <1>1, <2>5
<1> QED
  BY <1>4, <1>5, <1>6 DEF Coming

-------------------------------------------------------------------------------
(* What the miner hashes. *)

\* Jobs that stay keep their template, and templates their tip.
JobsKept ==
    \A i \in DOMAIN store'.jobs \ {store.nextJob} :
        i \in DOMAIN store.jobs /\ store'.jobs[i].tmpl = store.jobs[i].tmpl
TipsKept == \A b \in 1..Newest : tmpls'[b].tip = tmpls[b].tip

LEMMA HashedSame ==
    ASSUME NEW c, NEW j, Hashed(c, j), SameWork(chan[c], chan'[c]), Issued(c), JobsKept, TipsKept,
           JobsTimely, store.nextJob \in Nat
    PROVE  Hashed(c, j)'
<1>1. PICK r, s : r = chan[c] /\ s = chan'[c]
  OBVIOUS
<1>2. /\ s.kind = r.kind /\ s.mined = r.mined /\ s.roots \subseteq r.roots
      /\ \A i \in DOMAIN s.ext : i \in DOMAIN r.ext /\ s.ext[i].prev = r.ext[i].prev
  BY <1>1 DEF SameWork
<1>3. ASSUME j \in s.roots, j \in DOMAIN store'.jobs
      PROVE  /\ j \in r.roots /\ j \in DOMAIN store.jobs
             /\ tmpls'[store'.jobs[j].tmpl].tip = tmpls[store.jobs[j].tmpl].tip
  <2>1. j # store.nextJob
    BY <1>1, <1>2, <1>3 DEF Issued, Before
  <2>2. j \in DOMAIN store.jobs /\ store'.jobs[j].tmpl = store.jobs[j].tmpl
    BY <1>3, <2>1 DEF JobsKept
  <2>3. store.jobs[j].tmpl \in 1..Newest
    BY <2>2 DEF JobsTimely, JobTimely
  <2> QED
    BY <1>2, <1>3, <2>2, <2>3 DEF TipsKept
<1> QED
  BY <1>1, <1>2, <1>3 DEF Hashed

LEMMA MinedSame ==
    ASSUME NEW c, MinedOK(c), SameWork(chan[c], chan'[c]), Issued(c), JobsKept, TipsKept,
           JobsTimely, store.nextJob \in Nat, Writable' => Writable
    PROVE  MinedOK(c)'
<1>1. PICK r, s : r = chan[c] /\ s = chan'[c]
  OBVIOUS
<1>2. /\ s.kind = r.kind /\ s.mined = r.mined /\ s.shared = r.shared /\ s.last = r.last
      /\ s.latest = r.latest /\ s.tip = r.tip /\ (r.raced => s.raced)
      /\ DOMAIN s.asked = DOMAIN r.asked
  BY <1>1 DEF SameWork
<1>3. ASSUME NEW j, Hashed(c, j) PROVE Hashed(c, j)'
  BY <1>3, HashedSame
<1>4. ASSUME ~s.raced, NEW j \in DOMAIN s.mined \ s.shared PROVE Hashed(c, j)'
  BY <1>1, <1>2, <1>3, <1>4 DEF MinedOK
<1>5. /\ DOMAIN s.mined \subseteq DOMAIN s.asked
      /\ s.tip # Nowhere => s.last # 0
      /\ Writable' /\ s.kind = "extended" /\ s.tip # Nowhere => s.latest = s.tip
  BY <1>1, <1>2 DEF MinedOK
<1> QED
  BY <1>1, <1>4, <1>5 DEF MinedOK

\* What a send relies on stays.
LEMMA SendSame ==
    ASSUME NEW u, SendOK(u), task'[u] = task[u], JobsKept, TipsKept, KnownCall(task[u]),
           task[u].at \in Sending => SameWork(chan[task[u].c], chan'[task[u].c]),
           task[u].at = "sent" => task[u].job # store.nextJob, Writable' => Writable
    PROVE  SendOK(u)'
<1>1. PICK k : k = task[u]
  OBVIOUS
<1>2. PICK r, s : r = chan[k.c] /\ s = chan'[k.c]
  OBVIOUS
<1>3. CASE k.at \in Sending
  <2>1. /\ s.kind = r.kind /\ s.mined = r.mined /\ s.shared = r.shared /\ s.last = r.last
        /\ s.latest = r.latest /\ s.tip = r.tip /\ (r.raced => s.raced)
    BY <1>1, <1>2, <1>3 DEF SameWork
  <2>2. tmpls'[k.built].tip = tmpls[k.built].tip
    BY <1>1, <1>3 DEF KnownCall, TipsKept
  <2>3. k.at = "sent" /\ k.job \in DOMAIN store'.jobs => store'.jobs[k.job].tmpl = k.built
    BY <1>1 DEF JobsKept, SendOK
  <2> QED
    BY <1>1, <1>2, <1>3, <2>1, <2>2, <2>3 DEF SendOK
<1>4. CASE k.at \notin Sending
  BY <1>1, <1>4 DEF SendOK, Sending
<1> QED
  BY <1>3, <1>4

LEMMA SendIdle == ASSUME NEW u, task'[u].at \notin Sending PROVE SendOK(u)'
  BY DEF SendOK, Sending

\* Nothing is said of a send to a channel that is raced, but what it is made of.
LEMMA SendRaced ==
    ASSUME NEW u, SendOK(u), task'[u] = task[u], JobsKept,
           chan'[task[u].c].kind = chan[task[u].c].kind, chan'[task[u].c].raced,
           Writable' /\ chan[task[u].c].last # 0 => chan'[task[u].c].last # 0,
           task[u].at = "sent" => task[u].job # store.nextJob, Writable' => Writable
    PROVE  SendOK(u)'
<1>1. PICK k : k = task[u]
  OBVIOUS
<1>2. PICK r, s : r = chan[k.c] /\ s = chan'[k.c]
  OBVIOUS
<1>3. k.at = "sent" /\ k.job \in DOMAIN store'.jobs => store'.jobs[k.job].tmpl = k.built
  BY <1>1 DEF JobsKept, SendOK
<1>4. s.kind = r.kind /\ s.raced /\ (Writable' /\ r.last # 0 => s.last # 0)
  BY <1>1, <1>2
<1> QED
  BY <1>1, <1>2, <1>3, <1>4 DEF SendOK

\* A send that starts now is for the block its miner hashes on.
LEMMA SendFresh ==
    ASSUME Typed, FedInv', NEW t \in Task, \A u \in Task \ {t} : task'[u] = task[u],
           NEW o, o = t \/ o \notin Task, NEW call,
           Sends(o, chan', call, Newest', task'[t]),
           \A u \in Task \ {t} :
               ~(task[u].why = "publish" /\ call.why = "publish" /\ task[u].tmpl = call.tmpl),
           tmpls'[Newest'].tip = store'.tip,
           task'[t].c \in channels', ~task'[t].prev => ~chan'[task'[t].c].jd
    PROVE  SendOK(t)'
<1>1. PICK k, c : k = task'[t] /\ c = task'[t].c
  OBVIOUS
<1>2. PICK s : s = chan'[c]
  OBVIOUS
<1>3. /\ k.at = "payout" /\ k.c = c /\ k.tmpl = call.tmpl
      /\ s.kind # "extended" => k.built = k.tmpl
      /\ ~s.raced => k.tmpl = Newest' /\ ~Overlaps(o, c, call)
  BY <1>1, <1>2 DEF Sends
<1>4. ASSUME ~k.prev, ~s.raced, s.kind # "extended", Writable'
      PROVE  s.tip \in {Nowhere, tmpls'[k.built].tip}
  <2>1. tmpls'[k.built].tip = store'.tip
    BY <1>3, <1>4
  <2>2. Fed(c)'
    BY <1>1, <1>4 DEF FedInv
  <2>3. ASSUME NEW u \in Task, Brings(u, c)' PROVE FALSE
    <3>1. u # t
      BY <1>1, <1>4, <2>3 DEF Brings
    <3>2. /\ task'[u] = task[u] /\ task[u].at \in Sending
          /\ task[u].c = c \/ (task[u].why # "open" /\ task[u].c < c)
      BY <2>3, <3>1 DEF Brings, Sending
    <3>3. u \in Task \ {o}
      BY <3>1
    <3>4. Overlaps(o, c, call)
      BY <3>1, <3>2, <3>3 DEF Overlaps
    <3> QED
      BY <1>3, <1>4, <3>4
  <2>4. ~Coming(c)'
    BY <2>3 DEF Coming
  <2> QED
    BY <1>1, <1>2, <1>4, <2>1, <2>2, <2>4 DEF Fed
<1> QED
  BY <1>1, <1>2, <1>3, <1>4 DEF SendOK

\* A job is written: what its miner hashes it on is what it will be recorded with.
LEMMA MinedWritten ==
    ASSUME NEW t \in Task, NEW c, c = task[t].c, Written(t, chan[c], chan'[c]), MinedOK(c),
           Issued(c), JobsKept, TipsKept, JobsTimely,
           store.nextJob \in Nat \ {0}, Writable' => Writable
    PROVE  MinedOK(c)'
<1>1. PICK r, s, j : r = chan[c] /\ s = chan'[c] /\ j = store.nextJob
  OBVIOUS
<1>2. /\ s.kind = r.kind /\ s.tip = r.tip /\ s.latest = r.latest /\ s.raced = r.raced
      /\ s.roots = r.roots /\ s.ext = r.ext
      /\ s.shared = r.shared \cup ({j} \cap DOMAIN r.asked)
      /\ s.asked = (IF Writable THEN With(r.asked, j, {r.told}) ELSE r.asked)
      /\ s.mined = (IF Writable THEN With(r.mined, j, IF task[t].prev THEN Nowhere ELSE r.tip)
                    ELSE r.mined)
      /\ s.last = (IF Writable THEN j ELSE r.last)
  BY <1>1 DEF Written
<1>3. /\ DOMAIN r.mined \subseteq DOMAIN r.asked
      /\ r.tip # Nowhere => r.last # 0
      /\ Writable /\ r.kind = "extended" /\ r.tip # Nowhere => r.latest = r.tip
      /\ ~r.raced => \A i \in DOMAIN r.mined \ r.shared : Hashed(c, i)
  BY <1>1 DEF MinedOK
<1>4. /\ DOMAIN s.mined \subseteq DOMAIN s.asked
      /\ s.tip # Nowhere => s.last # 0
      /\ Writable' /\ s.kind = "extended" /\ s.tip # Nowhere => s.latest = s.tip
  <2>1. DOMAIN s.mined \subseteq DOMAIN s.asked
    BY <1>2, <1>3 DEF With
  <2>2. j # 0
    BY <1>1
  <2>3. s.tip # Nowhere => s.last # 0
    BY <1>2, <1>3, <2>2
  <2>4. Writable' /\ s.kind = "extended" /\ s.tip # Nowhere => s.latest = s.tip
    BY <1>2, <1>3
  <2> QED
    BY <2>1, <2>3, <2>4
<1>5. ASSUME NEW i \in DOMAIN s.mined \ s.shared, i # j, Hashed(c, i) PROVE Hashed(c, i)'
  <2>1. s.mined[i] = r.mined[i]
    BY <1>2, <1>5 DEF With
  <2>2. i \in s.roots /\ i \in DOMAIN store'.jobs =>
           /\ i \in DOMAIN store.jobs
           /\ tmpls'[store'.jobs[i].tmpl].tip = tmpls[store.jobs[i].tmpl].tip
    BY <1>1, <1>5 DEF JobsKept, TipsKept, JobsTimely, JobTimely
  <2> QED
    BY <1>1, <1>2, <1>5, <2>1, <2>2 DEF Hashed
<1>6. ASSUME j \in DOMAIN s.mined \ s.shared PROVE Hashed(c, j)'
  <2>1. j \notin DOMAIN r.asked
    BY <1>2, <1>6
  <2>2. Writable
    BY <1>2, <1>3, <1>6, <2>1
  <2>3. j \notin s.roots /\ j \notin DOMAIN s.ext
    BY <1>1, <1>2, <2>1, <2>2 DEF Issued, Given
  <2> QED
    BY <1>1, <2>3 DEF Hashed
<1>7. ASSUME ~s.raced, NEW i \in DOMAIN s.mined \ s.shared PROVE Hashed(c, i)'
  <2>1. CASE i = j
    BY <1>6, <1>7, <2>1
  <2>2. CASE i # j
    <3>1. i \in DOMAIN r.mined \ r.shared
      BY <1>2, <1>7, <2>2 DEF With
    <3> QED
      BY <1>2, <1>3, <1>5, <1>7, <2>2, <3>1
  <2> QED
    BY <2>1, <2>2
<1> QED
  BY <1>1, <1>4, <1>7 DEF MinedOK

LEMMA SendWritten ==
    ASSUME NEW t \in Task, Writes(t), task[t].at = "payout", MinedOK(task[t].c), SendOK(t),
           CallRec(task[t]), KnownCall(task[t]), DOMAIN store = StoreFields, UNCHANGED tmpls,
           store.nextJob \in Nat \ {0}, Writable' => Writable
    PROVE  SendOK(t)'
<1>1. PICK c, j : c = task[t].c /\ j = store.nextJob
  OBVIOUS
<1>2. PICK r, s : r = chan[c] /\ s = chan'[c]
  OBVIOUS
<1>3. PICK k, l : k = task[t] /\ l = task'[t]
  OBVIOUS
<1>4. /\ l.at = "sent" /\ l.c = c /\ l.job = j /\ l.tmpl = k.tmpl /\ l.built = k.built
      /\ l.prev = k.prev
  BY <1>1, <1>3 DEF Writes, CallRec, CallFields
<1>5. /\ s.kind = r.kind /\ s.tip = r.tip /\ s.latest = r.latest /\ s.raced = r.raced
      /\ s.shared = r.shared \cup ({j} \cap DOMAIN r.asked)
      /\ s.mined = (IF Writable THEN With(r.mined, j, IF k.prev THEN Nowhere ELSE r.tip)
                    ELSE r.mined)
      /\ s.last = (IF Writable THEN j ELSE r.last)
  BY <1>1, <1>2, <1>3 DEF Writes, Written
<1>6. j \in DOMAIN store'.jobs => store'.jobs[j].tmpl = k.built
  <2>1. store' = AddJob(store, StoreJob(k.built, k.route))
    BY <1>3 DEF Writes
  <2>2. store'.jobs[j] = StoreJob(k.built, k.route)
    BY <1>1, <2>1 DEF AddJob, StoreFields
  <2> QED
    BY <2>2 DEF StoreJob
<1>7. s.kind # "extended" => k.built = k.tmpl
  BY <1>1, <1>2, <1>3, <1>5 DEF SendOK, Sending
<1>8. Writable' => s.last # 0
  BY <1>1, <1>5
<1>9. ASSUME ~s.raced, j \in DOMAIN s.mined \ s.shared
      PROVE  \/ s.mined[j] = Nowhere
             \/ ~k.prev /\ s.mined[j] = IF s.kind = "extended" THEN s.latest
                                        ELSE tmpls[k.built].tip
  <2>1. DOMAIN r.mined \subseteq DOMAIN r.asked
    BY <1>1, <1>2 DEF MinedOK
  <2>2. Writable
    BY <1>5, <1>9, <2>1
  <2>3. s.mined[j] = IF k.prev THEN Nowhere ELSE r.tip
    BY <1>5, <2>2 DEF With
  <2>4. r.kind = "extended" /\ r.tip # Nowhere => r.latest = r.tip
    BY <1>1, <1>2, <2>2 DEF MinedOK
  <2>5. ~k.prev /\ r.kind # "extended" => r.tip \in {Nowhere, tmpls[k.built].tip}
    BY <1>1, <1>2, <1>3, <1>5, <1>9, <2>2 DEF SendOK
  <2> QED
    BY <1>5, <2>3, <2>4, <2>5
<1> QED
  BY <1>1, <1>2, <1>3, <1>4, <1>6, <1>7, <1>8, <1>9 DEF SendOK

\* A job is recorded with the block its miner hashes on.
LEMMA MinedRecorded ==
    ASSUME NEW t \in Task, NEW c, c = task[t].c, task[t].at = "sent", NEW m,
           IsRecorded(t, chan[c], m), SameWork(m, chan'[c]), MinedOK(c), SendOK(t),
           Given(c, task[t].job), KnownCall(task[t]), Issued(c), StoreShrinks,
           UNCHANGED tmpls, Writable' => Writable
    PROVE  MinedOK(c)'
<1>1. PICK r, s, j : r = chan[c] /\ s = chan'[c] /\ j = task[t].job
  OBVIOUS
<1>2. PICK k, tip : k = task[t] /\ tip = tmpls[task[t].built].tip
  OBVIOUS
<1>3. PICK e, p : /\ e = ExtJob(k.tmpl, k.built, PrevHash(t), k.route, After(r.ext)) /\ e.prev = p
                  /\ p = IF k.prev THEN tip ELSE r.latest
  BY <1>1, <1>2, ExtJobIs DEF PrevHash
<1>4. PICK named \in BOOLEAN : named <=> k.prev /\ Writable
  OBVIOUS
<1>5. /\ m.kind = r.kind /\ m.shared = r.shared /\ m.asked = r.asked /\ m.last = r.last
      /\ m.raced = r.raced
      /\ m.roots = (IF r.kind = "extended" THEN r.roots ELSE r.roots \cup {j})
      /\ m.ext = (IF r.kind = "extended" THEN With(r.ext, j, e) ELSE r.ext)
      /\ m.latest = (IF r.kind = "extended" THEN p ELSE r.latest)
      /\ m.tip = (IF named THEN tip ELSE r.tip)
      /\ m.mined = (IF named THEN With(r.mined, j, tip) ELSE r.mined)
  BY <1>1, <1>2, <1>3, <1>4, ExtJobIs DEF IsRecorded, PrevHash
<1>6. /\ s.kind = m.kind /\ s.mined = m.mined /\ s.shared = m.shared /\ s.last = m.last
      /\ s.latest = m.latest /\ s.tip = m.tip /\ (m.raced => s.raced)
      /\ DOMAIN s.asked = DOMAIN m.asked /\ s.roots \subseteq m.roots
      /\ \A i \in DOMAIN s.ext : i \in DOMAIN m.ext /\ s.ext[i].prev = m.ext[i].prev
  BY <1>1 DEF SameWork
<1>7. /\ DOMAIN r.mined \subseteq DOMAIN r.asked
      /\ r.tip # Nowhere => r.last # 0
      /\ Writable /\ r.kind = "extended" /\ r.tip # Nowhere => r.latest = r.tip
      /\ ~r.raced => \A i \in DOMAIN r.mined \ r.shared : Hashed(c, i)
  BY <1>1 DEF MinedOK
<1>8. /\ Writable => r.last # 0 /\ j \in DOMAIN r.asked
      /\ j \in DOMAIN store.jobs => store.jobs[j].tmpl = k.built
      /\ ~r.raced /\ j \in DOMAIN r.mined \ r.shared =>
            \/ r.mined[j] = Nowhere
            \/ ~k.prev /\ r.mined[j] = IF r.kind = "extended" THEN r.latest ELSE tip
  BY <1>1, <1>2 DEF SendOK, Given
<1>9. DOMAIN s.mined \subseteq DOMAIN s.asked
  BY <1>4, <1>5, <1>6, <1>7, <1>8 DEF With
<1>10. s.tip # Nowhere => s.last # 0
  BY <1>4, <1>5, <1>6, <1>7, <1>8
<1>11. Writable' /\ s.kind = "extended" /\ s.tip # Nowhere => s.latest = s.tip
  BY <1>3, <1>4, <1>5, <1>6, <1>7
<1>12. ASSUME NEW i \in DOMAIN s.mined, i # j, Hashed(c, i) PROVE Hashed(c, i)'
  <2>1. s.mined[i] = r.mined[i]
    BY <1>5, <1>6, <1>12 DEF With
  <2>2. i \in s.roots /\ s.kind # "extended" => i \in r.roots
    BY <1>5, <1>6, <1>12
  <2>3. i \in DOMAIN s.ext => i \in DOMAIN r.ext /\ s.ext[i].prev = r.ext[i].prev
    BY <1>5, <1>6, <1>12 DEF With
  <2>4. i \in DOMAIN store'.jobs =>
           /\ i \in DOMAIN store.jobs
           /\ tmpls'[store'.jobs[i].tmpl].tip = tmpls[store.jobs[i].tmpl].tip
    BY DEF StoreShrinks
  <2> QED
    BY ZenonT(60), <1>1, <1>5, <1>6, <1>12, <2>1, <2>2, <2>3, <2>4 DEF Hashed
<1>13. ASSUME ~r.raced, j \in DOMAIN s.mined \ s.shared PROVE Hashed(c, j)'
  <2>1. s.mined[j] = Nowhere \/ (named /\ s.mined[j] = tip)
        \/ (~k.prev /\ s.mined[j] = IF r.kind = "extended" THEN r.latest ELSE tip)
    <3>1. CASE named
      BY <1>5, <1>6, <3>1 DEF With
    <3>2. CASE ~named
      BY <1>5, <1>6, <1>8, <1>13, <3>2
    <3> QED
      BY <3>1, <3>2
  <2>2. CASE r.kind = "extended"
    <3>1. s.mined[j] = Nowhere \/ s.mined[j] = p
      BY <1>3, <1>4, <2>1, <2>2
    <3>2. j \in DOMAIN s.ext => s.ext[j].prev = p
      BY <1>3, <1>5, <1>6, <2>2 DEF With
    <3>3. s.kind = "extended"
      BY <1>5, <1>6, <2>2
    <3> QED
      BY <1>1, <3>1, <3>2, <3>3 DEF Hashed
  <2>3. CASE r.kind # "extended"
    <3>1. s.mined[j] = Nowhere \/ s.mined[j] = tip
      BY <2>1, <2>3
    <3>2. j \in DOMAIN store'.jobs => tmpls'[store'.jobs[j].tmpl].tip = tip
      BY <1>2, <1>8 DEF StoreShrinks
    <3>3. s.kind # "extended"
      BY <1>5, <1>6, <2>3
    <3> QED
      BY <1>1, <3>1, <3>2, <3>3 DEF Hashed
  <2> QED
    BY <2>2, <2>3
<1>14. ASSUME ~s.raced, NEW i \in DOMAIN s.mined \ s.shared PROVE Hashed(c, i)'
  <2>1. ~r.raced
    BY <1>5, <1>6, <1>14
  <2>2. CASE i = j
    BY <1>13, <1>14, <2>1, <2>2
  <2>3. CASE i # j
    <3>1. i \in DOMAIN r.mined \ r.shared
      BY <1>5, <1>6, <1>14, <2>3 DEF With
    <3> QED
      BY <1>7, <1>12, <1>14, <2>1, <2>3, <3>1
  <2> QED
    BY <2>2, <2>3
<1> QED
  BY <1>1, <1>9, <1>10, <1>11, <1>14 DEF MinedOK

\* A job is recorded: what it is made of stays.
LEMMA SendRecorded ==
    ASSUME NEW t \in Task, SendOK(t), Typed, Steady(t), task[t].at = "sent",
           task[t].c \in Channel, task'[t] = [task[t] EXCEPT !.at = "prev"]
    PROVE  SendOK(t)'
<1>1. PICK k, l : k = task[t] /\ l = task'[t]
  OBVIOUS
<1>2. l.at = "prev" /\ l.c = k.c /\ l.built = k.built /\ l.tmpl = k.tmpl
  BY <1>1, TypedCalls DEF CallRec, CallFields
<1>3. chan'[k.c].kind = chan[k.c].kind
  BY <1>1 DEF Steady
<1>4. chan[k.c].kind # "extended" => k.built = k.tmpl
  BY <1>1 DEF SendOK, Sending
<1> QED
  BY <1>1, <1>2, <1>3, <1>4 DEF SendOK

-------------------------------------------------------------------------------
(* The calls keep the headers. *)

LEMMA JobsKeptOn ==
    ASSUME Typed, NEW t \in Task, StoreShrinks \/ Writes(t)
    PROVE  JobsKept /\ store'.tip = store.tip
<1>1. CASE StoreShrinks
  BY <1>1 DEF StoreShrinks, JobsKept
<1>2. CASE Writes(t)
  <2> DEFINE e == StoreJob(task[t].built, task[t].route)
  <2>1. DOMAIN store = StoreFields /\ store' = AddJob(store, e)
    BY <1>2 DEF Typed, StoreTyped, Writes
  <2> HIDE DEF e
  <2> QED
    BY <2>1 DEF AddJob, StoreFields, JobsKept
<1> QED
  BY <1>1, <1>2

\* The channel that a recording step ends with.
LEMMA RecordsIs ==
    ASSUME Typed, NEW t \in Task, Records(t)
    PROVE  \E m : /\ IsRecorded(t, chan[task[t].c], m) /\ SameWork(m, chan'[task[t].c])
                  /\ \A d \in Channel \ {task[t].c} : SameWork(chan[d], chan'[d])
<1>1. PICK next :
        /\ IsRecorded(t, chan[task[t].c], next[task[t].c])
        /\ \A d \in Channel \ {task[t].c} : next[d] = chan[d]
        /\ chan' = next \/ Follows(t, next)
  BY DEF Records
<1>2. \A d \in Channel : SameWork(next[d], chan'[d])
  BY <1>1, SameWorkSelf DEF Follows, Settled
<1>3. SameWork(next[task[t].c], chan'[task[t].c])
  BY <1>2 DEF Records
<1>4. \A d \in Channel \ {task[t].c} : SameWork(chan[d], chan'[d])
  BY <1>1, <1>2
<1> QED
  BY <1>1, <1>3, <1>4

LEMMA MinedGoesOn ==
    ASSUME Typed, OnceInv, LateInv, MinedInv, SendInv, NEW t \in Task, GoesOn(t), Steady(t),
           StoreShrinks \/ (Writes(t) /\ task[t].at = "payout"), sock' = "open" => sock = "open"
    PROVE  MinedInv'
<1>1. /\ UNCHANGED tmpls /\ JobsKept /\ TipsKept /\ JobsTimely /\ store.nextJob \in Nat
      /\ Writable' => Writable
  BY JobsKeptOn DEF Steady, TipsKept, LateInv, OnceInv, Writable
<1> SUFFICES ASSUME NEW c \in Channel PROVE MinedOK(c)'
  BY DEF MinedInv
<1>2. MinedOK(c) /\ Issued(c)
  BY DEF MinedInv, OnceInv
<1>3. ASSUME SameWork(chan[c], chan'[c]) PROVE MinedOK(c)'
  BY <1>1, <1>2, <1>3, MinedSame
<1>4. CASE Writes(t) /\ task[t].at = "payout"
  <2>1. CASE c = task[t].c
    <3>1. Written(t, chan[c], chan'[c]) /\ store.nextJob \in Nat \ {0}
      BY <1>4, <2>1 DEF Writes, Job
    <3> QED
      BY <1>1, <1>2, <2>1, <3>1, MinedWritten
  <2>2. CASE c # task[t].c
    BY <1>3, <1>4, <2>2, SameWorkSelf DEF Writes
  <2> QED
    BY <2>1, <2>2
<1>5. CASE Records(t)
  <2>1. PICK m : /\ IsRecorded(t, chan[task[t].c], m) /\ SameWork(m, chan'[task[t].c])
                 /\ \A d \in Channel \ {task[t].c} : SameWork(chan[d], chan'[d])
    BY <1>5, RecordsIs
  <2>2. CASE c = task[t].c
    <3>1. /\ task[t].at = "sent" /\ Given(c, task[t].job) /\ KnownCall(task[t]) /\ SendOK(t)
      BY <1>5, <2>2 DEF Records, OnceInv, FreshJob, LateInv, CallsKnown, SendInv
    <3>2. StoreShrinks
      BY <3>1
    <3>3. IsRecorded(t, chan[c], m) /\ SameWork(m, chan'[c])
      BY <2>1, <2>2
    <3> QED
      BY <1>1, <1>2, <2>2, <3>1, <3>2, <3>3, MinedRecorded
  <2>3. CASE c # task[t].c
    BY <1>3, <2>1, <2>3
  <2> QED
    BY <2>2, <2>3
<1>6. CASE \A d \in Channel : SameWork(chan[d], chan'[d])
  BY <1>3, <1>6
<1> QED
  BY <1>4, <1>5, <1>6, Touches

LEMMA SendGoesOn ==
    ASSUME Typed, NameInv, OnceInv, LateInv, MinedInv, SendInv, FedInv',
           NEW t \in Task, GoesOn(t), Steady(t),
           StoreShrinks \/ (Writes(t) /\ task[t].at = "payout"), sock' = "open" => sock = "open"
    PROVE  SendInv'
<1>1. /\ UNCHANGED tmpls /\ JobsKept /\ TipsKept /\ (Writable' => Writable)
      /\ store'.tip = store.tip /\ Newest' = Newest
      /\ \A u \in Task \ {t} : task'[u] = task[u]
  BY JobsKeptOn DEF Steady, TipsKept, Writable, Newest
<1>2. ASSUME NEW u \in Task
      PROVE  /\ SendOK(u) /\ KnownCall(task[u]) /\ CallRec(task[u])
             /\ task[u].at \in Sending => task[u].c \in Channel
             /\ task[u].at = "sent" => task[u].job # store.nextJob
  BY TypedCalls DEF SendInv, LateInv, CallsKnown, OnceInv, FreshJob, Before, Sending, Working
<1>3. SendOK(t)'
  <2>1. CASE task'[t].at \notin Sending
    BY <2>1, SendIdle
  <2>2. CASE task'[t].at \in Sending
    <3>1. CASE Writes(t) /\ task[t].at = "payout"
      <4>1. task[t].c \in Channel /\ DOMAIN store = StoreFields /\ store.nextJob \in Nat \ {0}
        BY <1>2, <3>1 DEF Sending, Typed, StoreTyped, Writes, Job
      <4>2. MinedOK(task[t].c)
        BY <4>1 DEF MinedInv
      <4>3. SendOK(t) /\ CallRec(task[t]) /\ KnownCall(task[t])
        BY <1>2
      <4> QED
        BY <1>1, <3>1, <4>1, <4>2, <4>3, SendWritten
    <3>2. CASE Records(t) /\ task[t].at = "sent" /\ task'[t] = [task[t] EXCEPT !.at = "prev"]
      BY <1>2, <3>2, SendRecorded DEF Records
    <3>3. ASSUME NEW call, Sends(t, chan', call, Newest, task'[t]),
                 call.why = "publish" => task[t].why = "publish" /\ call.tmpl = task[t].tmpl,
                 task'[t].c \in channels, ~task'[t].prev => ~chan'[task'[t].c].jd
          PROVE  SendOK(t)'
      <4>1. Sends(t, chan', call, Newest', task'[t])
        BY <1>1, <3>3
      <4>2. \A u \in Task \ {t} :
               ~(task[u].why = "publish" /\ call.why = "publish" /\ task[u].tmpl = call.tmpl)
        BY <3>3 DEF NameInv
      <4>3. tmpls'[Newest'].tip = store'.tip
        <5>1. tmpls[Newest].tip = store.tip
          BY NewestTip
        <5> QED
          BY <1>1, <5>1
      <4>4. task'[t].c \in channels'
        BY <3>3 DEF Steady
      <4> QED
        BY <1>1, <3>3, <4>1, <4>2, <4>3, <4>4, SendFresh
    <3> QED
      BY <2>2, <3>1, <3>2, <3>3, SendsNext
  <2> QED
    BY <2>1, <2>2
<1>4. ASSUME NEW u \in Task \ {t} PROVE SendOK(u)'
  <2>a. PICK c : c = task[u].c
    OBVIOUS
  <2>0. task'[u] = task[u]
    BY <1>1
  <2>b. SendOK(u) /\ KnownCall(task[u]) /\ (task[u].at = "sent" => task[u].job # store.nextJob)
    BY <1>2
  <2>1. CASE task[u].at \notin Sending
    BY <2>0, <2>1, SendIdle
  <2>2. CASE task[u].at \in Sending /\ SameWork(chan[c], chan'[c])
    BY <1>1, <2>0, <2>2, <2>a, <2>b, SendSame
  <2>3. CASE /\ task[u].at \in Sending /\ task[t].at \in Sending /\ task[t].c = c
             /\ Writable' /\ chan[c].last # 0 => chan'[c].last # 0
    <3>1. c \in Channel /\ chan[c].raced
      BY <1>2, <2>3, <2>a DEF NameInv
    <3>2. chan'[c].kind = chan[c].kind /\ chan'[c].raced
      BY <3>1 DEF Steady
    <3> QED
      BY <1>1, <2>0, <2>3, <2>a, <2>b, <3>2, SendRaced
  <2>4. ASSUME task[u].at \in Sending, Writes(t) /\ task[t].at = "payout"
        PROVE  \/ SameWork(chan[c], chan'[c])
               \/ /\ task[t].at \in Sending /\ task[t].c = c
                  /\ Writable' /\ chan[c].last # 0 => chan'[c].last # 0
    <3>1. CASE task[t].c = c
      <4>1. Written(t, chan[c], chan'[c]) /\ store.nextJob # 0
        BY <2>4, <3>1 DEF Writes, Job
      <4>2. Writable' => chan'[c].last # 0
        <5>1. chan'[c].last = (IF Writable THEN store.nextJob ELSE chan[c].last)
          BY <4>1 DEF Written
        <5> QED
          BY <1>1, <4>1, <5>1
      <4> QED
        BY <2>4, <3>1, <4>2 DEF Sending
    <3>2. CASE task[t].c # c
      BY <1>2, <2>4, <2>a, <3>2, SameWorkSelf DEF Writes
    <3> QED
      BY <3>1, <3>2
  <2>5. ASSUME task[u].at \in Sending, Records(t)
        PROVE  \/ SameWork(chan[c], chan'[c])
               \/ /\ task[t].at \in Sending /\ task[t].c = c
                  /\ Writable' /\ chan[c].last # 0 => chan'[c].last # 0
    <3>1. PICK m : /\ IsRecorded(t, chan[task[t].c], m) /\ SameWork(m, chan'[task[t].c])
                   /\ \A d \in Channel \ {task[t].c} : SameWork(chan[d], chan'[d])
      BY <2>5, RecordsIs
    <3>2. CASE task[t].c = c
      <4>1. chan'[c].last = chan[c].last
        <5>1. m.last = chan[c].last
          BY <3>1, <3>2 DEF IsRecorded
        <5>2. chan'[c].last = m.last
          BY <3>1, <3>2 DEF SameWork
        <5> QED
          BY <5>1, <5>2
      <4> QED
        BY <2>5, <3>2, <4>1 DEF Records, Sending
    <3>3. CASE task[t].c # c
      BY <1>2, <2>5, <2>a, <3>1, <3>3
    <3> QED
      BY <3>2, <3>3
  <2>6. CASE task[u].at \in Sending /\ \A d \in Channel : SameWork(chan[d], chan'[d])
    BY <1>2, <2>2, <2>6, <2>a
  <2> QED
    BY <2>1, <2>2, <2>3, <2>4, <2>5, <2>6, Touches
<1> QED
  BY <1>3, <1>4 DEF SendInv

LEMMA HeadGoesOn ==
    ASSUME Typed, NameInv, OnceInv, LateInv, HeadInv, NEW t \in Task, GoesOn(t), Steady(t),
           StoreShrinks \/ (Writes(t) /\ task[t].at = "payout"), sock' = "open" => sock = "open"
    PROVE  HeadInv'
<1>1. store'.tip = store.tip /\ (Writable' => Writable)
  BY JobsKeptOn DEF Steady, Writable
<1>2. FedInv'
  BY <1>1, FedGoesOn DEF HeadInv
<1>3. MinedInv'
  BY MinedGoesOn DEF HeadInv
<1>4. SendInv'
  BY <1>2, SendGoesOn DEF HeadInv
<1> QED
  BY <1>2, <1>3, <1>4 DEF HeadInv

-------------------------------------------------------------------------------
(* Frames, the socket, the world. *)

\* Nobody begins or ends a send, and what is new at a channel is that it is open.
Alike(c) ==
    /\ c \in channels /\ chan'[c].kind = chan[c].kind /\ chan'[c].tip = chan[c].tip
    /\ (chan[c].raced => chan'[c].raced) /\ (chan[c].jd => chan'[c].jd)
Unheard(c) ==
    chan'[c].tip = Nowhere /\ \A u \in Task : task[u].c = c => task[u].at \notin Sending
Rests(t) ==
    /\ \A u \in Task \ {t} : task'[u] = task[u]
    /\ t \in Task => task[t].at \notin Sending /\ task'[t].at \notin Sending

LEMMA FedFrame ==
    ASSUME FedInv, UNCHANGED <<store, tmpls>>, Writable' => Writable, NEW t, Rests(t),
           \A c \in channels' : Alike(c) \/ Unheard(c)
    PROVE  FedInv'
<1> SUFFICES ASSUME Writable, NEW c \in channels',
                    chan'[c].kind # "extended", ~chan'[c].raced, ~chan'[c].jd,
                    \/ chan'[c].tip \notin {Nowhere, store.tip}
                    \/ \E u \in Task : Brought(u, c)'
             PROVE  Coming(c)'
  BY DEF FedInv, Fed
<1>1. ASSUME NEW u \in Task
      PROVE  (Brought(u, c)' => Brought(u, c)) /\ (Brings(u, c) => Brings(u, c)')
  <2>1. CASE u = t
    BY <2>1 DEF Brought, Brings, Rests, Sending
  <2>2. CASE u # t
    BY <2>2 DEF Brought, Brings, Rests
  <2> QED
    BY <2>1, <2>2
<1>2. Alike(c)
  <2>1. ASSUME Unheard(c) PROVE FALSE
    <3>1. PICK u \in Task : Brought(u, c)'
      BY <2>1 DEF Unheard
    <3> QED
      BY <1>1, <2>1, <3>1 DEF Unheard, Brought, Sending
  <2> QED
    BY <2>1
<1>3. Coming(c)
  <2>1. (\E u \in Task : Brought(u, c)') => \E u \in Task : Brought(u, c)
    BY <1>1
  <2>2. chan[c].tip \notin {Nowhere, store.tip} \/ \E u \in Task : Brought(u, c)
    BY <1>2, <2>1 DEF Alike
  <2>3. Fed(c)
    BY <1>2 DEF Alike, FedInv
  <2> QED
    BY <1>2, <2>2, <2>3 DEF Alike, Fed
<1>4. PICK u \in Task : Brings(u, c)
  BY <1>3 DEF Coming
<1>5. Brings(u, c)'
  BY <1>1, <1>4
<1> QED
  BY <1>5 DEF Coming

LEMMA MinedFrame ==
    ASSUME OnceInv, LateInv, MinedInv, UNCHANGED <<store, tmpls>>, Writable' => Writable,
           NEW d, \A c \in Channel \ {d} : SameWork(chan[c], chan'[c]),
           d \in Channel => MinedOK(d)'
    PROVE  MinedInv'
<1> SUFFICES ASSUME NEW c \in Channel PROVE MinedOK(c)'
  BY DEF MinedInv
<1>1. JobsKept /\ TipsKept /\ JobsTimely /\ store.nextJob \in Nat
  BY DEF JobsKept, TipsKept, LateInv, OnceInv
<1>2. MinedOK(c) /\ Issued(c)
  BY DEF MinedInv, OnceInv
<1>3. CASE c # d
  BY <1>1, <1>2, <1>3, MinedSame
<1> QED
  BY <1>3

LEMMA SendFrame ==
    ASSUME OnceInv, LateInv, SendInv, UNCHANGED <<store, tmpls>>, Writable' => Writable,
           NEW t, Rests(t), NEW u \in Task,
           task[u].at \in Sending => SameWork(chan[task[u].c], chan'[task[u].c])
    PROVE  SendOK(u)'
<1>1. JobsKept /\ TipsKept
  BY DEF JobsKept, TipsKept
<1>2. CASE u = t
  BY <1>2, SendIdle DEF Rests
<1>3. CASE u # t
  <2>1. SendOK(u) /\ KnownCall(task[u]) /\ (task[u].at = "sent" => task[u].job # store.nextJob)
    BY DEF SendInv, LateInv, CallsKnown, OnceInv, FreshJob, Before
  <2>2. task'[u] = task[u]
    BY <1>3 DEF Rests
  <2> QED
    BY <1>1, <2>1, <2>2, SendSame
<1> QED
  BY <1>2, <1>3

LEMMA HeadFrame ==
    ASSUME Typed, OnceInv, LateInv, HeadInv, UNCHANGED <<store, tmpls>>, Writable' => Writable,
           NEW t, Rests(t), channels' \subseteq channels,
           \A c \in Channel : SameWork(chan[c], chan'[c])
    PROVE  HeadInv'
<1>1. channels \subseteq Channel /\ 0 \notin Channel
  BY ChannelIs DEF Typed, WorldTyped
<1>2. \A c \in channels' : Alike(c) \/ Unheard(c)
  BY <1>1 DEF SameWork, Alike
<1>3. FedInv'
  BY <1>2, FedFrame DEF HeadInv
<1>4. MinedInv'
  BY <1>1, MinedFrame DEF HeadInv
<1>5. ASSUME NEW u \in Task PROVE SendOK(u)'
  <2>1. task[u].at \in Sending => task[u].c \in Channel
    BY TypedCalls DEF Sending, Working
  <2> QED
    BY <2>1, SendFrame DEF HeadInv
<1> QED
  BY <1>3, <1>4, <1>5 DEF HeadInv, SendInv

\* A channel is opened: its miner hashes nothing.
LEMMA HeadOpened ==
    ASSUME Typed, OnceInv, LateInv, HeadInv, NEW t \in Task, NEW kind \in {"standard", "extended"},
           NEW rate \in env.rates, NEW limit \in env.limits, Open(t, kind, rate, limit)
    PROVE  HeadInv'
<1>0. PICK c : c = conn.next
  OBVIOUS
<1>1. /\ c \in Channel /\ New(kind, rate, limit, chan'[c]) /\ channels' = channels \cup {c}
      /\ \A d \in Channel \ {c} : chan'[d] = chan[d]
      /\ task[t] = Idle /\ task' = [task EXCEPT ![t] = task'[t]] /\ Writable
      /\ task'[t].at \in {"success", "create", "entity"}
  BY <1>0, OpenIs
<1>2. UNCHANGED <<store, tmpls>>
  BY DEF Open, base
<1>3. Rests(t)
  BY <1>1 DEF Rests, Typed, Calls, Idle, Sending
<1>4. \A u \in Task : task[u].c # c
  BY <1>0, <1>1, ChannelIs DEF Typed, Calls
<1>5. channels \subseteq Channel \ {c}
  BY <1>0, <1>1, ChannelIs DEF Typed, ConnTyped, WorldTyped
<1>6. \A d \in channels' : Alike(d) \/ Unheard(d)
  <2>1. Unheard(c)
    BY <1>1, <1>4 DEF Unheard, New
  <2>2. \A d \in channels : Alike(d)
    BY <1>1, <1>5 DEF Alike
  <2> QED
    BY <1>1, <2>1, <2>2
<1>7. FedInv'
  BY <1>1, <1>2, <1>3, <1>6, FedFrame DEF HeadInv
<1>8. MinedOK(c)'
  <2>1. DOMAIN chan'[c].mined = {} /\ chan'[c].tip = Nowhere
    BY <1>1 DEF New, Empty
  <2> QED
    BY <2>1 DEF MinedOK
<1>9. MinedInv'
  BY <1>1, <1>2, <1>8, SameWorkSelf, MinedFrame DEF HeadInv
<1>10. ASSUME NEW u \in Task PROVE SendOK(u)'
  <2>1. task[u].at \in Sending => task[u].c \in Channel
    BY TypedCalls DEF Sending, Working
  <2>2. task[u].at \in Sending => SameWork(chan[task[u].c], chan'[task[u].c])
    BY <1>1, <1>4, <2>1, SameWorkSelf
  <2> QED
    BY <1>1, <1>2, <1>3, <2>2, SendFrame DEF HeadInv
<1> QED
  BY <1>7, <1>9, <1>10 DEF HeadInv, SendInv

\* A custom job is hashed on the block it names, and its id is shared if a job of the
\* pool's bears it.
LEMMA HeadCustomized ==
    ASSUME Typed, OnceInv, LateInv, HeadInv, NEW t \in Task, NEW c \in Channel, NEW tip,
           SetCustomMiningJob(t, c, tip)
    PROVE  HeadInv'
<1>0. PICK j, job : j = conn.custom /\ job = ExtJob(0, 0, tip, "none", After(chan[c].ext))
  OBVIOUS
<1>1. /\ UNCHANGED <<store, tmpls, task, channels, sock>> /\ Writable /\ c \in channels
      /\ Customized(chan[c], chan'[c], tip) /\ \A d \in Channel \ {c} : chan'[d] = chan[d]
  BY SetCustomMiningJobIs DEF base
<1>2. PICK r, s : r = chan[c] /\ s = chan'[c]
  OBVIOUS
<1>3. /\ s.kind = r.kind /\ s.jd = r.jd /\ s.tip = r.tip /\ s.latest = r.latest
      /\ s.raced = r.raced /\ s.roots = r.roots /\ s.last = r.last
      /\ s.ext = With(r.ext, j, job) /\ s.mined = With(r.mined, j, tip)
      /\ s.asked = With(r.asked, j, {r.told})
      /\ s.shared = r.shared \cup ({j} \cap DOMAIN r.asked)
  BY <1>0, <1>1, <1>2 DEF Customized
<1>4. job.prev = tip
  BY <1>0, ExtJobIs
<1>5. Rests(0)
  BY <1>1 DEF Rests, Task
<1>6. \A d \in channels' : Alike(d) \/ Unheard(d)
  <2>1. channels \subseteq Channel
    BY DEF Typed, WorldTyped
  <2> QED
    BY <1>1, <1>2, <1>3, <2>1 DEF Alike
<1>7. FedInv'
  BY <1>1, <1>5, <1>6, FedFrame DEF HeadInv
<1>8. MinedOK(c)'
  <2>1. /\ DOMAIN r.mined \subseteq DOMAIN r.asked
        /\ r.tip # Nowhere => r.last # 0
        /\ r.kind = "extended" /\ r.tip # Nowhere => r.latest = r.tip
        /\ ~r.raced => \A i \in DOMAIN r.mined \ r.shared : Hashed(c, i)
    BY <1>1, <1>2 DEF HeadInv, MinedInv, MinedOK
  <2>2. DOMAIN s.mined \subseteq DOMAIN s.asked
    BY <1>3, <2>1 DEF With
  <2>3. ASSUME j \in DOMAIN s.mined \ s.shared PROVE Hashed(c, j)'
    <3>1. j \notin DOMAIN r.asked
      BY <1>3, <2>3
    <3>2. j \notin s.roots
      BY <1>1, <1>2, <1>3, <3>1 DEF OnceInv, Issued, Given
    <3>3. s.mined[j] = tip /\ s.ext[j].prev = tip
      BY <1>3, <1>4 DEF With
    <3> QED
      BY <1>2, <3>2, <3>3 DEF Hashed
  <2>4. ASSUME NEW i \in DOMAIN s.mined, i # j, Hashed(c, i) PROVE Hashed(c, i)'
    <3>1. s.mined[i] = r.mined[i] /\ (i \in DOMAIN s.ext => i \in DOMAIN r.ext /\ s.ext[i] = r.ext[i])
      BY <1>3, <2>4 DEF With
    <3> QED
      BY <1>1, <1>2, <1>3, <2>4, <3>1 DEF Hashed
  <2>5. ASSUME ~s.raced, NEW i \in DOMAIN s.mined \ s.shared PROVE Hashed(c, i)'
    <3>1. CASE i = j
      BY <2>3, <2>5, <3>1
    <3>2. CASE i # j
      <4>1. i \in DOMAIN r.mined \ r.shared
        BY <1>3, <2>5, <3>2 DEF With
      <4> QED
        BY <1>3, <2>1, <2>4, <2>5, <3>2, <4>1
    <3> QED
      BY <3>1, <3>2
  <2>6. s.tip # Nowhere => s.last # 0
    BY <1>3, <2>1
  <2>7. s.kind = "extended" /\ s.tip # Nowhere => s.latest = s.tip
    BY <1>3, <2>1
  <2> QED
    BY <1>2, <2>2, <2>5, <2>6, <2>7 DEF MinedOK
<1>9. MinedInv'
  BY <1>1, <1>8, SameWorkSelf, MinedFrame DEF HeadInv
<1>10. ASSUME NEW u \in Task PROVE SendOK(u)'
  <2>0. PICK k : k = task[u]
    OBVIOUS
  <2>1. k.at \in Sending => k.c \in Channel
    BY <2>0, TypedCalls DEF Sending, Working
  <2>2. CASE k.c # c \/ k.at \notin Sending
    <3>1. task[u].at \in Sending => SameWork(chan[task[u].c], chan'[task[u].c])
      BY <1>1, <2>0, <2>1, <2>2, SameWorkSelf
    <3> QED
      BY <1>1, <1>5, <3>1, SendFrame DEF HeadInv
  <2>3. CASE k.c = c /\ k.at \in Sending
    <3>1. SendOK(u)
      BY DEF HeadInv, SendInv
    <3>2. k.at = "sent" /\ k.job \in DOMAIN s.mined \ s.shared =>
            k.job \in DOMAIN r.mined \ r.shared /\ s.mined[k.job] = r.mined[k.job]
      <4>1. k.at = "sent" => k.job \in DOMAIN r.asked
        BY <1>1, <1>2, <2>0, <2>3 DEF OnceInv, FreshJob, Given
      <4> QED
        BY <1>3, <4>1 DEF With
    <3>3. task'[u] = k /\ store' = store /\ tmpls' = tmpls
      BY <1>1, <2>0
    <3> QED
      BY <1>1, <1>2, <1>3, <2>0, <2>3, <3>1, <3>2, <3>3 DEF SendOK
  <2> QED
    BY <2>2, <2>3
<1> QED
  BY <1>7, <1>9, <1>10 DEF HeadInv, SendInv

LEMMA HeadReceive ==
    ASSUME HeadInv, LateInv, OnceInv, Typed, NEW t \in Task, Receive(t) PROVE HeadInv'
<1>0. DOMAIN conn = ConnFields /\ DOMAIN task = Task /\ 0 \notin Task
  BY DEF Typed, ConnTyped, Calls, Task
<1> USE DEF base
<1>a. ASSUME UNCHANGED <<store, tmpls, chan, task>>, Writable' => Writable,
             channels' \subseteq channels
      PROVE  HeadInv'
  <2>1. \A c \in Channel : SameWork(chan[c], chan'[c])
    BY <1>a, SameWorkSelf
  <2>2. Rests(0)
    BY <1>0, <1>a DEF Rests
  <2> QED
    BY <1>a, <2>1, <2>2, HeadFrame
<1>1. ASSUME NEW w \in BOOLEAN, SetupConnection(t, w) PROVE HeadInv'
  <2>1. /\ conn' = [conn EXCEPT !.workSel = w]
        /\ UNCHANGED <<store, tmpls, chan, task, sock, channels>>
    BY <1>1 DEF SetupConnection
  <2>2. conn'.destroyed = conn.destroyed
    BY <1>0, <2>1 DEF ConnFields
  <2> QED
    BY <1>a, <2>1, <2>2 DEF Writable
<1>2. ASSUME Unacceptable(t) \/ NoPrefix(t) PROVE HeadInv'
  BY <1>a, <1>2 DEF Unacceptable, NoPrefix, CloseSocket, Writable
<1>3. ASSUME NEW kind \in {"standard", "extended"}, Refuse(t, kind) PROVE HeadInv'
  <2>1. /\ UNCHANGED <<store, tmpls, chan, task, sock, channels>>
        /\ conn' = conn \/ conn' = [conn EXCEPT !.prefix = (NextPrefix % MaxPrefix) + 1,
                                                !.refused = @ \cup {NextPrefix}]
    BY <1>3 DEF Refuse
  <2>2. conn'.destroyed = conn.destroyed
    BY <1>0, <2>1 DEF ConnFields
  <2> QED
    BY <1>a, <2>1, <2>2 DEF Writable
<1>4. ASSUME NEW kind \in {"standard", "extended"}, NEW rate \in env.rates,
             NEW limit \in env.limits, Open(t, kind, rate, limit)
      PROVE  HeadInv'
  BY <1>4, HeadOpened
<1>5. ASSUME NEW c \in Channel, CloseChannel(t, c) PROVE HeadInv'
  <2>1. /\ UNCHANGED <<store, tmpls, chan, task, sock>> /\ Writable
        /\ channels' \subseteq channels
    BY <1>5 DEF CloseChannel, Frame, Writable
  <2> QED
    BY <1>a, <2>1
<1>6. ASSUME NEW c \in Channel, NEW rate \in env.rates, NEW limit \in env.limits,
             Update(t, c, rate, limit)
      PROVE  HeadInv'
  <2>1. /\ UNCHANGED <<task, conn, store, tmpls, sock, channels>>
        /\ Updated(chan[c], chan'[c], rate, limit)
        /\ \A d \in Channel \ {c} : chan'[d] = chan[d]
    BY <1>6, UpdateIs DEF Update
  <2>2. SameJobs(chan[c], chan'[c])
    BY <2>1 DEF Updated
  <2>3. \A d \in Channel : SameWork(chan[d], chan'[d])
    BY <2>1, <2>2, SameJobsWork, SameWorkSelf
  <2>4. Rests(0)
    BY <1>0, <2>1 DEF Rests
  <2> QED
    BY <2>1, <2>3, <2>4, HeadFrame DEF Writable
<1>7. ASSUME NEW c \in Channel, NEW tip, SetCustomMiningJob(t, c, tip) PROVE HeadInv'
  BY <1>7, HeadCustomized
<1>8. ASSUME NEW c \in Channel, NEW j, NEW q, Submit(t, c, j, q) PROVE HeadInv'
  <2> DEFINE k == [Idle EXCEPT !.at = "judge", !.why = "share", !.c = c, !.job = j, !.q = q]
  <2>1. /\ Put(t, k) /\ task[t] = Idle
        /\ UNCHANGED <<store, tmpls, chan, conn, sock, channels>>
    BY <1>8 DEF Submit, Frame, Free
  <2>2. k.at = "judge" /\ Idle.at = "idle"
    BY DEF Idle
  <2> HIDE DEF k
  <2>3. task'[t].at = "judge" /\ \A u \in Task \ {t} : task'[u] = task[u]
    BY <2>1, <2>2, PutIs
  <2>4. \A d \in Channel : SameWork(chan[d], chan'[d])
    BY <2>1, SameWorkSelf
  <2>5. Rests(t)
    BY <2>1, <2>2, <2>3 DEF Rests, Sending
  <2> QED
    BY <2>1, <2>4, <2>5, HeadFrame DEF Writable
<1> QED
  BY <1>1, <1>2, <1>3, <1>4, <1>5, <1>6, <1>7, <1>8 DEF Receive

-------------------------------------------------------------------------------
(* A template. *)

\* The handler of a template without clearJobs names no block, and that of a new block
\* will name it to every channel that is fed and not raced.
Fetched(tip) ==
    /\ LatePublished(tip) /\ UNCHANGED <<channels, sock, conn, subs>>
    /\ \/ /\ UNCHANGED task
          /\ \A c \in channels :
                \/ chan[c].last = 0
                   /\ \A t \in Task : ~(task[t].c = c /\ task[t].at \in Sending)
                \/ chan'[c].raced
       \/ \E t \in Task :
             /\ task[t] = Idle /\ \A u \in Task \ {t} : task'[u] = task[u]
             /\ \E call : /\ call.why = "publish" /\ call.tmpl = Newest + 1
                          /\ call.prev = ClearsJobs(store, tip)
                          /\ Dispatched(0, chan, call, 0, Newest + 1, chan', task'[t])

LEMMA FetchedIs ==
    ASSUME Typed, ReleaseInv, NEW tip \in Nat, NEW same, Publish(tip, same)
    PROVE  Fetched(tip)
<1>1. \A c \in Channel : SameWork(chan[c], chan'[c])
  BY PublishIs, OneSubscription DEF Settled
<1>2. LatePublished(tip) /\ UNCHANGED <<channels, sock, conn, subs>>
  BY <1>1, PublishIs, OneSubscription DEF LatePublished
<1>3. \/ /\ UNCHANGED task
         /\ \A c \in channels :
                \/ chan[c].last = 0
                   /\ \A t \in Task : ~(task[t].c = c /\ task[t].at \in Sending)
                \/ chan'[c].raced
      \/ \E t \in Task :
            LET call == [Idle EXCEPT !.why = "publish", !.tmpl = Newest + 1,
                                     !.prev = ClearsJobs(store, tip)]
            IN  /\ task[t] = Idle /\ task' = [task EXCEPT ![t] = task'[t]]
                /\ Dispatched(0, chan, call, 0, Newest + 1, chan', task'[t])
  BY PublishIs, OneSubscription
<1>4. ASSUME NEW t \in Task, task' = [task EXCEPT ![t] = task'[t]]
      PROVE  \A u \in Task \ {t} : task'[u] = task[u]
  BY <1>4 DEF Typed, Calls
<1> DEFINE call == [Idle EXCEPT !.why = "publish", !.tmpl = Newest + 1,
                                !.prev = ClearsJobs(store, tip)]
<1>5. call.why = "publish" /\ call.tmpl = Newest + 1 /\ call.prev = ClearsJobs(store, tip)
  BY DEF Idle
<1>6. \/ /\ UNCHANGED task
         /\ \A c \in channels :
                \/ chan[c].last = 0
                   /\ \A t \in Task : ~(task[t].c = c /\ task[t].at \in Sending)
                \/ chan'[c].raced
      \/ \E t \in Task :
            /\ task[t] = Idle /\ task' = [task EXCEPT ![t] = task'[t]]
            /\ Dispatched(0, chan, call, 0, Newest + 1, chan', task'[t])
  BY <1>3
<1> HIDE DEF call
<1> QED
  BY <1>2, <1>4, <1>5, <1>6 DEF Fetched

LEMMA FedPublished ==
    ASSUME Typed, LateInv, HeadInv, NEW tip, Fetched(tip) PROVE FedInv'
<1>0. /\ Turns /\ (ClearsJobs(store, tip) <=> store.tip # tip) /\ store'.tip = tip
      /\ channels' = channels /\ channels \subseteq Channel /\ channels \subseteq Nat
      /\ Writable' = Writable /\ \A c \in channels : c > 0
      /\ \A c \in Channel : SameWork(chan[c], chan'[c])
  BY TurnsIs, NewTemplateIs, ChannelIs DEF LatePublished, Fetched, Typed, WorldTyped, Writable, Channel
<1> SUFFICES ASSUME Writable, NEW c \in channels,
                    chan'[c].kind # "extended", ~chan'[c].raced, ~chan'[c].jd,
                    \/ chan'[c].tip \notin {Nowhere, store'.tip}
                    \/ \E u \in Task : Brought(u, c)'
             PROVE  Coming(c)'
  BY <1>0 DEF FedInv, Fed
<1>1. /\ c \in Channel /\ chan[c].kind # "extended" /\ ~chan[c].raced /\ ~chan[c].jd
      /\ chan'[c].tip = chan[c].tip
  BY <1>0 DEF SameWork
<1>2. ASSUME NEW u \in Task, task'[u] = task[u]
      PROVE  Brought(u, c)' => Brought(u, c)
  BY <1>2 DEF Brought
<1>3. ASSUME NEW u \in Task, task'[u] = task[u], Brings(u, c), store'.tip = store.tip
      PROVE  Brings(u, c)'
  <2>1. task[u].at \in Sending
    BY <1>3 DEF Brings, Sending
  <2>2. task[u].tmpl \in 1..Newest
    BY <2>1 DEF LateInv, CallsKnown, KnownCall
  <2>3. tmpls'[task[u].tmpl] = tmpls[task[u].tmpl]
    BY <1>0, <2>2 DEF Turns
  <2> QED
    BY <1>3, <2>3 DEF Brings
<1>4. CASE /\ UNCHANGED task
           /\ \/ chan[c].last = 0
                 /\ \A t \in Task : ~(task[t].c = c /\ task[t].at \in Sending)
              \/ chan'[c].raced
  <2>1. chan[c].tip = Nowhere
    BY <1>1, <1>4 DEF HeadInv, MinedInv, MinedOK
  <2>2. PICK u \in Task : Brought(u, c)'
    BY <1>1, <2>1
  <2>3. Brought(u, c)
    BY <1>2, <1>4, <2>2
  <2> QED
    BY <1>4, <2>3 DEF Brought, Sending
<1>5. ASSUME NEW t \in Task, task[t] = Idle, \A u \in Task \ {t} : task'[u] = task[u],
             NEW call, call.why = "publish", call.tmpl = Newest + 1,
             call.prev = ClearsJobs(store, tip),
             Dispatched(0, chan, call, 0, Newest + 1, chan', task'[t])
      PROVE  Coming(c)'
  <2>1. CASE ClearsJobs(store, tip)
    <3> DEFINE k == task'[t]
    <3>1. /\ k.at = "payout" /\ k.prev = call.prev /\ k.tmpl = call.tmpl
          /\ k.why = call.why /\ (k.c = c \/ k.c < c)
      BY <1>0, <1>5, DispatchedOn
    <3>2. tmpls'[k.tmpl].tip = store'.tip /\ k.prev /\ k.why # "open"
      BY <1>0, <1>5, <2>1, <3>1 DEF Turns
    <3>3. Brings(t, c)'
      BY <3>1, <3>2 DEF Brings, Sending
    <3> QED
      BY <3>3 DEF Coming
  <2>2. CASE ~ClearsJobs(store, tip)
    <3>1. ~Brought(t, c)' /\ ~Brings(t, c)
      BY <1>5, <2>2 DEF Brought, Brings, Dispatched, Sends, Idle, Sending
    <3>2. ASSUME NEW u \in Task, Brought(u, c)' PROVE Brought(u, c)
      BY <1>2, <1>5, <3>1, <3>2
    <3>3. store'.tip = store.tip
      BY <1>0, <2>2
    <3>4. chan[c].tip \notin {Nowhere, store.tip} \/ \E u \in Task : Brought(u, c)
      BY <1>1, <3>2, <3>3
    <3>5. Coming(c)
      BY <1>1, <3>4 DEF HeadInv, FedInv, Fed
    <3>6. PICK u \in Task : Brings(u, c)
      BY <3>5 DEF Coming
    <3>7. Brings(u, c)'
      BY <1>3, <1>5, <3>1, <3>3, <3>6
    <3> QED
      BY <3>7 DEF Coming
  <2> QED
    BY <2>1, <2>2
<1> QED
  BY <1>4, <1>5 DEF Fetched

LEMMA HeadPublished ==
    ASSUME Typed, NameInv, OnceInv, LateInv, HeadInv, NEW tip, Fetched(tip) PROVE HeadInv'
<1>0. /\ Turns /\ store'.tip = tip /\ store'.nextJob = store.nextJob
      /\ channels' = channels /\ (Writable' => Writable)
      /\ \A c \in Channel : SameWork(chan[c], chan'[c])
  BY TurnsIs, NewTemplateIs DEF LatePublished, Fetched, Writable
<1>1. FedInv'
  BY FedPublished
<1>2. JobsKept
  <2>1. ASSUME NEW i \in DOMAIN store'.jobs
        PROVE  i \in DOMAIN store.jobs /\ store'.jobs[i].tmpl = store.jobs[i].tmpl
    <3>1. /\ i \in DOMAIN store.jobs
          /\ store'.jobs[i] =
                IF ClearsJobs(store, tip)
                THEN [store.jobs[i] EXCEPT !.retired = IF @ = Active THEN clock ELSE @]
                ELSE store.jobs[i]
      BY <2>1, NewTemplateJobs DEF Fetched, LatePublished
    <3>2. DOMAIN store.jobs[i] = JobFields
      BY <3>1 DEF LateInv, JobsTimely, JobTimely
    <3> QED
      BY <3>1, <3>2 DEF JobFields
  <2> QED
    BY <2>1 DEF JobsKept
<1>3. TipsKept /\ JobsTimely /\ store.nextJob \in Nat
  BY <1>0 DEF Turns, TipsKept, LateInv, OnceInv
<1>4. MinedInv'
  <2> SUFFICES ASSUME NEW c \in Channel PROVE MinedOK(c)'
    BY DEF MinedInv
  <2>1. MinedOK(c) /\ Issued(c) /\ SameWork(chan[c], chan'[c])
    BY <1>0 DEF HeadInv, MinedInv, OnceInv
  <2> QED
    BY <1>0, <1>2, <1>3, <2>1, MinedSame
<1>5. ASSUME NEW u \in Task, task'[u] = task[u] PROVE SendOK(u)'
  <2>1. SendOK(u) /\ KnownCall(task[u]) /\ (task[u].at = "sent" => task[u].job # store.nextJob)
    BY DEF HeadInv, SendInv, LateInv, CallsKnown, OnceInv, FreshJob, Before
  <2>2. task[u].at \in Sending => SameWork(chan[task[u].c], chan'[task[u].c])
    BY <1>0, TypedCalls DEF Sending, Working
  <2> QED
    BY <1>0, <1>2, <1>3, <1>5, <2>1, <2>2, SendSame
<1>6. ASSUME NEW t \in Task, task[t] = Idle, \A u \in Task \ {t} : task'[u] = task[u],
             NEW call, call.why = "publish", call.tmpl = Newest + 1,
             Dispatched(0, chan, call, 0, Newest + 1, chan', task'[t])
      PROVE  SendOK(t)'
  <2>1. CASE task'[t] = Idle
    BY <2>1, SendIdle DEF Idle, Sending
  <2>2. CASE /\ Sends(0, chan', call, Newest + 1, task'[t])
             /\ task'[t].c \in channels /\ ~chan'[task'[t].c].jd
    <3>1. Newest' = Newest + 1 /\ 0 \notin Task /\ tmpls'[Newest'].tip = store'.tip
      BY <1>0 DEF Turns, Task
    <3>2. \A u \in Task \ {t} :
             ~(task[u].why = "publish" /\ call.why = "publish" /\ task[u].tmpl = call.tmpl)
      <4>1. ASSUME NEW u \in Task, task[u].why = "publish" PROVE task[u].tmpl # Newest + 1
        <5>1. task[u].tmpl <= Newest /\ task[u].tmpl \in Nat /\ Newest \in Nat
          BY <1>0, <4>1, TypedCalls DEF NameInv, CallRec, Turns
        <5> QED
          BY <5>1
      <4> QED
        BY <1>6, <4>1
    <3>3. Sends(0, chan', call, Newest', task'[t])
      BY <2>2, <3>1
    <3>4. task'[t].c \in channels' /\ ~chan'[task'[t].c].jd
      BY <1>0, <2>2
    <3> QED
      BY <1>1, <1>6, <3>1, <3>2, <3>3, <3>4, SendFresh
  <2> QED
    BY <1>6, <2>1, <2>2 DEF Dispatched
<1>7. SendInv'
  <2>1. CASE UNCHANGED task
    BY <1>5, <2>1 DEF SendInv
  <2>2. ASSUME NEW t \in Task, task[t] = Idle, \A u \in Task \ {t} : task'[u] = task[u],
               NEW call, call.why = "publish", call.tmpl = Newest + 1,
               Dispatched(0, chan, call, 0, Newest + 1, chan', task'[t])
        PROVE  SendInv'
    BY <1>5, <1>6, <2>2 DEF SendInv
  <2> QED
    BY <2>1, <2>2 DEF Fetched
<1> QED
  BY <1>1, <1>4, <1>7 DEF HeadInv

LEMMA HeadNext ==
    ASSUME HeadInv, Typed, NameInv, OnceInv, LateInv, ReleaseInv, [Next]_vars PROVE HeadInv'
<1>0. DOMAIN conn = ConnFields /\ 0 \notin Task
  BY DEF Typed, ConnTyped, Task
<1> USE DEF base
<1>a. ASSUME UNCHANGED <<store, tmpls, chan, task>>, Writable' => Writable,
             channels' \subseteq channels
      PROVE  HeadInv'
  <2>1. \A c \in Channel : SameWork(chan[c], chan'[c])
    BY <1>a, SameWorkSelf
  <2>2. Rests(0)
    BY <1>0, <1>a DEF Rests
  <2> QED
    BY <1>a, <2>1, <2>2, HeadFrame
<1>1. SUFFICES ASSUME Next PROVE HeadInv'
  BY <1>a DEF vars, Writable
<1>2. ASSUME NEW t \in Task,
             \/ Resume(t) \/ NoDistribution(t) \/ RecordFails(t) \/ Rejected(t)
             \/ \E rate \in env.rates : Check(t, rate)
      PROVE  HeadInv'
  BY <1>2, GoesOnIs, ResumeSteady, Breaks, CreditsIs, HeadGoesOn
<1>3. ASSUME NEW t \in Task, Receive(t) PROVE HeadInv'
  BY <1>3, HeadReceive
<1>4. ASSUME Disconnect \/ Bury \/ Release \/ Tick \/ JdpChanges \/ \E s \in Schemes : Move(s)
      PROVE  HeadInv'
  <2>1. /\ UNCHANGED <<store, tmpls, chan, task>> /\ channels' \subseteq channels
        /\ sock' = "open" => sock = "open"
        /\ \/ conn' = conn \/ conn' = [conn EXCEPT !.destroyed = TRUE]
           \/ conn' = [conn EXCEPT !.registered = FALSE, !.sub = 0, !.timer = FALSE,
                                   !.primary = 0, !.leaky = @ \/ Orphan]
    BY <1>4 DEF Disconnect, Bury, Release, Tick, JdpChanges, Move, CloseSocket
  <2>2. conn.destroyed => conn'.destroyed
    BY <1>0, <2>1 DEF ConnFields
  <2> QED
    BY <1>a, <2>1, <2>2 DEF Writable
<1>5. ASSUME NEW tip \in {store.tip, store.tip + 1}, NEW same \in BOOLEAN, Publish(tip, same)
      PROVE  HeadInv'
  <2>1. tip \in Nat
    BY TipIs
  <2> QED
    BY <1>5, <2>1, FetchedIs, HeadPublished
<1> QED
  BY <1>1, <1>2, <1>3, <1>4, <1>5 DEF Next

LEMMA HeadInit == Init => HeadInv
<1> SUFFICES ASSUME Init PROVE HeadInv
  OBVIOUS
<1>1. PICK k \in Cases :
        /\ chan = [c \in Channel |->
                     IF c <= Len(k.open) THEN Opened(k.open[c], c, scheme) ELSE NoChannel]
        /\ channels = 1..Len(k.open)
        /\ store.tip = 0
        /\ \A i \in DOMAIN store.jobs : store.jobs[i].tmpl = 1
  <2> DEFINE first == NewTemplate(EmptyStore, 0, 0)
             job == [tmpl |-> 1, made |-> 0, retired |-> Active, route |-> scheme]
  <2>1. PICK k \in Cases :
            /\ chan = [c \in Channel |->
                         IF c <= Len(k.open) THEN Opened(k.open[c], c, scheme) ELSE NoChannel]
            /\ channels = 1..Len(k.open)
            /\ store = [first EXCEPT !.jobs = [j \in 1..Len(k.open) |-> job],
                                     !.nextJob = Len(k.open) + 1]
    BY DEF Init
  <2>2. DOMAIN first = StoreFields /\ first.tip = 0
    <3> DEFINE cleaned == Cleanup(EmptyStore, ClearsJobs(EmptyStore, 0), 0)
    <3>1. DOMAIN cleaned = StoreFields
      BY DEF Cleanup, EmptyStore, StoreFields
    <3> HIDE DEF cleaned
    <3> QED
      BY <3>1 DEF NewTemplate, cleaned, StoreFields
  <2> HIDE DEF first, job
  <2> DEFINE jobs == [j \in 1..Len(k.open) |-> job]
  <2>3. job.tmpl = 1
    BY DEF job
  <2>4. \A i \in DOMAIN jobs : jobs[i].tmpl = 1
    BY <2>3
  <2> HIDE DEF jobs
  <2>5. store.tip = 0 /\ store.jobs = jobs
    BY <2>1, <2>2 DEF StoreFields, jobs
  <2> QED
    BY <2>1, <2>4, <2>5
<1>2. /\ tmpls = << [tip |-> 0, clears |-> FALSE, content |-> 1] >>
      /\ \A t \in Task : task[t] = Idle
  BY DEF Init
<1>3. tmpls[1].tip = 0
  BY <1>2
<1>4. \A t \in Task : task[t].at \notin Sending
  BY <1>2 DEF Idle, Sending
<1>5. Len(k.open) \in Nat /\ \A c \in 1..Len(k.open) : k.open[c] \in {"standard", "extended"}
  BY SessionAssumption
<1>6. ASSUME NEW c \in Channel, c <= Len(k.open)
      PROVE  chan[c].tip = 0 /\ MinedOK(c)
  <2> DEFINE job == [tmpl |-> 1, built |-> 1, prev |-> 0, made |-> 0, retired |-> Active,
                     late |-> FALSE, route |-> scheme, nth |-> 1]
  <2>1. c \in 1..Len(k.open)
    BY <1>5, <1>6 DEF Channel
  <2>2. chan[c] = Opened(k.open[c], c, scheme)
    BY <1>1, <1>6
  <2>3. /\ chan[c].kind = k.open[c] /\ chan[c].tip = 0 /\ chan[c].last = c
        /\ chan[c].latest = 0
        /\ chan[c].ext = IF k.open[c] = "extended" THEN With(Empty, c, job) ELSE Empty
        /\ chan[c].asked = With(Empty, c, {InitialDiff})
        /\ chan[c].mined = With(Empty, c, 0)
    BY <2>2 DEF Opened, NoChannel
  <2>4. job.prev = 0
    OBVIOUS
  <2> HIDE DEF job
  <2>5. DOMAIN chan[c].mined = {c} /\ DOMAIN chan[c].asked = {c} /\ chan[c].mined[c] = 0
    BY <2>3 DEF With, Empty
  <2>6. chan[c].kind = "extended" => chan[c].ext[c] = job
    BY <2>3 DEF With, Empty
  <2>7. Hashed(c, c)
    BY <1>1, <1>3, <2>4, <2>5, <2>6 DEF Hashed
  <2>8. c # 0
    BY <2>1, <1>5
  <2> QED
    BY <2>3, <2>5, <2>7, <2>8 DEF MinedOK
<1>7. ASSUME NEW c \in Channel, ~(c <= Len(k.open)) PROVE MinedOK(c)
  <2>1. chan[c].mined = Empty /\ chan[c].tip = Nowhere
    BY <1>1, <1>7 DEF NoChannel
  <2> QED
    BY <2>1 DEF MinedOK, Empty
<1>8. FedInv
  <2> SUFFICES ASSUME NEW c \in channels, \/ chan[c].tip \notin {Nowhere, store.tip}
                                          \/ \E u \in Task : Brought(u, c)
               PROVE  FALSE
    BY DEF FedInv, Fed
  <2>1. c \in Channel /\ c <= Len(k.open)
    BY <1>1, <1>5, SessionAssumption DEF Channel
  <2> QED
    BY <1>1, <1>4, <1>6, <2>1 DEF Brought, Sending
<1>9. MinedInv
  BY <1>6, <1>7 DEF MinedInv
<1>10. SendInv
  BY <1>4 DEF SendInv, SendOK, Sending
<1> QED
  BY <1>8, <1>9, <1>10 DEF HeadInv

LEMMA HeadInductive == Spec => []HeadInv
<1>1. CountInv /\ HeadInv /\ [Next]_vars => HeadInv'
  BY HeadNext DEF CountInv, IInv
<1> QED
  BY <1>1, HeadInit, CountInductive, PTL DEF Spec

LEMMA HeadImplies == ASSUME Typed, HeadInv PROVE HeadersAgree
<1> SUFFICES ASSUME NEW c \in channels, NEW j \in DOMAIN chan[c].mined \ chan[c].shared,
                    ~chan[c].raced, Known(c, j), chan[c].mined[j] # Nowhere
             PROVE  chan[c].mined[j] = HeaderPrev(c, j)
  BY DEF HeadersAgree
<1>1. Hashed(c, j)
  BY DEF Typed, WorldTyped, HeadInv, MinedInv, MinedOK
<1> QED
  BY <1>1 DEF Hashed, Known, HeaderPrev

\* The previous block in the header that the pool hashes for a job is the one that its
\* miner hashes the job on, on every channel whose jobs did not overlap and of which
\* none was skipped: however templates, sends, custom jobs and closing channels meet.
THEOREM HeadersAlwaysAgree == Spec => []HeadersAgree
<1>1. CountInv /\ HeadInv => HeadersAgree
  BY HeadImplies DEF CountInv, IInv
<1> QED
  BY <1>1, CountInductive, HeadInductive, PTL
===============================================================================
