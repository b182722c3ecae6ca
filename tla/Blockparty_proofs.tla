---------------------------- MODULE Blockparty_proofs ----------------------------
(***************************************************************************)
(* Proofs about Blockparty, for every admin, every set of members, parts,  *)
(* rewards and handlers, every sequence of failures and restarts, when no  *)
(* handlers overlap but those in Tame: Spec implies []PartySound and       *)
(* PartySteps.                                                             *)
(***************************************************************************)
EXTENDS Blockparty, FiniteSetTheorems, SequenceTheorems, TLAPS

-------------------------------------------------------------------------------
(* The inductive invariant. *)

Is(c, ops, pcs) == calls[c].pc \in pcs /\ calls[c].op \in ops

Consenting == {"accept", "confirm"}
Recompute  == {"group", "members", "status"}
Rebuild    == {"rebuild", "caches"}
Voting     == {"confirming", "ready"}
Open       == {"pending", "lapsed"}

AllConfirmed == \A a \in Joined : row[a].confirmed
SignedOff    == group.status \in Voting => (group.status = "ready" <=> AllConfirmed)
Accepted(a)  == invite[a] # <<>> /\ Last(invite[a]) = "accepted"

\* What the tables and caches hold.
Stored ==
    /\ group \in Group /\ row \in [Address -> Row \cup {None}]
    /\ invite \in [Address -> Seq(Invite)]
    /\ adds \in [Address -> 0..MaxRows] /\ token \in BOOLEAN
    /\ route \in Status \cup {None} /\ known \subseteq Address
    /\ past \in {"clean", "failed", "repaired"}

\* The operations that come to a pc.
Staged(c) ==
    /\ At(c, "admin") => calls[c].op = "create"
    /\ At(c, "insert") => calls[c].op = "add"
    /\ At(c, "promote") => calls[c].op \in {"add", "transition"}
    /\ calls[c].pc \in Recompute => calls[c].op \in
           {"add", "remove", "splits", "accept", "confirm", "resend", "transition"}
    /\ calls[c].pc \in Rebuild => calls[c].op \in {"create", "add", "remove", "dissolve"}
    /\ At(c, "mint") => calls[c].op \in {"add", "resend"}
    /\ At(c, "find") => calls[c].op \in {"remove", "accept", "confirm", "resend"}
    /\ At(c, "delete") => calls[c].op = "remove"
    /\ At(c, "edit") => calls[c].op = "splits"
    /\ At(c, "save") => calls[c].op \in {"accept", "confirm", "resend"}
    /\ At(c, "answer") => calls[c].op \in {"accept", "respond"}
    /\ calls[c].pc \in {"invites", "lapse", "list"} => calls[c].op = "resend"
    /\ At(c, "sum") => calls[c].op = "transition"
    /\ At(c, "write") => calls[c].op \in {"dissolve", "hint", "share"}
    /\ Is(c, {"respond"}, PC) => At(c, "answer")
    /\ Is(c, {"share"}, PC) => At(c, "write")

Called ==
    /\ calls \in [Caller -> {NoCall} \cup Call]
    /\ \A c \in Caller : Staged(c)

\* Handlers that write the same rows do not overlap.
Apart == \A c, d \in Caller :
             c # d /\ ~Idle(c) /\ ~Idle(d) => Tame(calls[c].op, calls[d].op)

\* A party past its draft has an admin that holds the token, and the share path sees
\* its status, unless it is dissolved.
Standing ==
    /\ group.status \notin {"none", "draft"} => token
    /\ token => row[Admin] # None /\ group.status # "none"
    /\ route \in Routable \/ group.status \in Routable =>
           (route = group.status \/ group.status = "dissolved")

\* Only the last invitation of an address can be open.
Invites == \A a \in Address : \A i \in DOMAIN invite[a] :
               i # Len(invite[a]) => invite[a][i] \notin Open

\* What a handler that edits the roster knows.
Editing(c) ==
    /\ Is(c, {"create"}, PC) => ~token /\ group.status = "draft"
    /\ At(c, "admin") => Admin \in DOMAIN calls[c].splits
    /\ Is(c, {"create"}, Rebuild) => row[Admin] # None
    /\ At(c, "insert") =>
           /\ calls[c].grp = group /\ group.status \in Editable /\ token
           /\ calls[c].who \in Member /\ calls[c].who \in DOMAIN calls[c].splits
           /\ adds[calls[c].who] < MaxRows
    /\ Is(c, {"remove"}, {"find", "delete"}) =>
           group.status \in Editable /\ calls[c].who \in Member
    /\ At(c, "edit") => group.status \in Editable
    /\ At(c, "delete") => row[calls[c].who] # None /\ calls[c].mem = row[calls[c].who]

\* The row a handler is about to save differs from the one there in its consent only.
Saving(c) ==
    /\ Is(c, {"confirm"}, {"find", "save"}) =>
           row[calls[c].who] # None /\ row[calls[c].who].token
    /\ At(c, "save") =>
           /\ row[calls[c].who] # None /\ calls[c].mem \in Row
           /\ calls[c].mem.id = row[calls[c].who].id
           /\ calls[c].mem.percent = row[calls[c].who].percent
           /\ (calls[c].mem.confirmed <=> calls[c].op \in Consenting)
           /\ (calls[c].mem.token <=> calls[c].op \in Consenting)

\* The status a handler that recomputes it has read and worked out.
Recomputing(c) ==
    /\ At(c, "promote") => calls[c].grp = group /\ group.status = "draft" /\ token
    /\ At(c, "sum") => calls[c].grp = group /\ token
    /\ At(c, "members") \/ At(c, "status") =>
           calls[c].grp \in Group /\ group.status \in Voting /\ calls[c].grp.status \in Voting
    /\ At(c, "members") /\ calls[c].op \notin Consenting => calls[c].grp = group
    /\ At(c, "status") /\ calls[c].op \notin Consenting =>
           (calls[c].grp.status = "ready" <=> AllConfirmed)
    /\ calls[c].pc \in Rebuild => SignedOff
    /\ Is(c, {"dissolve"}, Rebuild) => group.status = "dissolved"
    /\ At(c, "caches") => calls[c].grp = group

\* The group row a handler writes back.
Writing(c) ==
    /\ Is(c, {"hint"}, {"write"}) => calls[c].grp = group
    /\ Is(c, {"dissolve"}, {"write"}) =>
           /\ calls[c].grp = [group EXCEPT !.status = "dissolved"]
           /\ token /\ ~(group.status = "active" /\ group.recent)
    /\ Is(c, {"share"}, {"write"}) =>
           /\ calls[c].grp = [status |-> "active", recent |-> TRUE]
           /\ group.status \in Routable

\* The invitation a handler closes is the last of its address.
Answering(c) ==
    /\ Is(c, {"accept"}, PC) => calls[c].to = "accepted"
    /\ Is(c, {"respond"}, PC) => calls[c].to \in {"declined", "expired"}
    /\ Is(c, {"accept", "respond"}, PC) \/ At(c, "lapse") =>
           /\ calls[c].nr \in DOMAIN invite[calls[c].who]
           /\ calls[c].nr = Len(invite[calls[c].who])
    /\ At(c, "lapse") \/ Is(c, {"respond"}, PC) =>
           invite[calls[c].who][calls[c].nr] \in Open

Point(c) == Editing(c) /\ Saving(c) /\ Recomputing(c) /\ Writing(c) /\ Answering(c)

\* The caches follow the rows but for a handler that is on its way to rebuild them.
Dissolving(c) == Is(c, {"dissolve"}, Rebuild)
Behind(c) == Is(c, {"add", "remove", "dissolve"}, {"promote"} \cup Recompute \cup Rebuild)
RouteKept == route = None <=> group.status = "dissolved"
KnownKept == known = IF group.status = "dissolved" THEN {} ELSE Joined
CacheInv ==
    past # "failed" /\ token =>
        /\ (\A c \in Caller : ~Dissolving(c)) => RouteKept
        /\ (\A c \in Caller : ~Behind(c)) => KnownKept

\* The status says who confirmed but for a handler that is on its way to recompute it.
Owing(c) == Is(c, {"add", "remove", "splits", "resend", "transition"},
               {"promote"} \cup Recompute)
Due(c) ==
    \/ Is(c, Consenting, {"group"})
    \/ Is(c, Consenting, {"members"}) /\ calls[c].grp.status = "confirming"
    \/ Is(c, Consenting, {"status"}) /\ calls[c].grp.status = "ready"
Judged(c) ==
    /\ Is(c, Consenting, {"status"}) => calls[c].grp.status = "ready" /\ AllConfirmed
    /\ Is(c, Consenting, {"members"}) /\ calls[c].grp.status = "ready" => AllConfirmed
ConsentInv ==
    past # "failed" =>
        /\ (\A c \in Caller : ~Owing(c)) =>
               /\ group.status = "ready" => AllConfirmed
               /\ group.status = "confirming" /\ AllConfirmed => \E c \in Caller : Due(c)
        /\ \A c \in Caller : Judged(c)

\* A token follows the invitation but for a handler that is on its way to answer it or
\* to send the next.
Taking(c) == Is(c, {"accept"}, Recompute \cup {"answer"})
Asking(c) == Is(c, {"add", "resend"}, {"promote", "mint"} \cup Recompute \cup Rebuild)
TokenInv ==
    past = "clean" =>
        /\ \A c \in Caller : Taking(c) => row[calls[c].who] # None /\ row[calls[c].who].token
        /\ \A c \in Caller :
               Asking(c) /\ row[calls[c].who] # None => ~row[calls[c].who].token
        /\ \A a \in Joined \ {Admin} :
               (\A c \in Caller : Taking(c) \/ Asking(c) => calls[c].who # a) =>
                   (row[a].token <=> Accepted(a))

\* What an active party's coinbase pays and how a block of it is booked: the party can
\* only have been dissolved since.
PayInv ==
    /\ job # None /\ job.live = "active" =>
           /\ group.status \in {"active", "dissolved"}
           /\ group.status = "active" => Splits = job.splits
    /\ booked # None /\ booked.live = "active" =>
           /\ group.status \in {"active", "dissolved"}
           /\ group.status = "active" => booked.how = "as paid"

IInv ==
    /\ Stored /\ Called /\ Apart /\ Standing /\ Invites
    /\ \A c \in Caller : Point(c)
    /\ CacheInv /\ ConsentInv /\ TokenInv /\ PayInv

-------------------------------------------------------------------------------
(* Calls. *)

LEMMA PcIsBusy == "idle" \notin PC
BY DEF PC

\* What a call holds.
LEMMA CallFields ==
    ASSUME NEW k \in Call
    PROVE  /\ k.pc \in PC /\ k.op \in Op /\ k.who \in Address /\ k.nr \in Nat
           /\ k.to \in Invite \cup {None} /\ k.grp \in Group \cup {None}
           /\ k.mem \in Row \cup {None} /\ k.pc # "idle"
           /\ \A a \in DOMAIN k.splits : k.splits[a] \in 1..Total /\ a \in Address
BY PcIsBusy DEF Call

LEMMA BusyCall ==
    ASSUME calls \in [Caller -> {NoCall} \cup Call], NEW c \in Caller, ~Idle(c)
    PROVE  calls[c] \in Call
BY DEF Idle, NoCall

LEMMA PointIsBusy ==
    ASSUME NEW c \in Caller, calls[c].pc \in PC PROVE ~Idle(c)
BY PcIsBusy DEF Idle

LEMMA SplitsEmpty == NoSplits \in UNION {[S -> 1..Total] : S \in SUBSET Address}
<1>1. NoSplits \in [{} -> 1..Total]
  BY DEF NoSplits
<1>2. {} \in SUBSET Address
  OBVIOUS
<1> QED BY <1>1, <1>2

\* How the call of c changes, and no other.
Turn(c, k) ==
    /\ calls' = [calls EXCEPT ![c] = k]
    /\ calls' \in [Caller -> {NoCall} \cup Call]
    /\ calls'[c] = k
    /\ \A d \in Caller : d # c => calls'[d] = calls[d]

LEMMA Turns ==
    ASSUME calls \in [Caller -> {NoCall} \cup Call], NEW c \in Caller,
           NEW k \in {NoCall} \cup Call, calls' = [calls EXCEPT ![c] = k]
    PROVE  Turn(c, k)
BY DEF Turn

LEMMA Going ==
    ASSUME calls \in [Caller -> {NoCall} \cup Call], NEW c \in Caller, ~Idle(c),
           NEW p \in PC, Go(c, p)
    PROVE  \E k \in Call :
             /\ Turn(c, k) /\ k.pc = p /\ k.op = calls[c].op /\ k.who = calls[c].who
             /\ k.nr = calls[c].nr /\ k.to = calls[c].to /\ k.grp = calls[c].grp
             /\ k.mem = calls[c].mem /\ k.splits = calls[c].splits
<1> DEFINE k == [calls[c] EXCEPT !.pc = p]
<1>1. calls[c] \in Call
  BY BusyCall
<1>2. k \in Call /\ k.pc = p /\ k.op = calls[c].op /\ k.who = calls[c].who
      /\ k.nr = calls[c].nr /\ k.to = calls[c].to /\ k.grp = calls[c].grp
      /\ k.mem = calls[c].mem /\ k.splits = calls[c].splits
  BY <1>1 DEF Call
<1>3. calls' = [calls EXCEPT ![c] = k]
  BY DEF Go
<1>4. Turn(c, k)
  BY <1>2, <1>3, Turns
<1> HIDE DEF k
<1> QED BY <1>2, <1>4

LEMMA Forgetting ==
    ASSUME calls \in [Caller -> {NoCall} \cup Call], NEW c \in Caller, ~Idle(c),
           NEW p \in PC, Forget(c, p)
    PROVE  \E k \in Call :
             /\ Turn(c, k) /\ k.pc = p /\ k.op = calls[c].op /\ k.who = calls[c].who
             /\ k.nr = calls[c].nr /\ k.to = calls[c].to
<1> DEFINE k == [calls[c] EXCEPT !.pc = p, !.grp = None, !.mem = None, !.splits = NoSplits]
<1>1. calls[c] \in Call
  BY BusyCall
<1>2. k \in Call /\ k.pc = p /\ k.op = calls[c].op /\ k.who = calls[c].who
      /\ k.nr = calls[c].nr /\ k.to = calls[c].to
  BY <1>1, SplitsEmpty DEF Call
<1>3. calls' = [calls EXCEPT ![c] = k]
  BY DEF Forget
<1>4. Turn(c, k)
  BY <1>2, <1>3, Turns
<1> HIDE DEF k
<1> QED BY <1>2, <1>4

LEMMA Ending ==
    ASSUME calls \in [Caller -> {NoCall} \cup Call], NEW c \in Caller, End(c)
    PROVE  Turn(c, NoCall) /\ Idle(c)'
<1>1. Turn(c, NoCall)
  BY Turns DEF End
<1> QED BY <1>1 DEF Turn, Idle, NoCall

LEMMA NewCall ==
    ASSUME NEW op \in Op, NEW p \in PC
    PROVE  /\ New(op, p) \in Call /\ New(op, p).pc = p /\ New(op, p).op = op
           /\ New(op, p).who = Admin /\ New(op, p).nr = 0 /\ New(op, p).to = None
           /\ New(op, p).grp = None
<1>1. Admin \in Address
  BY DEF Address
<1> QED BY <1>1, SplitsEmpty DEF New, Call

\* A handler begins only when all others are of a kind it may overlap with.
LEMMA Beginning ==
    ASSUME Overlap = FALSE, calls \in [Caller -> {NoCall} \cup Call],
           NEW c \in Caller, NEW k \in Call, Begin(c, k)
    PROVE  /\ Idle(c) /\ Turn(c, k) /\ past' = past
           /\ \A d \in Caller : Idle(d) \/ Tame(k.op, calls[d].op)
<1>1. Turn(c, k)
  BY Turns DEF Begin
<1> QED BY <1>1 DEF Begin

-------------------------------------------------------------------------------
(* A handler that is the only one. *)

Lone == {"create", "add", "remove", "splits", "respond", "resend", "transition",
         "dissolve", "hint"}
Alone(c) == \A d \in Caller : d # c => Idle(d)

Kept(c) == past # "failed" /\ token => (Dissolving(c) \/ RouteKept) /\ (Behind(c) \/ KnownKept)
Consented(c) == past # "failed" /\ ~Owing(c) => SignedOff
Following(c) ==
    past = "clean" =>
        /\ Asking(c) /\ row[calls[c].who] # None => ~row[calls[c].who].token
        /\ \A a \in Joined \ {Admin} :
               (Asking(c) => calls[c].who # a) => (row[a].token <=> Accepted(a))

\* The invariant when c is the only handler.
Solo(c) ==
    /\ Stored /\ calls \in [Caller -> {NoCall} \cup Call] /\ Alone(c)
    /\ ~Idle(c) => calls[c].op \in Lone
    /\ Staged(c) /\ Point(c) /\ Standing /\ Invites /\ PayInv
    /\ Kept(c) /\ Consented(c) /\ Following(c)

LEMMA IdleIsNowhere ==
    ASSUME NEW c \in Caller, Idle(c)
    PROVE  /\ Staged(c) /\ Point(c) /\ ~Dissolving(c) /\ ~Behind(c) /\ ~Owing(c) /\ ~Due(c)
           /\ Judged(c) /\ ~Taking(c) /\ ~Asking(c)
<1>1. calls[c].pc = "idle"
  BY DEF Idle
<1>2. Staged(c)
  BY <1>1 DEF Staged, At, Recompute, Rebuild, Is, PC
<1>3. Editing(c) /\ Saving(c)
  BY <1>1 DEF Editing, Saving, At, Rebuild, Is, PC
<1>4. Recomputing(c) /\ Writing(c) /\ Answering(c)
  BY <1>1 DEF Recomputing, Writing, Answering, At, Rebuild, Is, PC
<1>5. /\ ~Dissolving(c) /\ ~Behind(c) /\ ~Owing(c) /\ ~Due(c) /\ Judged(c)
      /\ ~Taking(c) /\ ~Asking(c)
  BY <1>1 DEF Dissolving, Behind, Owing, Due, Judged, Taking, Asking, Recompute, Rebuild, Is
<1> QED BY <1>2, <1>3, <1>4, <1>5 DEF Point

LEMMA IdleIsNowhereNext ==
    ASSUME NEW c \in Caller, Idle(c)'
    PROVE  /\ Staged(c)' /\ Point(c)' /\ ~Dissolving(c)' /\ ~Behind(c)' /\ ~Owing(c)'
           /\ ~Due(c)' /\ Judged(c)' /\ ~Taking(c)' /\ ~Asking(c)'
<1>1. calls'[c].pc = "idle"
  BY DEF Idle
<1>2. Staged(c)'
  BY <1>1 DEF Staged, At, Recompute, Rebuild, Is, PC
<1>3. Editing(c)' /\ Saving(c)'
  BY <1>1 DEF Editing, Saving, At, Rebuild, Is, PC
<1>4. Recomputing(c)' /\ Writing(c)' /\ Answering(c)'
  BY <1>1 DEF Recomputing, Writing, Answering, At, Rebuild, Is, PC
<1>5. /\ ~Dissolving(c)' /\ ~Behind(c)' /\ ~Owing(c)' /\ ~Due(c)' /\ Judged(c)'
      /\ ~Taking(c)' /\ ~Asking(c)'
  BY <1>1 DEF Dissolving, Behind, Owing, Due, Judged, Taking, Asking, Recompute, Rebuild, Is
<1> QED BY <1>2, <1>3, <1>4, <1>5 DEF Point

LEMMA LoneIsElse ==
    ASSUME NEW c \in Caller, Idle(c) \/ calls[c].op \in Lone
    PROVE  ~Due(c) /\ Judged(c) /\ ~Taking(c)
<1>1. CASE Idle(c)
  BY <1>1, IdleIsNowhere
<1>2. CASE calls[c].op \in Lone
  BY <1>2 DEF Lone, Due, Judged, Taking, Is, Consenting
<1> QED BY <1>1, <1>2

LEMMA LoneIsElseNext ==
    ASSUME NEW c \in Caller, Idle(c)' \/ calls'[c].op \in Lone
    PROVE  ~Due(c)' /\ Judged(c)' /\ ~Taking(c)'
<1>1. CASE Idle(c)'
  BY <1>1, IdleIsNowhereNext
<1>2. CASE calls'[c].op \in Lone
  BY <1>2 DEF Lone, Due, Judged, Taking, Is, Consenting
<1> QED BY <1>1, <1>2

LEMMA SoloOfInv ==
    ASSUME IInv, NEW c \in Caller, Alone(c), Idle(c) \/ calls[c].op \in Lone
    PROVE  Solo(c)
<1>1. /\ \A d \in Caller : d # c => ~Dissolving(d) /\ ~Behind(d) /\ ~Owing(d)
      /\ \A d \in Caller : d # c => ~Taking(d) /\ ~Asking(d)
      /\ \A d \in Caller : ~Due(d) /\ ~Taking(d)
  BY IdleIsNowhere, LoneIsElse DEF Alone
<1>2. Kept(c)
  BY <1>1 DEF IInv, CacheInv, Kept
<1>3. Consented(c)
  <2> SUFFICES ASSUME past # "failed", ~Owing(c) PROVE SignedOff
    BY DEF Consented
  <2>1. \A d \in Caller : ~Owing(d)
    BY <1>1
  <2>2. /\ group.status = "ready" => AllConfirmed
        /\ group.status = "confirming" /\ AllConfirmed => \E d \in Caller : Due(d)
    BY <2>1 DEF IInv, ConsentInv
  <2> QED BY <2>2, <1>1 DEF SignedOff, Voting
<1>4. Following(c)
  <2> SUFFICES ASSUME past = "clean" PROVE Following(c)
    BY DEF Following
  <2>1. Asking(c) /\ row[calls[c].who] # None => ~row[calls[c].who].token
    BY DEF IInv, TokenInv
  <2>2. ASSUME NEW a \in Joined \ {Admin}, Asking(c) => calls[c].who # a
        PROVE  row[a].token <=> Accepted(a)
    <3>1. \A d \in Caller : Taking(d) \/ Asking(d) => calls[d].who # a
      BY <1>1, <2>2
    <3> QED BY <3>1 DEF IInv, TokenInv
  <2> QED BY <2>1, <2>2 DEF Following
<1> QED BY <1>2, <1>3, <1>4 DEF IInv, Called, Solo

LEMMA InvOfSolo ==
    ASSUME NEW c \in Caller, Solo(c)'
    PROVE  IInv'
<1>1. /\ \A d \in Caller : d # c => Idle(d)'
      /\ Idle(c)' \/ calls'[c].op \in Lone
  BY DEF Solo, Alone
<1>2. \A d \in Caller : d # c =>
          /\ Staged(d)' /\ Point(d)' /\ ~Dissolving(d)' /\ ~Behind(d)' /\ ~Owing(d)'
          /\ ~Asking(d)' /\ ~Taking(d)' /\ Judged(d)'
  BY <1>1, IdleIsNowhereNext
<1>3. Judged(c)' /\ ~Taking(c)'
  BY <1>1, LoneIsElseNext
<1>4. Called' /\ (\A d \in Caller : Point(d))'
  <2>1. \A d \in Caller : Staged(d)' /\ Point(d)'
    BY <1>2 DEF Solo
  <2> QED BY <2>1 DEF Solo, Called
<1>5. Apart'
  BY <1>1 DEF Apart
<1>6. CacheInv'
  <2> SUFFICES ASSUME past' # "failed", token' PROVE CacheInv'
    BY DEF CacheInv
  <2>1. (Dissolving(c)' \/ RouteKept') /\ (Behind(c)' \/ KnownKept')
    BY DEF Solo, Kept
  <2> QED BY <2>1 DEF CacheInv
<1>7. ConsentInv'
  <2> SUFFICES ASSUME past' # "failed" PROVE ConsentInv'
    BY DEF ConsentInv
  <2>1. ~Owing(c)' => SignedOff'
    BY DEF Solo, Consented
  <2>2. \A d \in Caller : Judged(d)'
    BY <1>2, <1>3
  <2>3. ASSUME ~Owing(c)'
        PROVE  /\ (group.status = "ready" => AllConfirmed)'
               /\ ~(group.status = "confirming" /\ AllConfirmed)'
    BY <2>1, <2>3 DEF SignedOff, Voting
  <2> QED BY <2>2, <2>3 DEF ConsentInv
<1>8. TokenInv'
  <2> SUFFICES ASSUME past' = "clean" PROVE TokenInv'
    BY DEF TokenInv
  <2>1. /\ (Asking(c) /\ row[calls[c].who] # None => ~row[calls[c].who].token)'
        /\ \A a \in Joined' \ {Admin} :
               (Asking(c)' => calls'[c].who # a) => (row'[a].token <=> Accepted(a)')
    BY DEF Solo, Following
  <2>2. \A d \in Caller : ~Taking(d)'
    BY <1>2, <1>3
  <2>3. \A d \in Caller : Asking(d)' => d = c
    BY <1>2
  <2>4. \A d \in Caller : (Asking(d) /\ row[calls[d].who] # None => ~row[calls[d].who].token)'
    BY <2>1, <2>3
  <2>5. ASSUME NEW a \in Joined' \ {Admin},
               (\A d \in Caller : Taking(d) \/ Asking(d) => calls[d].who # a)'
        PROVE  row'[a].token <=> Accepted(a)'
    BY <2>1, <2>5
  <2> QED BY <2>2, <2>4, <2>5 DEF TokenInv
<1> QED BY <1>4, <1>5, <1>6, <1>7, <1>8 DEF Solo, IInv

\* A handler of these kinds is the only one.
LEMMA StepsAlone ==
    ASSUME IInv, NEW c \in Caller, ~Idle(c), calls[c].op \in Lone
    PROVE  Solo(c)
<1>1. ASSUME NEW d \in Caller, d # c, ~Idle(d) PROVE FALSE
  <2>1. Tame(calls[c].op, calls[d].op)
    BY <1>1 DEF IInv, Apart
  <2> QED BY <2>1 DEF Tame, Lone
<1> QED BY <1>1, SoloOfInv DEF Alone

LEMMA BeginsAlone ==
    ASSUME IInv, Overlap = FALSE, NEW c \in Caller, NEW k \in Call, Begin(c, k),
           k.op \in Lone
    PROVE  Solo(c) /\ Idle(c) /\ Turn(c, k) /\ past' = past
<1>1. /\ Idle(c) /\ Turn(c, k) /\ past' = past
      /\ \A d \in Caller : Idle(d) \/ Tame(k.op, calls[d].op)
  BY Beginning DEF IInv, Called
<1>2. Alone(c)
  BY <1>1 DEF Tame, Lone, Alone
<1> QED BY <1>1, <1>2, SoloOfInv

-------------------------------------------------------------------------------
(* A step of the only handler that writes nothing. *)

rows == <<db, token, cache, mine, past>>

LEMMA ReadsFrame ==
    ASSUME UNCHANGED rows
    PROVE  /\ Stored => Stored'
           /\ Standing => Standing'
           /\ Invites => Invites'
           /\ PayInv => PayInv'
           /\ SignedOff' = SignedOff /\ RouteKept' = RouteKept /\ KnownKept' = KnownKept
           /\ AllConfirmed' = AllConfirmed /\ Joined' = Joined /\ Splits' = Splits
           /\ \A a \in Address : Accepted(a)' = Accepted(a)
<1>1. /\ group' = group /\ row' = row /\ invite' = invite /\ adds' = adds /\ token' = token
      /\ route' = route /\ known' = known /\ job' = job /\ booked' = booked /\ past' = past
  BY DEF rows, db, cache, mine
<1>2. Joined' = Joined /\ Splits' = Splits /\ AllConfirmed' = AllConfirmed
  BY <1>1 DEF Joined, Splits, AllConfirmed
<1>3. SignedOff' = SignedOff /\ RouteKept' = RouteKept /\ KnownKept' = KnownKept
  BY <1>1, <1>2 DEF SignedOff, RouteKept, KnownKept
<1>4. \A a \in Address : Accepted(a)' = Accepted(a)
  BY <1>1 DEF Accepted
<1>5. (Stored => Stored') /\ (Standing => Standing') /\ (Invites => Invites')
  BY <1>1 DEF Stored, Standing, Invites
<1>6. PayInv => PayInv'
  BY <1>1, <1>2 DEF PayInv
<1> QED BY <1>2, <1>3, <1>4, <1>5, <1>6

LEMMA SoloReads ==
    ASSUME NEW c \in Caller, Solo(c), NEW k \in {NoCall} \cup Call, Turn(c, k),
           UNCHANGED rows, ~Idle(c)' => k.op \in Lone, Staged(c)', Point(c)',
           Dissolving(c) => Dissolving(c)',
           Behind(c) => Behind(c)',
           Owing(c) => Owing(c)' \/ SignedOff,
           past = "clean" /\ Asking(c)' /\ row[k.who] # None => ~row[k.who].token,
           Asking(c) => Asking(c)' /\ k.who = calls[c].who
    PROVE  Solo(c)'
<1>1. /\ calls' \in [Caller -> {NoCall} \cup Call] /\ calls'[c] = k
      /\ \A d \in Caller : d # c => calls'[d] = calls[d]
  BY DEF Turn
<1>2. Alone(c)'
  BY <1>1 DEF Solo, Alone, Idle
<1>3. /\ Stored' /\ Standing' /\ Invites' /\ PayInv'
      /\ SignedOff' = SignedOff /\ RouteKept' = RouteKept /\ KnownKept' = KnownKept
      /\ Joined' = Joined /\ \A a \in Address : Accepted(a)' = Accepted(a)
  BY ReadsFrame DEF Solo
<1>4. past' = past /\ token' = token /\ row' = row
  BY DEF rows, db
<1>5. Kept(c)'
  <2>1. past # "failed" /\ token => (Dissolving(c) \/ RouteKept) /\ (Behind(c) \/ KnownKept)
    BY DEF Solo, Kept
  <2>2. past' # "failed" /\ token' =>
            (Dissolving(c)' \/ RouteKept') /\ (Behind(c)' \/ KnownKept')
    BY <1>3, <1>4, <2>1
  <2> QED BY <2>2 DEF Kept
<1>6. Consented(c)'
  <2>1. past # "failed" /\ ~Owing(c) => SignedOff
    BY DEF Solo, Consented
  <2>2. past' # "failed" /\ ~Owing(c)' => SignedOff'
    BY <1>3, <1>4, <2>1
  <2> QED BY <2>2 DEF Consented
<1>7. Following(c)'
  <2> SUFFICES ASSUME past' = "clean" PROVE Following(c)'
    BY DEF Following
  <2>1. Asking(c)' /\ row'[calls'[c].who] # None => ~row'[calls'[c].who].token
    BY <1>1, <1>4
  <2>2. ASSUME NEW a \in Joined' \ {Admin}, Asking(c)' => calls'[c].who # a
        PROVE  row'[a].token <=> Accepted(a)'
    <3>1. Asking(c) => calls[c].who # a
      BY <1>1, <2>2
    <3>2. row[a].token <=> Accepted(a)
      BY <1>3, <1>4, <3>1 DEF Solo, Following
    <3>3. a \in Address
      BY <1>3 DEF Joined
    <3> QED BY <1>3, <1>4, <3>2, <3>3
  <2> QED BY <2>1, <2>2 DEF Following
<1>8. ~Idle(c)' => calls'[c].op \in Lone
  BY <1>1
<1> QED BY <1>1, <1>2, <1>3, <1>5, <1>6, <1>7, <1>8 DEF Solo

\* A handler begins with a step that writes nothing.
LEMMA SoloBegins ==
    ASSUME NEW c \in Caller, Solo(c), Idle(c), NEW k \in Call, Turn(c, k), UNCHANGED rows,
           k.op \in Lone, Staged(c)', Point(c)', ~Asking(c)'
    PROVE  Solo(c)'
BY SoloReads, IdleIsNowhere

LEMMA AddMemberKeeps ==
    ASSUME IInv, Overlap = FALSE, NEW c \in Caller, AddMember(c)
    PROVE  Solo(c)'
<1>1. PICK a \in Member : \E p \in Percent[a] :
          /\ adds[a] + Cardinality({d \in Caller : At(d, "insert")}) < MaxRows
          /\ Begin(c, [New("add", "insert") EXCEPT !.who = a, !.grp = group,
                                                   !.splits = [x \in {a} |-> p]])
  BY DEF AddMember
<1>0. PICK p \in Percent[a] :
          /\ adds[a] + Cardinality({d \in Caller : At(d, "insert")}) < MaxRows
          /\ Begin(c, [New("add", "insert") EXCEPT !.who = a, !.grp = group,
                                                   !.splits = [x \in {a} |-> p]])
  BY <1>1
<1> DEFINE k == [New("add", "insert") EXCEPT !.who = a, !.grp = group,
                                             !.splits = [x \in {a} |-> p]]
<1>2. a \in Address /\ p \in 1..Total /\ [x \in {a} |-> p] \in [{a} -> 1..Total]
  BY PartyAssumption DEF Address
<1>3. {a} \in SUBSET Address
  BY <1>2
<1>4. /\ k \in Call /\ k.pc = "insert" /\ k.op = "add" /\ k.who = a /\ k.grp = group
      /\ a \in DOMAIN k.splits
  <2>1. New("add", "insert") \in Call /\ New("add", "insert").op = "add"
        /\ New("add", "insert").pc = "insert"
    BY NewCall DEF Op, PC
  <2>2. group \in Group
    BY DEF IInv, Stored
  <2> QED BY <2>1, <2>2, <1>2, <1>3 DEF Call
<1>5. Begin(c, k)
  BY <1>0
<1> HIDE DEF k
<1>6. Solo(c) /\ Idle(c) /\ Turn(c, k) /\ past' = past
  BY <1>4, <1>5, BeginsAlone DEF Lone
<1>7. adds[a] < MaxRows
  <2>1. {d \in Caller : At(d, "insert")} = {}
    BY <1>6 DEF Solo, Alone, Idle, At
  <2>2. Cardinality({d \in Caller : At(d, "insert")}) = 0
    BY <2>1, FS_EmptySet
  <2>3. adds[a] \in Nat /\ MaxRows \in Nat
    BY <1>2, PartyAssumption DEF IInv, Stored
  <2> QED BY <1>0, <2>2, <2>3
<1>8. UNCHANGED rows /\ group' = group /\ adds' = adds /\ calls'[c] = k
      /\ group.status \in Editable /\ token'
  BY <1>6 DEF AddMember, rows, db, Edited, Turn
<1>9. Staged(c)' /\ Saving(c)' /\ Writing(c)'
  BY <1>4, <1>8 DEF Staged, Saving, Writing, At, Is, Recompute, Rebuild
<1>10. Editing(c)' /\ Recomputing(c)' /\ Answering(c)'
  BY <1>4, <1>7, <1>8 DEF Editing, Recomputing, Answering, At, Is, Rebuild
<1>11. ~Asking(c)'
  BY <1>4, <1>8 DEF Asking, Is, Recompute, Rebuild
<1> QED BY <1>4, <1>6, <1>8, <1>9, <1>10, <1>11, SoloBegins DEF Point, Lone

\* What all handlers have in common that begin with a read.
LEMMA BeginsReading ==
    ASSUME IInv, Overlap = FALSE, NEW c \in Caller, NEW k \in Call, Begin(c, k),
           k.op \in Lone, UNCHANGED <<db, token, cache, mine>>
    PROVE  /\ Solo(c) /\ Idle(c) /\ Turn(c, k) /\ UNCHANGED rows /\ calls'[c] = k
           /\ group' = group /\ row' = row /\ invite' = invite /\ adds' = adds
           /\ token' = token
<1>1. Solo(c) /\ Idle(c) /\ Turn(c, k) /\ past' = past
  BY BeginsAlone
<1> QED BY <1>1 DEF rows, db, Turn

LEMMA RemoveMemberKeeps ==
    ASSUME IInv, Overlap = FALSE, NEW c \in Caller, RemoveMember(c)
    PROVE  Solo(c)'
<1>1. PICK a \in Member : Begin(c, [New("remove", "find") EXCEPT !.who = a])
  BY DEF RemoveMember
<1> DEFINE k == [New("remove", "find") EXCEPT !.who = a]
<1>2. k \in Call /\ k.pc = "find" /\ k.op = "remove" /\ k.who = a
  <2>1. New("remove", "find") \in Call /\ New("remove", "find").op = "remove"
        /\ New("remove", "find").pc = "find"
    BY NewCall DEF Op, PC
  <2>2. a \in Address
    BY DEF Address
  <2> QED BY <2>1, <2>2 DEF Call
<1>3. Begin(c, k)
  BY <1>1
<1> HIDE DEF k
<1>4. UNCHANGED <<db, token, cache, mine>> /\ group.status \in Editable
  BY DEF RemoveMember, Edited
<1>5. /\ Solo(c) /\ Idle(c) /\ Turn(c, k) /\ UNCHANGED rows /\ calls'[c] = k
      /\ group' = group
  BY <1>2, <1>3, <1>4, BeginsReading DEF Lone
<1>6. Staged(c)' /\ Saving(c)' /\ Writing(c)'
  BY <1>2, <1>5 DEF Staged, Saving, Writing, At, Is, Recompute, Rebuild
<1>7. Editing(c)' /\ Recomputing(c)' /\ Answering(c)'
  BY <1>2, <1>4, <1>5 DEF Editing, Recomputing, Answering, At, Is, Rebuild
<1>8. ~Asking(c)'
  BY <1>2, <1>5 DEF Asking, Is, Recompute, Rebuild
<1> QED BY <1>2, <1>5, <1>6, <1>7, <1>8, SoloBegins DEF Point, Lone

LEMMA UpdateSplitsKeeps ==
    ASSUME IInv, Overlap = FALSE, NEW c \in Caller, UpdateSplits(c)
    PROVE  Solo(c)'
<1>1. PICK S \in SUBSET Joined : \E new \in [S -> 1..Total] :
          /\ \A a \in S : new[a] \in Percent[a]
          /\ Begin(c, [New("splits", "edit") EXCEPT !.splits = new])
  BY DEF UpdateSplits
<1>0. PICK new \in [S -> 1..Total] : Begin(c, [New("splits", "edit") EXCEPT !.splits = new])
  BY <1>1
<1> DEFINE k == [New("splits", "edit") EXCEPT !.splits = new]
<1>2. k \in Call /\ k.pc = "edit" /\ k.op = "splits"
  <2>1. New("splits", "edit") \in Call /\ New("splits", "edit").op = "splits"
        /\ New("splits", "edit").pc = "edit"
    BY NewCall DEF Op, PC
  <2>2. S \in SUBSET Address
    BY DEF Joined
  <2> QED BY <2>1, <2>2 DEF Call
<1>3. Begin(c, k)
  BY <1>0
<1> HIDE DEF k
<1>4. UNCHANGED <<db, token, cache, mine>> /\ group.status \in Editable
  BY DEF UpdateSplits, Edited
<1>5. /\ Solo(c) /\ Idle(c) /\ Turn(c, k) /\ UNCHANGED rows /\ calls'[c] = k
      /\ group' = group
  BY <1>2, <1>3, <1>4, BeginsReading DEF Lone
<1>6. Staged(c)' /\ Saving(c)' /\ Writing(c)'
  BY <1>2, <1>5 DEF Staged, Saving, Writing, At, Is, Recompute, Rebuild
<1>7. Editing(c)' /\ Recomputing(c)' /\ Answering(c)'
  BY <1>2, <1>4, <1>5 DEF Editing, Recomputing, Answering, At, Is, Rebuild
<1>8. ~Asking(c)'
  BY <1>2, <1>5 DEF Asking, Is, Recompute, Rebuild
<1> QED BY <1>2, <1>5, <1>6, <1>7, <1>8, SoloBegins DEF Point, Lone

\* An invitation that is open is the last of its address.
LEMMA OpenIsLast ==
    ASSUME Stored, Invites, NEW a \in Address, NEW i \in DOMAIN invite[a],
           invite[a][i] \in Open
    PROVE  i \in Nat /\ i = Len(invite[a])
<1>1. invite[a] \in Seq(Invite)
  BY DEF Stored
<1>2. i \in Nat
  BY <1>1
<1> QED BY <1>2 DEF Invites

LEMMA RespondKeeps ==
    ASSUME IInv, Overlap = FALSE, NEW c \in Caller, Respond(c)
    PROVE  Solo(c)'
<1>1. PICK a \in Address, to \in {"declined", "expired"} : \E i \in DOMAIN invite[a] :
          /\ invite[a][i] = "pending" \/ (invite[a][i] = "lapsed" /\ to = "expired")
          /\ Begin(c, [New("respond", "answer") EXCEPT !.who = a, !.nr = i, !.to = to])
  BY DEF Respond
<1>0. PICK i \in DOMAIN invite[a] :
          /\ invite[a][i] = "pending" \/ (invite[a][i] = "lapsed" /\ to = "expired")
          /\ Begin(c, [New("respond", "answer") EXCEPT !.who = a, !.nr = i, !.to = to])
  BY <1>1
<1> DEFINE k == [New("respond", "answer") EXCEPT !.who = a, !.nr = i, !.to = to]
<1>9. invite[a][i] \in Open /\ i \in Nat /\ i = Len(invite[a])
  <2>1. invite[a][i] \in Open
    BY <1>0 DEF Open
  <2> QED BY <2>1, OpenIsLast DEF IInv
<1>2. /\ k \in Call /\ k.pc = "answer" /\ k.op = "respond" /\ k.who = a /\ k.nr = i
      /\ k.to = to
  <2>1. New("respond", "answer") \in Call /\ New("respond", "answer").op = "respond"
        /\ New("respond", "answer").pc = "answer"
    BY NewCall DEF Op, PC
  <2>2. to \in Invite
    BY DEF Invite
  <2> QED BY <2>1, <2>2, <1>9 DEF Call
<1>3. Begin(c, k)
  BY <1>0
<1> HIDE DEF k
<1>4. UNCHANGED <<db, token, cache, mine>>
  BY DEF Respond
<1>5. /\ Solo(c) /\ Idle(c) /\ Turn(c, k) /\ UNCHANGED rows /\ calls'[c] = k
      /\ group' = group /\ invite' = invite
  BY <1>2, <1>3, <1>4, BeginsReading DEF Lone
<1>6. Staged(c)' /\ Saving(c)' /\ Writing(c)'
  BY <1>2, <1>5 DEF Staged, Saving, Writing, At, Is, Recompute, Rebuild
<1>7. Editing(c)' /\ Recomputing(c)' /\ Answering(c)'
  BY <1>2, <1>4, <1>5, <1>9 DEF Editing, Recomputing, Answering, At, Is, Rebuild
<1>8. ~Asking(c)'
  BY <1>2, <1>5 DEF Asking, Is, Recompute, Rebuild
<1> QED BY <1>2, <1>5, <1>6, <1>7, <1>8, SoloBegins DEF Point, Lone

LEMMA ResendKeeps ==
    ASSUME IInv, Overlap = FALSE, NEW c \in Caller, Resend(c)
    PROVE  Solo(c)'
<1>1. PICK a \in Resent : Begin(c, [New("resend", "invites") EXCEPT !.who = a])
  BY DEF Resend
<1> DEFINE k == [New("resend", "invites") EXCEPT !.who = a]
<1>2. k \in Call /\ k.pc = "invites" /\ k.op = "resend" /\ k.who = a
  <2>1. New("resend", "invites") \in Call /\ New("resend", "invites").op = "resend"
        /\ New("resend", "invites").pc = "invites"
    BY NewCall DEF Op, PC
  <2>2. a \in Address
    BY PartyAssumption
  <2> QED BY <2>1, <2>2 DEF Call
<1>3. Begin(c, k)
  BY <1>1
<1> HIDE DEF k
<1>4. UNCHANGED <<db, token, cache, mine>>
  BY DEF Resend
<1>5. /\ Solo(c) /\ Idle(c) /\ Turn(c, k) /\ UNCHANGED rows /\ calls'[c] = k
  BY <1>2, <1>3, <1>4, BeginsReading DEF Lone
<1>6. Staged(c)' /\ Saving(c)' /\ Writing(c)'
  BY <1>2, <1>5 DEF Staged, Saving, Writing, At, Is, Recompute, Rebuild
<1>7. Editing(c)' /\ Recomputing(c)' /\ Answering(c)'
  BY <1>2, <1>5 DEF Editing, Recomputing, Answering, At, Is, Rebuild
<1>8. ~Asking(c)'
  BY <1>2, <1>5 DEF Asking, Is, Recompute, Rebuild
<1> QED BY <1>2, <1>5, <1>6, <1>7, <1>8, SoloBegins DEF Point, Lone

LEMMA TransitionKeeps ==
    ASSUME IInv, Overlap = FALSE, NEW c \in Caller, TransitionToConfirming(c)
    PROVE  Solo(c)'
<1> DEFINE k == [New("transition", "sum") EXCEPT !.grp = group]
<1>2. k \in Call /\ k.pc = "sum" /\ k.op = "transition" /\ k.grp = group
  <2>1. New("transition", "sum") \in Call /\ New("transition", "sum").op = "transition"
        /\ New("transition", "sum").pc = "sum"
    BY NewCall DEF Op, PC
  <2>2. group \in Group
    BY DEF IInv, Stored
  <2> QED BY <2>1, <2>2 DEF Call
<1>3. Begin(c, k)
  BY DEF TransitionToConfirming
<1> HIDE DEF k
<1>4. UNCHANGED <<db, token, cache, mine>> /\ token'
  BY DEF TransitionToConfirming, ByAdmin
<1>5. /\ Solo(c) /\ Idle(c) /\ Turn(c, k) /\ UNCHANGED rows /\ calls'[c] = k
      /\ group' = group
  BY <1>2, <1>3, <1>4, BeginsReading DEF Lone
<1>6. Staged(c)' /\ Saving(c)' /\ Writing(c)'
  BY <1>2, <1>5 DEF Staged, Saving, Writing, At, Is, Recompute, Rebuild
<1>7. Editing(c)' /\ Recomputing(c)' /\ Answering(c)'
  BY <1>2, <1>4, <1>5 DEF Editing, Recomputing, Answering, At, Is, Rebuild
<1>8. ~Asking(c)'
  BY <1>2, <1>5 DEF Asking, Is, Recompute, Rebuild
<1> QED BY <1>2, <1>5, <1>6, <1>7, <1>8, SoloBegins DEF Point, Lone

LEMMA DissolveKeeps ==
    ASSUME IInv, Overlap = FALSE, NEW c \in Caller, Dissolve(c)
    PROVE  Solo(c)'
<1> DEFINE k == [New("dissolve", "write") EXCEPT !.grp = [group EXCEPT !.status = "dissolved"]]
<1>2. /\ k \in Call /\ k.pc = "write" /\ k.op = "dissolve"
      /\ k.grp = [group EXCEPT !.status = "dissolved"]
  <2>1. New("dissolve", "write") \in Call /\ New("dissolve", "write").op = "dissolve"
        /\ New("dissolve", "write").pc = "write"
    BY NewCall DEF Op, PC
  <2>2. [group EXCEPT !.status = "dissolved"] \in Group
    BY DEF IInv, Stored, Group, Status
  <2> QED BY <2>1, <2>2 DEF Call
<1>3. Begin(c, k)
  BY DEF Dissolve
<1> HIDE DEF k
<1>4. /\ UNCHANGED <<db, token, cache, mine>> /\ token
      /\ ~(group.status = "active" /\ group.recent)
  BY DEF Dissolve, ByAdmin
<1>5. /\ Solo(c) /\ Idle(c) /\ Turn(c, k) /\ UNCHANGED rows /\ calls'[c] = k
      /\ group' = group /\ token' = token
  BY <1>2, <1>3, <1>4, BeginsReading DEF Lone
<1>6. Staged(c)' /\ Saving(c)' /\ Writing(c)'
  BY <1>2, <1>4, <1>5 DEF Staged, Saving, Writing, At, Is, Recompute, Rebuild
<1>7. Editing(c)' /\ Recomputing(c)' /\ Answering(c)'
  BY <1>2, <1>5 DEF Editing, Recomputing, Answering, At, Is, Rebuild
<1>8. ~Asking(c)'
  BY <1>2, <1>5 DEF Asking, Is, Recompute, Rebuild
<1> QED BY <1>2, <1>5, <1>6, <1>7, <1>8, SoloBegins DEF Point, Lone

LEMMA UpdateHintKeeps ==
    ASSUME IInv, Overlap = FALSE, NEW c \in Caller, UpdateHint(c)
    PROVE  Solo(c)'
<1> DEFINE k == [New("hint", "write") EXCEPT !.grp = group]
<1>2. k \in Call /\ k.pc = "write" /\ k.op = "hint" /\ k.grp = group
  <2>1. New("hint", "write") \in Call /\ New("hint", "write").op = "hint"
        /\ New("hint", "write").pc = "write"
    BY NewCall DEF Op, PC
  <2>2. group \in Group
    BY DEF IInv, Stored
  <2> QED BY <2>1, <2>2 DEF Call
<1>3. Begin(c, k)
  BY DEF UpdateHint
<1> HIDE DEF k
<1>4. UNCHANGED <<db, token, cache, mine>>
  BY DEF UpdateHint
<1>5. /\ Solo(c) /\ Idle(c) /\ Turn(c, k) /\ UNCHANGED rows /\ calls'[c] = k
      /\ group' = group
  BY <1>2, <1>3, <1>4, BeginsReading DEF Lone
<1>6. Staged(c)' /\ Saving(c)' /\ Writing(c)'
  BY <1>2, <1>5 DEF Staged, Saving, Writing, At, Is, Recompute, Rebuild
<1>7. Editing(c)' /\ Recomputing(c)' /\ Answering(c)'
  BY <1>2, <1>5 DEF Editing, Recomputing, Answering, At, Is, Rebuild
<1>8. ~Asking(c)'
  BY <1>2, <1>5 DEF Asking, Is, Recompute, Rebuild
<1> QED BY <1>2, <1>5, <1>6, <1>7, <1>8, SoloBegins DEF Point, Lone

-------------------------------------------------------------------------------
(* Steps of the only handler that read and decide. *)

LEMMA BusyFields ==
    ASSUME NEW c \in Caller, Solo(c), ~Idle(c)
    PROVE  calls[c] \in Call /\ calls[c].op \in Lone /\ calls[c].pc \in PC
<1>1. calls[c] \in Call
  BY BusyCall DEF Solo
<1> QED BY <1>1, CallFields DEF Solo

LEMMA SoloEnds ==
    ASSUME NEW c \in Caller, Solo(c), End(c), UNCHANGED rows, ~Dissolving(c), ~Behind(c),
           Owing(c) => SignedOff, ~Asking(c)
    PROVE  Solo(c)'
<1>1. Turn(c, NoCall) /\ Idle(c)'
  BY Ending DEF Solo
<1>2. Staged(c)' /\ Point(c)' /\ ~Asking(c)'
  BY <1>1, IdleIsNowhereNext
<1> QED BY <1>1, <1>2, SoloReads

\* The handler goes on at another pc.
LEMMA SoloGoes ==
    ASSUME NEW c \in Caller, Solo(c), ~Idle(c), NEW k \in Call, Turn(c, k), UNCHANGED rows,
           k.op = calls[c].op, k.who = calls[c].who, Staged(c)', Point(c)',
           Dissolving(c) => Dissolving(c)', Behind(c) => Behind(c)',
           Owing(c) => Owing(c)' \/ SignedOff, Asking(c) <=> Asking(c)'
    PROVE  Solo(c)'
<1>1. past = "clean" /\ Asking(c)' /\ row[k.who] # None => ~row[k.who].token
  BY DEF Solo, Following
<1>2. k.op \in Lone
  BY BusyFields
<1> QED BY <1>1, <1>2, SoloReads

\* What follows recomputeStatus.
LEMMA OnwardTurn ==
    ASSUME calls \in [Caller -> {NoCall} \cup Call], NEW c \in Caller, ~Idle(c), Onward(c)
    PROVE  \/ /\ calls[c].op \in {"add", "remove"}
              /\ \E k \in Call : /\ Turn(c, k) /\ k.pc = "rebuild" /\ k.op = calls[c].op
                                 /\ k.who = calls[c].who
           \/ /\ calls[c].op = "accept"
              /\ \E k \in Call : /\ Turn(c, k) /\ k.pc = "answer" /\ k.op = calls[c].op
                                 /\ k.who = calls[c].who /\ k.nr = calls[c].nr
                                 /\ k.to = calls[c].to
           \/ /\ calls[c].op = "resend"
              /\ \E k \in Call : /\ Turn(c, k) /\ k.pc = "mint" /\ k.op = calls[c].op
                                 /\ k.who = calls[c].who
           \/ calls[c].op \notin {"add", "remove", "accept", "resend"} /\ End(c)
<1>1. CASE calls[c].op \in {"add", "remove"}
  <2>1. Forget(c, "rebuild")
    BY <1>1 DEF Onward
  <2>2. "rebuild" \in PC
    BY DEF PC
  <2> QED BY <1>1, <2>1, <2>2, Forgetting
<1>2. CASE calls[c].op = "accept"
  <2>1. Forget(c, "answer")
    BY <1>2 DEF Onward
  <2>2. "answer" \in PC
    BY DEF PC
  <2> QED BY <1>2, <2>1, <2>2, Forgetting
<1>3. CASE calls[c].op = "resend"
  <2>1. Forget(c, "mint")
    BY <1>3 DEF Onward
  <2>2. "mint" \in PC
    BY DEF PC
  <2> QED BY <1>3, <2>1, <2>2, Forgetting
<1>4. CASE calls[c].op \notin {"add", "remove", "accept", "resend"}
  BY <1>4 DEF Onward
<1> QED BY <1>1, <1>2, <1>3, <1>4

LEMMA SoloOnward ==
    ASSUME NEW c \in Caller, Solo(c), calls[c].pc \in Recompute, Onward(c), UNCHANGED rows,
           SignedOff
    PROVE  Solo(c)'
<1>1. ~Idle(c) /\ calls[c].pc \in PC
  BY PointIsBusy DEF Recompute, PC
<1>2. SignedOff' /\ row' = row
  BY ReadsFrame DEF rows, db
<1>3. ~Dissolving(c)
  BY DEF Dissolving, Is, Rebuild, Recompute
<1>4. ASSUME calls[c].op \in {"add", "remove"}, NEW k \in Call, Turn(c, k),
             k.pc = "rebuild", k.op = calls[c].op, k.who = calls[c].who
      PROVE  Solo(c)'
  <2>1. calls'[c] = k
    BY <1>4 DEF Turn
  <2>2. Staged(c)' /\ Saving(c)' /\ Writing(c)'
    BY <1>4, <2>1 DEF Staged, Saving, Writing, At, Is, Recompute, Rebuild
  <2>3. Editing(c)' /\ Recomputing(c)' /\ Answering(c)'
    BY <1>2, <1>4, <2>1 DEF Editing, Recomputing, Answering, At, Is, Rebuild
  <2>4. Behind(c)' /\ (Asking(c) <=> Asking(c)')
    BY <1>4, <2>1 DEF Behind, Asking, Is, Rebuild, Recompute
  <2> QED BY <1>1, <1>3, <1>4, <2>2, <2>3, <2>4, SoloGoes DEF Point
<1>5. ASSUME calls[c].op = "resend", NEW k \in Call, Turn(c, k),
             k.pc = "mint", k.op = calls[c].op, k.who = calls[c].who
      PROVE  Solo(c)'
  <2>1. calls'[c] = k
    BY <1>5 DEF Turn
  <2>2. Staged(c)' /\ Saving(c)' /\ Writing(c)'
    BY <1>5, <2>1 DEF Staged, Saving, Writing, At, Is, Recompute, Rebuild
  <2>3. Editing(c)' /\ Recomputing(c)' /\ Answering(c)'
    BY <1>5, <2>1 DEF Editing, Recomputing, Answering, At, Is, Rebuild
  <2>4. ~Behind(c) /\ (Asking(c) <=> Asking(c)')
    BY <1>5, <2>1 DEF Behind, Asking, Is, Rebuild, Recompute
  <2> QED BY <1>1, <1>3, <1>5, <2>2, <2>3, <2>4, SoloGoes DEF Point
<1>6. ASSUME calls[c].op \notin {"add", "remove", "accept", "resend"}, End(c)
      PROVE  Solo(c)'
  <2>1. calls[c].op # "dissolve"
    BY DEF Solo, Staged
  <2>2. ~Behind(c) /\ ~Asking(c)
    BY <1>6, <2>1 DEF Behind, Asking, Is
  <2> QED BY <1>3, <1>6, <2>2, SoloEnds
<1>7. calls[c].op # "accept"
  BY <1>1, BusyFields DEF Lone
<1> QED BY <1>1, <1>4, <1>5, <1>6, <1>7, OnwardTurn DEF Solo

\* A handler that recomputes the status keeps what it has still to do.
LEMMA RecomputesOn ==
    ASSUME NEW c \in Caller, Solo(c), NEW k \in Call, Turn(c, k), UNCHANGED rows,
           calls[c].pc \in {"promote"} \cup Recompute, k.pc \in Recompute,
           k.op = calls[c].op, k.who = calls[c].who, Recomputing(c)'
    PROVE  Solo(c)'
<1>1. ~Idle(c) /\ calls[c].pc \in PC
  BY PointIsBusy DEF Recompute, PC
<1>2. calls[c].op \in Lone /\ calls'[c] = k
  BY <1>1, BusyFields DEF Turn
<1>3. calls[c].op \in {"add", "remove", "splits", "resend", "transition"}
  BY <1>2 DEF Solo, Staged, Lone, Recompute, At
<1>4. Staged(c)' /\ Saving(c)' /\ Writing(c)'
  BY <1>2, <1>3 DEF Staged, Saving, Writing, At, Is, Recompute, Rebuild
<1>5. Editing(c)' /\ Answering(c)'
  BY <1>2, <1>3 DEF Editing, Answering, At, Is, Recompute, Rebuild
<1>6. ~Dissolving(c) /\ (Behind(c) => Behind(c)') /\ Owing(c)' /\ (Asking(c) <=> Asking(c)')
  BY <1>2, <1>3 DEF Dissolving, Behind, Owing, Asking, Is, Recompute, Rebuild
<1> QED BY <1>1, <1>4, <1>5, <1>6, SoloGoes DEF Point

LEMMA RecomputeGroupAlone ==
    ASSUME NEW c \in Caller, Solo(c), RecomputeGroup(c)
    PROVE  Solo(c)'
<1>1. At(c, "group") /\ calls[c].pc \in Recompute /\ UNCHANGED rows /\ group' = group
  BY DEF RecomputeGroup, At, Recompute, rows, db
<1>2. ~Idle(c)
  BY <1>1, PointIsBusy DEF Recompute, PC
<1>3. calls[c] \in Call /\ calls[c].op \in Lone
  BY <1>2, BusyFields
<1>4. CASE group.status \in Voting
  <2> DEFINE k == [calls[c] EXCEPT !.pc = "members", !.grp = group]
  <2>1. k \in Call /\ k.pc = "members" /\ k.op = calls[c].op /\ k.who = calls[c].who
        /\ k.grp = group
    BY <1>3 DEF Call, PC, Solo, Stored
  <2>2. calls' = [calls EXCEPT ![c] = k]
    BY <1>4 DEF RecomputeGroup, Voting
  <2> HIDE DEF k
  <2>3. Turn(c, k) /\ calls'[c] = k
    BY <2>1, <2>2, Turns DEF Solo, Turn
  <2>4. Recomputing(c)'
    BY <1>1, <1>3, <1>4, <2>1, <2>3 DEF Recomputing, At, Is, Rebuild, Solo, Stored
  <2>5. k.pc \in Recompute
    BY <2>1 DEF Recompute
  <2> QED BY <1>1, <2>1, <2>3, <2>4, <2>5, RecomputesOn
<1>5. CASE group.status \notin Voting
  <2>1. Onward(c)
    BY <1>5 DEF RecomputeGroup, Voting
  <2>2. SignedOff
    BY <1>5 DEF SignedOff
  <2> QED BY <1>1, <2>1, <2>2, SoloOnward
<1> QED BY <1>4, <1>5

\* The admin is a member whenever the status is worked out.
LEMMA TargetSaysWho ==
    ASSUME Standing, group.status \in Voting
    PROVE  (IF Joined # {} /\ \A a \in Joined : row[a].confirmed
            THEN "ready" ELSE "confirming") = "ready" <=> AllConfirmed
<1>1. Admin \in Joined
  BY DEF Standing, Voting, Joined, Address
<1> QED BY <1>1 DEF AllConfirmed

LEMMA RecomputeMembersAlone ==
    ASSUME NEW c \in Caller, Solo(c), RecomputeMembers(c)
    PROVE  Solo(c)'
<1> DEFINE target == IF Joined # {} /\ \A a \in Joined : row[a].confirmed
                     THEN "ready" ELSE "confirming"
<1>1. At(c, "members") /\ calls[c].pc \in Recompute /\ UNCHANGED rows /\ group' = group
  BY DEF RecomputeMembers, At, Recompute, rows, db
<1>2. ~Idle(c)
  BY <1>1, PointIsBusy DEF Recompute, PC
<1>3. calls[c] \in Call /\ calls[c].op \in Lone
  BY <1>2, BusyFields
<1>4. /\ calls[c].grp = group /\ group \in Group /\ group.status \in Voting
      /\ calls[c].op \notin Consenting
  BY <1>1, <1>3 DEF Solo, Point, Recomputing, Stored, Lone, Consenting
<1>5. (target = "ready" <=> AllConfirmed) /\ target \in Voting
  BY <1>4, TargetSaysWho DEF Solo, Voting
<1>6. CASE calls[c].grp.status = target
  <2>1. Onward(c)
    BY <1>6 DEF RecomputeMembers
  <2>2. SignedOff
    BY <1>4, <1>5, <1>6 DEF SignedOff
  <2> QED BY <1>1, <2>1, <2>2, SoloOnward
<1>7. CASE calls[c].grp.status # target
  <2> DEFINE k == [calls[c] EXCEPT !.pc = "status", !.grp.status = target]
  <2>0. calls' = [calls EXCEPT ![c] = k]
    BY <1>7 DEF RecomputeMembers
  <2>8. target \in Status
    BY <1>5 DEF Voting, Status
  <2> HIDE DEF target
  <2>1. k \in Call /\ k.pc = "status" /\ k.op = calls[c].op /\ k.who = calls[c].who
        /\ k.grp \in Group /\ k.grp.status = target
    BY <1>3, <1>4, <2>8 DEF Call, PC, Group
  <2> HIDE DEF k
  <2>3. Turn(c, k) /\ calls'[c] = k
    BY <2>0, <2>1, Turns DEF Solo, Turn
  <2>4. AllConfirmed' = AllConfirmed
    BY <1>1, ReadsFrame
  <2>6. Recomputing(c)'
    BY <1>1, <1>3, <1>4, <1>5, <2>1, <2>3, <2>4 DEF Recomputing, At, Is, Rebuild
  <2>5. k.pc \in Recompute
    BY <2>1 DEF Recompute
  <2> QED BY <1>1, <2>1, <2>3, <2>5, <2>6, RecomputesOn
<1> QED BY <1>6, <1>7

LEMMA RebuildGroupAlone ==
    ASSUME NEW c \in Caller, Solo(c), RebuildGroup(c)
    PROVE  Solo(c)'
<1>1. At(c, "rebuild") /\ UNCHANGED rows /\ group' = group /\ row' = row /\ token' = token
  BY DEF RebuildGroup, rows, db
<1>2. ~Idle(c)
  BY <1>1, PointIsBusy DEF At, PC
<1>3. calls[c] \in Call /\ calls[c].op \in Lone
  BY <1>2, BusyFields
<1> DEFINE k == [calls[c] EXCEPT !.pc = "caches", !.grp = group]
<1>4. k \in Call /\ k.pc = "caches" /\ k.op = calls[c].op /\ k.who = calls[c].who
      /\ k.grp = group
  BY <1>3 DEF Call, PC, Solo, Stored
<1>5. calls' = [calls EXCEPT ![c] = k]
  BY DEF RebuildGroup
<1> HIDE DEF k
<1>6. Turn(c, k) /\ calls'[c] = k
  BY <1>4, <1>5, Turns DEF Solo, Turn
<1>7. calls[c].op \in {"create", "add", "remove", "dissolve"}
  BY <1>1 DEF Solo, Staged, At, Rebuild
<1>8. Staged(c)' /\ Saving(c)' /\ Writing(c)' /\ Answering(c)'
  BY <1>4, <1>6, <1>7 DEF Staged, Saving, Writing, Answering, At, Is, Recompute, Rebuild
<1>9. Editing(c)'
  <2>1. Editing(c) /\ calls[c].pc \in PC /\ calls[c].pc \in Rebuild
    BY <1>1, <1>2, BusyFields DEF Solo, Point, At, Rebuild
  <2> QED BY <1>1, <1>4, <1>6, <1>7, <2>1 DEF Editing, At, Is, Rebuild
<1>10. Recomputing(c)'
  <2>1. Recomputing(c) /\ SignedOff' = SignedOff
    BY <1>1, ReadsFrame DEF Solo, Point
  <2> QED BY <1>1, <1>4, <1>6, <1>7, <2>1 DEF Recomputing, At, Is, Rebuild
<1>11. /\ Dissolving(c) => Dissolving(c)'
       /\ Behind(c) => Behind(c)'
       /\ ~Owing(c)
       /\ Asking(c) <=> Asking(c)'
  BY <1>1, <1>4, <1>6, <1>7 DEF Dissolving, Behind, Owing, Asking, At, Is, Rebuild, Recompute
<1> QED BY <1>1, <1>2, <1>4, <1>6, <1>8, <1>9, <1>10, <1>11, SoloGoes DEF Point

\* A resend goes on to its new invitation.
LEMMA ResendMints ==
    ASSUME NEW c \in Caller, Solo(c), At(c, "find"), calls[c].op = "resend", Go(c, "mint"),
           UNCHANGED rows,
           row[calls[c].who] # None => ~row[calls[c].who].token
    PROVE  Solo(c)'
<1>1. ~Idle(c)
  BY PointIsBusy DEF At, PC
<1>2. "mint" \in PC
  BY DEF PC
<1>3. PICK k \in Call : /\ Turn(c, k) /\ k.pc = "mint" /\ k.op = "resend"
                        /\ k.who = calls[c].who
  BY <1>1, <1>2, Going DEF Solo
<1>4. calls'[c] = k
  BY <1>3 DEF Turn
<1>5. Staged(c)' /\ Saving(c)' /\ Writing(c)'
  BY <1>3, <1>4 DEF Staged, Saving, Writing, At, Is, Recompute, Rebuild
<1>6. Editing(c)' /\ Recomputing(c)' /\ Answering(c)'
  BY <1>3, <1>4 DEF Editing, Recomputing, Answering, At, Is, Rebuild
<1>7. ~Dissolving(c) /\ ~Behind(c) /\ ~Owing(c) /\ ~Asking(c)
  BY DEF Dissolving, Behind, Owing, Asking, At, Is, Rebuild, Recompute
<1> QED BY <1>3, <1>5, <1>6, <1>7, SoloReads DEF Point, Lone

LEMMA FindMemberAlone ==
    ASSUME NEW c \in Caller, Solo(c), FindMember(c)
    PROVE  Solo(c)'
<1> DEFINE r == row[calls[c].who]
           op == calls[c].op
           k == [calls[c] EXCEPT !.pc = IF op = "remove" THEN "delete" ELSE "save",
                                 !.mem = Amended(r, op)]
<1>1. At(c, "find") /\ UNCHANGED rows /\ group' = group /\ row' = row /\ token' = token
  BY DEF FindMember, rows, db
<1>2. ~Idle(c)
  BY <1>1, PointIsBusy DEF At, PC
<1>3. calls[c] \in Call /\ calls[c].op \in Lone /\ calls[c].who \in Address
  BY <1>2, BusyFields, CallFields
<1>4. op \in {"remove", "resend"}
  BY <1>1, <1>3 DEF Solo, Staged, Lone
<1>5. ~Dissolving(c) /\ ~Behind(c) /\ ~Owing(c) /\ ~Asking(c)
  BY <1>1 DEF Dissolving, Behind, Owing, Asking, At, Is, Rebuild, Recompute
<1>6. CASE r = None /\ op = "remove"
  <2>1. End(c)
    BY <1>6 DEF FindMember
  <2> QED BY <1>1, <1>5, <2>1, SoloEnds
<1>7. CASE op = "resend" /\ (r = None \/ (~r.token /\ ~r.confirmed))
  <2>1. Go(c, "mint")
    BY <1>7 DEF FindMember
  <2> QED BY <1>1, <1>7, <2>1, ResendMints
<1>8. CASE r # None /\ (op = "remove" \/ r.token \/ r.confirmed)
  <2>1. calls' = [calls EXCEPT ![c] = k]
    <3>1. op # "confirm"
      BY <1>4
    <3> QED BY <1>4, <1>8, <3>1 DEF FindMember
  <2>2. r \in Row
    BY <1>3, <1>8 DEF Solo, Stored
  <2>3. /\ Amended(r, op) \in Row /\ Amended(r, op).id = r.id
        /\ Amended(r, op).percent = r.percent
        /\ op = "remove" => Amended(r, op) = r
        /\ op = "resend" => ~Amended(r, op).token /\ ~Amended(r, op).confirmed
    <3>1. CASE op = "remove"
      BY <3>1, <2>2 DEF Amended
    <3>2. CASE op = "resend"
      <4>1. Amended(r, op) = [r EXCEPT !.token = FALSE, !.confirmed = FALSE]
        BY <3>2 DEF Amended
      <4> QED BY <3>2, <4>1, <2>2 DEF Row
    <3> QED BY <1>4, <3>1, <3>2
  <2> HIDE DEF r
  <2>4. /\ k \in Call /\ k.op = calls[c].op /\ k.who = calls[c].who
        /\ k.pc = (IF op = "remove" THEN "delete" ELSE "save") /\ k.mem = Amended(r, op)
    BY ZenonT(60), <1>3, <2>3 DEF Call, PC
  <2> HIDE DEF k
  <2>5. Turn(c, k) /\ calls'[c] = k
    BY <2>1, <2>4, Turns DEF Solo, Turn
  <2>6. Staged(c)' /\ Writing(c)' /\ Recomputing(c)' /\ Answering(c)'
    BY <1>4, <2>4, <2>5 DEF Staged, Writing, Recomputing, Answering, At, Is, Recompute, Rebuild
  <2>7. Saving(c)'
    BY <1>1, <1>4, <1>8, <2>3, <2>4, <2>5 DEF Saving, At, Is, Consenting, r
  <2>8. Editing(c)'
    <3>1. op = "remove" => group.status \in Editable /\ calls[c].who \in Member
      BY <1>1 DEF Solo, Point, Editing, At, Is
    <3> QED BY <1>1, <1>4, <1>8, <2>3, <2>4, <2>5, <3>1 DEF Editing, At, Is, Rebuild, r
  <2>9. ~Asking(c)'
    BY <1>4, <2>4, <2>5 DEF Asking, Is, Recompute, Rebuild
  <2> QED BY <1>1, <1>2, <1>5, <2>4, <2>5, <2>6, <2>7, <2>8, <2>9, SoloGoes DEF Point
<1> QED BY <1>4, <1>6, <1>7, <1>8

\* The steps of a resend on its way to the member row.
LEMMA ResendGoes ==
    ASSUME NEW c \in Caller, Solo(c), calls[c].pc \in {"invites", "lapse", "list"},
           NEW k \in Call, Turn(c, k), UNCHANGED rows, k.pc \in {"lapse", "list", "find"},
           k.op = calls[c].op, k.who = calls[c].who,
           k.pc = "lapse" => /\ k.nr \in DOMAIN invite[k.who] /\ k.nr = Len(invite[k.who])
                             /\ invite[k.who][k.nr] \in Open
    PROVE  Solo(c)'
<1>1. ~Idle(c)
  BY PointIsBusy DEF PC
<1>2. calls[c].op = "resend" /\ calls'[c] = k /\ invite' = invite
  BY DEF Solo, Staged, Turn, rows, db
<1>3. Staged(c)' /\ Saving(c)' /\ Writing(c)'
  BY <1>2 DEF Staged, Saving, Writing, At, Is, Recompute, Rebuild
<1>4. Editing(c)' /\ Recomputing(c)'
  BY <1>2 DEF Editing, Recomputing, At, Is, Rebuild
<1>5. Answering(c)'
  BY <1>2 DEF Answering, At, Is
<1>6. ~Dissolving(c) /\ ~Behind(c) /\ ~Owing(c) /\ ~Asking(c) /\ ~Asking(c)'
  BY <1>2 DEF Dissolving, Behind, Owing, Asking, Is, Rebuild, Recompute
<1> QED BY <1>1, <1>3, <1>4, <1>5, <1>6, SoloGoes DEF Point

LEMMA FindInviteAlone ==
    ASSUME NEW c \in Caller, Solo(c), FindInvite(c)
    PROVE  Solo(c)'
<1> DEFINE invites == invite[calls[c].who]
<1>1. At(c, "invites") /\ UNCHANGED rows
  BY DEF FindInvite, rows
<1>2. ~Idle(c)
  BY <1>1, PointIsBusy DEF At, PC
<1>3. calls[c] \in Call /\ calls[c].who \in Address
  BY <1>2, BusyFields, CallFields
<1>4. CASE End(c)
  <2>1. ~Dissolving(c) /\ ~Behind(c) /\ ~Owing(c) /\ ~Asking(c)
    BY <1>1 DEF Dissolving, Behind, Owing, Asking, At, Is, Rebuild, Recompute
  <2> QED BY <1>1, <1>4, <2>1, SoloEnds
<1>5. ASSUME NEW i \in DOMAIN invites, invites[i] = "lapsed",
             calls' = [calls EXCEPT ![c].pc = "lapse", ![c].nr = i]
      PROVE  Solo(c)'
  <2> DEFINE k == [calls[c] EXCEPT !.pc = "lapse", !.nr = i]
  <2>1. i \in Nat /\ i = Len(invites)
    <3>1. invite[calls[c].who][i] \in Open
      BY <1>5 DEF Open
    <3> QED BY <1>3, <3>1, OpenIsLast DEF Solo
  <2>2. /\ k \in Call /\ k.pc = "lapse" /\ k.nr = i /\ k.op = calls[c].op
        /\ k.who = calls[c].who
    BY <1>3, <2>1 DEF Call, PC
  <2>3. calls' = [calls EXCEPT ![c] = k]
    BY <1>5
  <2> HIDE DEF k
  <2>4. Turn(c, k)
    BY <2>2, <2>3, Turns DEF Solo
  <2> QED BY <1>1, <1>5, <2>1, <2>2, <2>4, ResendGoes DEF At, Open
<1>6. ASSUME Go(c, "list") PROVE Solo(c)'
  <2>1. "list" \in PC
    BY DEF PC
  <2>2. PICK k \in Call : Turn(c, k) /\ k.pc = "list" /\ k.op = calls[c].op /\ k.who = calls[c].who
    BY <1>2, <1>6, <2>1, Going DEF Solo
  <2> QED BY <1>1, <2>2, ResendGoes DEF At
<1> QED BY <1>4, <1>5, <1>6 DEF FindInvite

LEMMA ListMembersAlone ==
    ASSUME NEW c \in Caller, Solo(c), ListMembers(c)
    PROVE  Solo(c)'
<1>1. At(c, "list") /\ UNCHANGED rows
  BY DEF ListMembers, rows
<1>2. ~Idle(c)
  BY <1>1, PointIsBusy DEF At, PC
<1>3. CASE End(c)
  <2>1. ~Dissolving(c) /\ ~Behind(c) /\ ~Owing(c) /\ ~Asking(c)
    BY <1>1 DEF Dissolving, Behind, Owing, Asking, At, Is, Rebuild, Recompute
  <2> QED BY <1>1, <1>3, <2>1, SoloEnds
<1>4. CASE Go(c, "find")
  <2>1. "find" \in PC
    BY DEF PC
  <2>2. PICK k \in Call : Turn(c, k) /\ k.pc = "find" /\ k.op = calls[c].op /\ k.who = calls[c].who
    BY <1>2, <1>4, <2>1, Going DEF Solo
  <2> QED BY <1>1, <2>2, ResendGoes DEF At
<1> QED BY <1>3, <1>4 DEF ListMembers

LEMMA SumCheckAlone ==
    ASSUME NEW c \in Caller, Solo(c), SumCheck(c)
    PROVE  Solo(c)'
<1>1. At(c, "sum") /\ UNCHANGED rows /\ group' = group
  BY DEF SumCheck, rows, db
<1>2. ~Idle(c)
  BY <1>1, PointIsBusy DEF At, PC
<1>3. ~Dissolving(c) /\ ~Behind(c) /\ ~Owing(c) /\ ~Asking(c)
  BY <1>1 DEF Dissolving, Behind, Owing, Asking, At, Is, Rebuild, Recompute
<1>4. CASE End(c)
  BY <1>1, <1>3, <1>4, SoloEnds
<1>5. CASE Go(c, "promote") /\ calls[c].grp.status = "draft"
  <2>1. "promote" \in PC
    BY DEF PC
  <2>2. PICK k \in Call : /\ Turn(c, k) /\ k.pc = "promote" /\ k.op = calls[c].op
                          /\ k.who = calls[c].who /\ k.grp = calls[c].grp
    BY <1>2, <1>5, <2>1, Going DEF Solo
  <2>3. k.op = "transition" /\ calls'[c] = k /\ calls[c].grp = group /\ token'
    BY <1>1, <2>2 DEF Solo, Staged, Turn, Point, Recomputing, rows
  <2>4. Staged(c)' /\ Saving(c)' /\ Writing(c)' /\ Answering(c)'
    BY <2>2, <2>3 DEF Staged, Saving, Writing, Answering, At, Is, Recompute, Rebuild
  <2>5. Editing(c)' /\ Recomputing(c)'
    BY <1>1, <1>5, <2>2, <2>3 DEF Editing, Recomputing, At, Is, Rebuild
  <2>6. ~Asking(c)'
    BY <2>2, <2>3 DEF Asking, Is
  <2> QED BY <1>1, <1>2, <1>3, <2>2, <2>4, <2>5, <2>6, SoloGoes DEF Point
<1> QED BY <1>4, <1>5 DEF SumCheck

-------------------------------------------------------------------------------
(* Steps of the only handler that write. *)

\* Nobody else comes in between.
LEMMA StaysAlone ==
    ASSUME NEW c \in Caller, Solo(c), NEW k, Turn(c, k)
    PROVE  /\ calls' \in [Caller -> {NoCall} \cup Call] /\ calls'[c] = k /\ Alone(c)'
BY DEF Solo, Turn, Alone, Idle

\* Before the first share there is no coinbase of an active party.
LEMMA PayBefore ==
    ASSUME PayInv, UNCHANGED mine, group.status \notin {"active", "dissolved"}
    PROVE  PayInv'
<1>1. job' = job /\ booked' = booked
  BY DEF mine
<1>2. (job # None => job.live # "active") /\ (booked # None => booked.live # "active")
  BY DEF PayInv
<1> QED BY <1>1, <1>2 DEF PayInv

\* A step that keeps who is a member, and their parts.
LEMMA PaySame ==
    ASSUME PayInv, UNCHANGED mine, group' = group, Splits' = Splits
    PROVE  PayInv'
BY DEF PayInv, mine

LEMMA CreateGroupKeeps ==
    ASSUME IInv, Overlap = FALSE, NEW c \in Caller, CreateGroup(c)
    PROVE  Solo(c)'
<1>0. PICK p \in Percent[Admin] :
          Begin(c, [New("create", "admin") EXCEPT !.splits = [x \in {Admin} |-> p]])
  BY DEF CreateGroup
<1> DEFINE k == [New("create", "admin") EXCEPT !.splits = [x \in {Admin} |-> p]]
<1>1. Admin \in Address /\ p \in 1..Total
  BY PartyAssumption DEF Address
<1>2. k \in Call /\ k.pc = "admin" /\ k.op = "create" /\ Admin \in DOMAIN k.splits
  <2>1. New("create", "admin") \in Call /\ New("create", "admin").op = "create"
        /\ New("create", "admin").pc = "admin"
    BY NewCall DEF Op, PC
  <2>2. [x \in {Admin} |-> p] \in [{Admin} -> 1..Total] /\ {Admin} \in SUBSET Address
    BY <1>1
  <2> QED BY <2>1, <2>2 DEF Call
<1>3. Begin(c, k)
  BY <1>0
<1> HIDE DEF k
<1>4. Solo(c) /\ Idle(c) /\ Turn(c, k) /\ past' = past
  BY <1>2, <1>3, BeginsAlone DEF Lone
<1>5. /\ group.status = "none" /\ group' = [status |-> "draft", recent |-> FALSE]
      /\ row' = row /\ invite' = invite /\ adds' = adds /\ token' = token
      /\ route' = route /\ known' = known /\ UNCHANGED mine
  BY DEF CreateGroup, cache
<1>6. ~token
  BY <1>5 DEF IInv, Standing
<1>7. calls' \in [Caller -> {NoCall} \cup Call] /\ calls'[c] = k /\ Alone(c)'
  BY <1>4, StaysAlone
<1>8. Stored'
  BY <1>4, <1>5 DEF IInv, Stored, Group, Status
<1>9. Standing'
  <2>1. route \notin Routable
    BY <1>5 DEF IInv, Standing, Routable
  <2> QED BY <1>5, <1>6, <2>1 DEF Standing, Routable
<1>10. Invites'
  BY <1>5 DEF IInv, Invites
<1>11. PayInv'
  BY <1>5, PayBefore DEF IInv
<1>12. Staged(c)' /\ Saving(c)' /\ Writing(c)' /\ Answering(c)'
  BY <1>2, <1>7 DEF Staged, Saving, Writing, Answering, At, Is, Recompute, Rebuild
<1>13. Editing(c)' /\ Recomputing(c)'
  BY <1>2, <1>5, <1>6, <1>7 DEF Editing, Recomputing, At, Is, Rebuild
<1>14. Kept(c)'
  BY <1>5, <1>6 DEF Kept
<1>15. Consented(c)'
  BY <1>5 DEF Consented, SignedOff, Voting
<1>16. Following(c)'
  <2>1. ~Asking(c) /\ ~Asking(c)'
    BY <1>2, <1>4, <1>7, IdleIsNowhere DEF Asking, Is, Recompute, Rebuild
  <2>2. Joined' = Joined /\ \A a \in Address : Accepted(a)' = Accepted(a)
    BY <1>5 DEF Joined, Accepted
  <2>3. past = "clean" => \A a \in Joined \ {Admin} : row[a].token <=> Accepted(a)
    BY <1>4, <2>1 DEF Solo, Following
  <2>4. \A a \in Joined : a \in Address
    BY DEF Joined
  <2> QED BY <1>4, <1>5, <2>1, <2>2, <2>3, <2>4 DEF Following
<1> QED BY <1>2, <1>7, <1>8, <1>9, <1>10, <1>11, <1>12, <1>13, <1>14, <1>15, <1>16
        DEF Solo, Point, Lone

LEMMA CreateAdminAlone ==
    ASSUME NEW c \in Caller, Solo(c), CreateAdmin(c)
    PROVE  Solo(c)'
<1> DEFINE r == [id |-> 1, percent |-> calls[c].splits[Admin], confirmed |-> TRUE,
                 token |-> FALSE]
<1>1. At(c, "admin") /\ ~Idle(c)
  BY PointIsBusy DEF CreateAdmin, At, PC
<1>2. calls[c] \in Call /\ calls[c].op = "create" /\ calls[c].pc \in PC
  BY <1>1, BusyFields DEF Solo, Staged
<1>3. ~token /\ group.status = "draft" /\ Admin \in DOMAIN calls[c].splits
  BY <1>1, <1>2 DEF Solo, Point, Editing, Is
<1>4. "rebuild" \in PC /\ Admin \in Address
  BY DEF PC, Address
<1>5. PICK k \in Call : Turn(c, k) /\ k.pc = "rebuild" /\ k.op = "create"
  BY <1>1, <1>2, <1>4, Forgetting DEF CreateAdmin, Solo
<1>6. calls' \in [Caller -> {NoCall} \cup Call] /\ calls'[c] = k /\ Alone(c)'
  BY <1>5, StaysAlone
<1>7. /\ row' = [row EXCEPT ![Admin] = r] /\ adds' = [adds EXCEPT ![Admin] = 1]
      /\ group' = group /\ invite' = invite /\ token' = token /\ route' = route
      /\ known' = known /\ UNCHANGED mine /\ past' = past
  BY DEF CreateAdmin, cache
<1>8. r \in Row
  <2>1. calls[c].splits[Admin] \in 1..Total
    BY <1>2, <1>3, CallFields
  <2> QED BY <2>1, PartyAssumption DEF Row
<1> HIDE DEF r
<1>9. Stored'
  <2>1. 1 \in 0..MaxRows
    BY PartyAssumption
  <2> QED BY <1>7, <1>8, <2>1 DEF Solo, Stored
<1>10. row'[Admin] # None /\ \A a \in Address \ {Admin} : row'[a] = row[a]
  BY <1>4, <1>7, <1>8, NoneAssumption DEF Solo, Stored
<1>11. Standing' /\ Invites'
  BY <1>3, <1>7 DEF Solo, Standing, Invites
<1>12. PayInv'
  BY <1>3, <1>7, PayBefore DEF Solo
<1>13. Staged(c)' /\ Saving(c)' /\ Writing(c)' /\ Answering(c)'
  BY <1>5, <1>6 DEF Staged, Saving, Writing, Answering, At, Is, Recompute, Rebuild
<1>14. Editing(c)'
  BY <1>3, <1>5, <1>6, <1>7, <1>10 DEF Editing, At, Is, Rebuild
<1>15. SignedOff'
  BY <1>3, <1>7 DEF SignedOff, Voting
<1>16. Recomputing(c)'
  BY <1>5, <1>6, <1>15 DEF Recomputing, At, Is, Rebuild
<1>17. Kept(c)' /\ Consented(c)'
  BY <1>3, <1>7, <1>15 DEF Kept, Consented
<1>18. Following(c)'
  <2>1. ~Asking(c) /\ ~Asking(c)'
    BY <1>2, <1>5, <1>6 DEF Asking, Is, Recompute, Rebuild
  <2>2. past = "clean" => \A a \in Joined \ {Admin} : row[a].token <=> Accepted(a)
    BY <2>1 DEF Solo, Following
  <2>3. \A a \in Joined' \ {Admin} : a \in Joined \ {Admin} /\ row'[a] = row[a]
                                     /\ Accepted(a)' = Accepted(a)
    BY <1>7, <1>10 DEF Joined, Accepted
  <2> QED BY <1>7, <2>1, <2>2, <2>3 DEF Following
<1> QED BY <1>5, <1>6, <1>9, <1>11, <1>12, <1>13, <1>14, <1>16, <1>17, <1>18
        DEF Solo, Point, Lone

LEMMA InsertAlone ==
    ASSUME NEW c \in Caller, Solo(c), Insert(c)
    PROVE  Solo(c)'
<1> DEFINE a == calls[c].who
           r == [id |-> adds[a] + 1, percent |-> calls[c].splits[a], confirmed |-> FALSE,
                 token |-> FALSE]
<1>1. At(c, "insert") /\ ~Idle(c)
  BY PointIsBusy DEF Insert, At, PC
<1>2. calls[c] \in Call /\ calls[c].op = "add" /\ calls[c].pc \in PC /\ a \in Address
  BY <1>1, BusyFields, CallFields DEF Solo, Staged
<1>3. /\ calls[c].grp = group /\ group.status \in Editable /\ token
      /\ a \in Member /\ a \in DOMAIN calls[c].splits /\ adds[a] < MaxRows
  BY <1>1 DEF Solo, Point, Editing
<1>4. CASE row[a] # None
  <2>1. End(c) /\ UNCHANGED rows
    BY <1>4 DEF Insert, rows, db
  <2>2. ~Dissolving(c) /\ ~Behind(c) /\ ~Owing(c) /\ ~Asking(c)
    BY <1>1 DEF Dissolving, Behind, Owing, Asking, At, Is, Rebuild, Recompute
  <2> QED BY <2>1, <2>2, SoloEnds
<1>5. CASE row[a] = None
  <2>1. /\ row' = [row EXCEPT ![a] = r] /\ adds' = [adds EXCEPT ![a] = @ + 1]
        /\ group' = group /\ invite' = invite /\ token' = token /\ route' = route
        /\ known' = known /\ UNCHANGED mine /\ past' = past
        /\ IF calls[c].grp.status = "draft" THEN Go(c, "promote") ELSE Forget(c, "group")
    BY <1>5 DEF Insert, cache
  <2>2. r \in Row
    <3>1. calls[c].splits[a] \in 1..Total
      BY <1>2, <1>3, CallFields
    <3>2. adds[a] + 1 \in 1..MaxRows
      BY <1>2, <1>3, PartyAssumption DEF Solo, Stored
    <3> QED BY <3>1, <3>2 DEF Row
  <2>3. PICK k \in Call : /\ Turn(c, k) /\ k.op = "add" /\ k.who = a
                          /\ \/ k.pc = "promote" /\ k.grp = group /\ group.status = "draft"
                             \/ k.pc = "group"
    <3>1. {"promote", "group"} \subseteq PC
      BY DEF PC
    <3>2. CASE Go(c, "promote") /\ group.status = "draft"
      BY <1>1, <1>2, <1>3, <3>1, <3>2, Going DEF Solo
    <3>3. CASE Forget(c, "group")
      BY <1>1, <1>2, <3>1, <3>3, Forgetting DEF Solo
    <3> QED BY <1>3, <2>1, <3>2, <3>3
  <2>4. calls' \in [Caller -> {NoCall} \cup Call] /\ calls'[c] = k /\ Alone(c)'
    BY <2>3, StaysAlone
  <2> HIDE DEF r
  <2>5. Stored'
    <3>1. adds[a] + 1 \in 0..MaxRows
      BY <1>2, <1>3, PartyAssumption DEF Solo, Stored
    <3> QED BY <1>2, <2>1, <2>2, <3>1 DEF Solo, Stored
  <2>6. row'[a] = r /\ \A b \in Address : b # a => row'[b] = row[b]
    BY <1>2, <2>1 DEF Solo, Stored
  <2>7. Standing' /\ Invites'
    <3>1. a # Admin /\ Admin \in Address
      BY <1>3, PartyAssumption DEF Address
    <3> QED BY <2>1, <2>6, <3>1 DEF Solo, Standing, Invites
  <2>8. PayInv'
    BY <1>3, <2>1, PayBefore DEF Solo, Editable
  <2>9. Staged(c)' /\ Saving(c)' /\ Writing(c)' /\ Answering(c)'
    BY <2>3, <2>4 DEF Staged, Saving, Writing, Answering, At, Is, Recompute, Rebuild
  <2>10. Editing(c)' /\ Recomputing(c)'
    BY <1>3, <2>1, <2>3, <2>4 DEF Editing, Recomputing, At, Is, Rebuild
  <2>11. ~Dissolving(c) /\ Behind(c)' /\ Owing(c)' /\ ~Asking(c) /\ Asking(c)'
    BY <1>1, <2>3, <2>4 DEF Dissolving, Behind, Owing, Asking, At, Is, Rebuild, Recompute
  <2>12. Kept(c)'
    BY <2>1, <2>11 DEF Solo, Kept, RouteKept
  <2>13. Consented(c)'
    BY <2>11 DEF Consented
  <2>14. Following(c)'
    <3>1. r.token = FALSE
      BY DEF r
    <3>2. past = "clean" => \A b \in Joined \ {Admin} : row[b].token <=> Accepted(b)
      BY <2>11 DEF Solo, Following
    <3>3. \A b \in Joined' \ {Admin} : b # a =>
              b \in Joined /\ row'[b] = row[b] /\ Accepted(b)' = Accepted(b)
      BY <2>1, <2>6 DEF Joined, Accepted
    <3> QED BY <2>1, <2>3, <2>4, <2>6, <2>11, <3>1, <3>2, <3>3 DEF Following
  <2> QED BY <2>3, <2>4, <2>5, <2>7, <2>8, <2>9, <2>10, <2>12, <2>13, <2>14
          DEF Solo, Point, Lone
<1> QED BY <1>4, <1>5

LEMMA PromoteAlone ==
    ASSUME NEW c \in Caller, Solo(c), Promote(c)
    PROVE  Solo(c)'
<1>1. At(c, "promote") /\ ~Idle(c)
  BY PointIsBusy DEF Promote, At, PC
<1>2. calls[c] \in Call /\ calls[c].op \in {"add", "transition"}
  BY <1>1, BusyFields DEF Solo, Staged
<1>3. calls[c].grp = group /\ group.status = "draft" /\ token /\ group \in Group
  BY <1>1 DEF Solo, Point, Recomputing, Stored
<1>4. "group" \in PC
  BY DEF PC
<1>5. PICK k \in Call : /\ Turn(c, k) /\ k.pc = "group" /\ k.op = calls[c].op
                        /\ k.who = calls[c].who
  BY <1>1, <1>4, Forgetting DEF Promote, Solo
<1>6. calls' \in [Caller -> {NoCall} \cup Call] /\ calls'[c] = k /\ Alone(c)'
  BY <1>5, StaysAlone
<1>7. /\ group' = [group EXCEPT !.status = "confirming"]
      /\ row' = row /\ adds' = adds /\ invite' = invite /\ token' = token /\ route' = route
      /\ known' = known /\ UNCHANGED mine /\ past' = past
  BY <1>3 DEF Promote, cache
<1>8. group' \in Group /\ group'.status = "confirming"
  BY <1>3, <1>7 DEF Group, Status
<1>9. Stored' /\ Invites'
  BY <1>7, <1>8 DEF Solo, Stored, Invites
<1>10. Standing'
  <2>1. route \notin Routable
    BY <1>3 DEF Solo, Standing, Routable
  <2> QED BY <1>3, <1>7, <1>8, <2>1 DEF Solo, Standing, Routable
<1>11. PayInv'
  BY <1>3, <1>7, PayBefore DEF Solo
<1>12. Staged(c)' /\ Saving(c)' /\ Writing(c)' /\ Answering(c)'
  BY <1>2, <1>5, <1>6 DEF Staged, Saving, Writing, Answering, At, Is, Recompute, Rebuild
<1>13. Editing(c)' /\ Recomputing(c)'
  BY <1>2, <1>5, <1>6 DEF Editing, Recomputing, At, Is, Rebuild
<1>14. /\ ~Dissolving(c) /\ (Behind(c) => Behind(c)') /\ Owing(c)'
       /\ (Asking(c) <=> Asking(c)')
  BY <1>1, <1>2, <1>5, <1>6
     DEF Dissolving, Behind, Owing, Asking, At, Is, Rebuild, Recompute
<1>15. Kept(c)'
  <2>1. Joined' = Joined
    BY <1>7 DEF Joined
  <2>2. past # "failed" => RouteKept /\ (Behind(c) \/ KnownKept)
    BY <1>3, <1>14 DEF Solo, Kept
  <2> QED BY <1>3, <1>7, <1>8, <1>14, <2>1, <2>2 DEF Kept, RouteKept, KnownKept
<1>16. Consented(c)'
  BY <1>14 DEF Consented
<1>17. Following(c)'
  <2>1. Joined' = Joined /\ \A a \in Address : Accepted(a)' = Accepted(a)
    BY <1>7 DEF Joined, Accepted
  <2>2. \A a \in Joined : a \in Address
    BY DEF Joined
  <2>3. calls'[c].who = calls[c].who
    BY <1>5, <1>6
  <2> QED BY <1>7, <1>14, <2>1, <2>2, <2>3 DEF Solo, Following
<1> QED BY <1>2, <1>5, <1>6, <1>9, <1>10, <1>11, <1>12, <1>13, <1>15, <1>16, <1>17
        DEF Solo, Point, Lone

\* The facts about rows and invitations when neither changes.
LEMMA FollowingFrame ==
    ASSUME NEW c \in Caller, Following(c), row' = row, invite' = invite,
           past' = "clean" => past = "clean",
           Asking(c)' => Asking(c), Asking(c) => Asking(c)' /\ calls'[c].who = calls[c].who
    PROVE  Following(c)'
<1>1. Joined' = Joined /\ \A a \in Joined : Accepted(a)' = Accepted(a)
  BY DEF Joined, Accepted
<1> QED BY <1>1 DEF Following

LEMMA RecomputeSaveAlone ==
    ASSUME NEW c \in Caller, Solo(c), calls[c].op \in Lone, RecomputeSave(c)
    PROVE  Solo(c)'
<1>1. At(c, "status") /\ ~Idle(c) /\ calls[c].pc \in Recompute
  BY PointIsBusy DEF RecomputeSave, At, PC, Recompute
<1>2. calls[c] \in Call /\ calls[c].op \in {"add", "remove", "splits", "resend", "transition"}
  BY <1>1, BusyFields DEF Solo, Staged, Lone
<1>3. /\ calls[c].grp \in Group /\ group.status \in Voting /\ calls[c].grp.status \in Voting
      /\ calls[c].grp.status = "ready" <=> AllConfirmed
  BY <1>1, <1>2 DEF Solo, Point, Recomputing, Consenting
<1>4. /\ group' = calls[c].grp /\ route' = calls[c].grp.status
      /\ row' = row /\ adds' = adds /\ invite' = invite /\ token' = token
      /\ known' = known /\ UNCHANGED mine /\ past' = past /\ Onward(c)
  BY DEF RecomputeSave
<1>5. group'.status \in Voting /\ group'.status \in Status /\ group'.status # "dissolved"
  BY <1>3, <1>4 DEF Voting, Status
<1>6. Stored' /\ Invites'
  BY <1>3, <1>4, <1>5 DEF Solo, Stored, Invites
<1>7. Standing'
  <2>1. token
    BY <1>3 DEF Solo, Standing, Voting
  <2> QED BY <1>4, <1>5, <2>1 DEF Solo, Standing, Voting
<1>8. PayInv'
  BY <1>3, <1>4, PayBefore DEF Solo, Voting
<1>9. Joined' = Joined /\ AllConfirmed' = AllConfirmed
  BY <1>4 DEF Joined, AllConfirmed
<1>10. SignedOff'
  BY <1>3, <1>4, <1>9 DEF SignedOff
<1>11. RouteKept' /\ (KnownKept => KnownKept')
  <2>1. route' # None
    BY <1>4, <1>5, NoneAssumption
  <2>2. group.status # "dissolved"
    BY <1>3 DEF Voting
  <2> QED BY <1>4, <1>5, <1>9, <2>1, <2>2 DEF RouteKept, KnownKept
<1>12. Consented(c)'
  BY <1>10 DEF Consented
<1>13. ASSUME Behind(c) => Behind(c)' PROVE Kept(c)'
  <2>1. past # "failed" /\ token => (Behind(c) \/ KnownKept)
    BY DEF Solo, Kept
  <2> QED BY <1>4, <1>11, <1>13, <2>1 DEF Kept
<1>14. ASSUME NEW k \in Call, Turn(c, k), k.op = calls[c].op, k.who = calls[c].who,
              \/ k.op \in {"add", "remove"} /\ k.pc = "rebuild"
              \/ k.op = "resend" /\ k.pc = "mint"
       PROVE  Solo(c)'
  <2>1. calls' \in [Caller -> {NoCall} \cup Call] /\ calls'[c] = k /\ Alone(c)'
    BY <1>14, StaysAlone
  <2>2. Staged(c)' /\ Saving(c)' /\ Writing(c)' /\ Answering(c)'
    BY <1>14, <2>1 DEF Staged, Saving, Writing, Answering, At, Is, Recompute, Rebuild
  <2>3. Editing(c)' /\ Recomputing(c)'
    BY <1>10, <1>14, <2>1 DEF Editing, Recomputing, At, Is, Rebuild
  <2>4. (Behind(c) => Behind(c)') /\ (Asking(c) <=> Asking(c)')
    BY <1>1, <1>14, <2>1 DEF Behind, Asking, At, Is, Rebuild, Recompute
  <2>5. Following(c)'
    BY <1>4, <1>14, <2>1, <2>4, FollowingFrame DEF Solo
  <2> QED BY <1>6, <1>7, <1>8, <1>12, <1>13, <1>14, <2>1, <2>2, <2>3, <2>4, <2>5
          DEF Solo, Point, Lone
<1>15. ASSUME calls[c].op \notin {"add", "remove", "accept", "resend"}, End(c)
       PROVE  Solo(c)'
  <2>1. Turn(c, NoCall) /\ Idle(c)'
    BY <1>15, Ending DEF Solo
  <2>2. calls' \in [Caller -> {NoCall} \cup Call] /\ Alone(c)'
    BY <2>1, StaysAlone
  <2>3. ~Behind(c) /\ ~Asking(c)
    BY <1>2, <1>15 DEF Behind, Asking, Is
  <2>4. Staged(c)' /\ Point(c)' /\ ~Asking(c)'
    BY <2>1, IdleIsNowhereNext
  <2>5. Following(c)'
    BY <1>4, <2>3, <2>4, FollowingFrame DEF Solo
  <2> QED BY <1>6, <1>7, <1>8, <1>12, <1>13, <2>1, <2>2, <2>3, <2>4, <2>5 DEF Solo
<1>16. calls[c].op # "accept" /\ calls \in [Caller -> {NoCall} \cup Call]
  BY <1>2 DEF Solo
<1>17. ASSUME NEW k \in Call, Turn(c, k), k.pc = "rebuild", k.op = calls[c].op,
              k.who = calls[c].who, calls[c].op \in {"add", "remove"}
       PROVE  Solo(c)'
  BY <1>14, <1>17
<1>18. ASSUME NEW k \in Call, Turn(c, k), k.pc = "mint", k.op = calls[c].op,
              k.who = calls[c].who, calls[c].op = "resend"
       PROVE  Solo(c)'
  BY <1>14, <1>18
<1> QED BY <1>1, <1>4, <1>15, <1>16, <1>17, <1>18, OnwardTurn

LEMMA RebuildCachesAlone ==
    ASSUME NEW c \in Caller, Solo(c), RebuildCaches(c)
    PROVE  Solo(c)'
<1>1. At(c, "caches") /\ ~Idle(c)
  BY PointIsBusy DEF RebuildCaches, At, PC
<1>2. calls[c] \in Call /\ calls[c].op \in {"create", "add", "remove", "dissolve"}
      /\ calls[c].pc \in PC
  BY <1>1, BusyFields DEF Solo, Staged, Rebuild, At
<1>3. calls[c].grp = group /\ SignedOff
  BY <1>1 DEF Solo, Point, Recomputing, Rebuild, At
<1>4. calls[c].op = "create" => group.status = "draft" /\ row[Admin] # None
  BY <1>1, <1>2 DEF Solo, Point, Editing, Is, Rebuild, At
<1>5. /\ group' = group /\ row' = row /\ adds' = adds /\ invite' = invite
      /\ UNCHANGED mine /\ Caches(group.status)
      /\ token' = (token \/ calls[c].op = "create")
      /\ past' = IF past = "failed" THEN "repaired" ELSE past
  BY <1>3 DEF RebuildCaches, db
<1>6. PICK k \in {NoCall} \cup Call :
          /\ Turn(c, k)
          /\ \/ k = NoCall /\ calls[c].op # "add" /\ Idle(c)'
             \/ /\ k \in Call /\ k.pc = "mint" /\ k.op = "add" /\ k.who = calls[c].who
                /\ calls[c].op = "add"
  <2>1. "mint" \in PC
    BY DEF PC
  <2>2. CASE calls[c].op = "add"
    <3>1. Forget(c, "mint")
      BY <2>2 DEF RebuildCaches
    <3> QED BY <1>1, <2>1, <2>2, <3>1, Forgetting DEF Solo
  <2>3. CASE calls[c].op # "add"
    <3>1. End(c)
      BY <2>3 DEF RebuildCaches
    <3> QED BY <2>3, <3>1, Ending DEF Solo
  <2> QED BY <2>2, <2>3
<1>7. calls' \in [Caller -> {NoCall} \cup Call] /\ calls'[c] = k /\ Alone(c)'
  BY <1>6, StaysAlone
<1>8. Joined' = Joined /\ AllConfirmed' = AllConfirmed
  BY <1>5 DEF Joined, AllConfirmed
<1>9. Stored' /\ Invites'
  <2>1. Joined \subseteq Address
    BY DEF Joined
  <2>2. route' \in Status \cup {None} /\ known' \subseteq Address
    BY <1>5, <2>1 DEF Caches, Solo, Stored, Group
  <2>3. token' \in BOOLEAN /\ past' \in {"clean", "failed", "repaired"}
    BY <1>5 DEF Solo, Stored
  <2> QED BY <1>5, <2>2, <2>3 DEF Solo, Stored, Invites
<1>10. token' => row[Admin] # None /\ group.status # "none"
  BY <1>4, <1>5 DEF Solo, Standing
<1>11. Standing'
  <2>1. (group.status \notin {"none", "draft"})' => token'
    BY <1>5 DEF Solo, Standing
  <2>2. None \notin Routable
    BY NoneAssumption DEF Routable, Status
  <2>3. (route \in Routable \/ group.status \in Routable
             => (route = group.status \/ group.status = "dissolved"))'
    BY <1>5, <2>2 DEF Caches, Routable
  <2> QED BY <1>5, <1>10, <2>1, <2>3 DEF Standing
<1>12. PayInv'
  <2>1. Splits' = Splits
    BY <1>5, <1>8 DEF Splits
  <2> QED BY <1>5, <2>1, PaySame DEF Solo
<1>13. SignedOff'
  BY <1>3, <1>5, <1>8 DEF SignedOff
<1>14. Staged(c)' /\ Point(c)'
  <2>1. CASE Idle(c)'
    BY <2>1, IdleIsNowhereNext
  <2>2. CASE k.pc = "mint" /\ k.op = "add"
    <3>1. Staged(c)' /\ Saving(c)' /\ Writing(c)' /\ Answering(c)'
      BY <1>7, <2>2 DEF Staged, Saving, Writing, Answering, At, Is, Recompute, Rebuild
    <3>2. Editing(c)' /\ Recomputing(c)'
      BY <1>7, <2>2 DEF Editing, Recomputing, At, Is, Rebuild
    <3> QED BY <3>1, <3>2 DEF Point
  <2> QED BY <1>6, <2>1, <2>2
<1>15. Kept(c)'
  <2> SUFFICES ASSUME token' PROVE RouteKept' /\ KnownKept'
    BY DEF Kept
  <2>1. group.status # "none" /\ group.status \in Status
    BY <1>10 DEF Solo, Stored, Group
  <2>2. CASE group.status = "dissolved"
    BY <1>5, <2>2 DEF Caches, RouteKept, KnownKept
  <2>3. CASE group.status # "dissolved"
    <3>1. route' = group.status /\ known' = Joined
      BY <1>5, <2>1, <2>3 DEF Caches
    <3> QED BY <1>5, <1>8, <2>1, <2>3, <3>1, NoneAssumption DEF RouteKept, KnownKept
  <2> QED BY <2>2, <2>3
<1>16. Consented(c)'
  BY <1>13 DEF Consented
<1>17. Following(c)'
  <2>1. past' = "clean" => past = "clean"
    BY <1>5
  <2>2. Asking(c) <=> calls[c].op = "add"
    BY <1>1, <1>2 DEF Asking, Is, At, Rebuild, Recompute
  <2>3. Asking(c)' => Asking(c)
    BY <1>6, <1>7, <2>2, IdleIsNowhereNext
  <2>4. Asking(c) => Asking(c)' /\ calls'[c].who = calls[c].who
    BY <1>6, <1>7, <2>2 DEF Asking, Is
  <2> QED BY <1>5, <2>1, <2>3, <2>4, FollowingFrame DEF Solo
<1>18. ~Idle(c)' => calls'[c].op \in Lone
  BY <1>6, <1>7 DEF Lone
<1> QED BY <1>7, <1>9, <1>11, <1>12, <1>14, <1>15, <1>16, <1>17, <1>18 DEF Solo

\* What follows a write of member rows: the status is worked out again.
LEMMA ToGroup ==
    ASSUME NEW c \in Caller, Solo(c), ~Idle(c), Forget(c, "group"),
           calls[c].op \in {"remove", "splits", "resend"}
    PROVE  /\ calls' \in [Caller -> {NoCall} \cup Call] /\ Alone(c)'
           /\ calls'[c].op = calls[c].op /\ calls'[c].who = calls[c].who
           /\ Staged(c)' /\ Point(c)' /\ Owing(c)' /\ ~Dissolving(c)'
           /\ (Behind(c)' <=> calls[c].op = "remove")
           /\ (Asking(c)' <=> calls[c].op = "resend")
<1>1. "group" \in PC
  BY DEF PC
<1>2. PICK k \in Call : /\ Turn(c, k) /\ k.pc = "group" /\ k.op = calls[c].op
                        /\ k.who = calls[c].who
  BY <1>1, Forgetting DEF Solo
<1>3. calls' \in [Caller -> {NoCall} \cup Call] /\ calls'[c] = k /\ Alone(c)'
  BY <1>2, StaysAlone
<1>4. Staged(c)' /\ Saving(c)' /\ Writing(c)' /\ Answering(c)'
  BY <1>2, <1>3 DEF Staged, Saving, Writing, Answering, At, Is, Recompute, Rebuild
<1>5. Editing(c)' /\ Recomputing(c)'
  BY <1>2, <1>3 DEF Editing, Recomputing, At, Is, Rebuild
<1>6. /\ Owing(c)' /\ ~Dissolving(c)' /\ (Behind(c)' <=> calls[c].op = "remove")
      /\ (Asking(c)' <=> calls[c].op = "resend")
  BY <1>2, <1>3 DEF Owing, Dissolving, Behind, Asking, Is, Recompute, Rebuild
<1> QED BY <1>2, <1>3, <1>4, <1>5, <1>6 DEF Point

LEMMA EditAlone ==
    ASSUME NEW c \in Caller, Solo(c), Edit(c)
    PROVE  Solo(c)'
<1> DEFINE new == calls[c].splits
           put(a) == [row[a] EXCEPT !.percent = IF a \in DOMAIN new THEN new[a] ELSE @,
                                    !.confirmed = (a = Admin)]
<1>1. At(c, "edit") /\ ~Idle(c)
  BY PointIsBusy DEF Edit, At, PC
<1>2. calls[c] \in Call /\ calls[c].op = "splits"
  BY <1>1, BusyFields DEF Solo, Staged
<1>3. group.status \in Editable
  BY <1>1 DEF Solo, Point, Editing
<1>4. ~Dissolving(c) /\ ~Behind(c) /\ ~Owing(c) /\ ~Asking(c)
  BY <1>1 DEF Dissolving, Behind, Owing, Asking, At, Is, Rebuild, Recompute
<1>5. CASE ~(DOMAIN new \subseteq Joined)
  <2>1. End(c) /\ UNCHANGED rows
    BY <1>5 DEF Edit, rows, db
  <2> QED BY <1>4, <2>1, SoloEnds
<1>6. CASE DOMAIN new \subseteq Joined
  <2>1. /\ row' = [a \in Address |-> IF row[a] = None THEN None ELSE put(a)]
        /\ Forget(c, "group") /\ group' = group /\ invite' = invite /\ adds' = adds
        /\ token' = token /\ route' = route /\ known' = known /\ UNCHANGED mine
        /\ past' = past
    BY <1>6 DEF Edit, cache
  <2>2. ASSUME NEW a \in Address, row[a] # None
        PROVE  put(a) \in Row /\ put(a).token = row[a].token
    <3>1. row[a] \in Row
      BY <2>2 DEF Solo, Stored
    <3>2. a \in DOMAIN new => new[a] \in 1..Total
      BY <1>2, CallFields
    <3> HIDE DEF new
    <3>3. put(a) = [row[a] EXCEPT !.percent = IF a \in DOMAIN new THEN new[a] ELSE row[a].percent,
                                  !.confirmed = (a = Admin)]
      BY <3>1 DEF Row
    <3>4. (IF a \in DOMAIN new THEN new[a] ELSE row[a].percent) \in 1..Total
      BY <3>1, <3>2 DEF Row
    <3>5. (a = Admin) \in BOOLEAN
      OBVIOUS
    <3> QED BY <3>1, <3>3, <3>4, <3>5 DEF Row
  <2> HIDE DEF put
  <2>3. \A a \in Address : row'[a] = None <=> row[a] = None
    BY <2>1, <2>2, NoneAssumption
  <2>4. \A a \in Address : row[a] # None => row'[a].token = row[a].token
    BY <2>1, <2>2
  <2>5. Joined' = Joined
    BY <2>3 DEF Joined
  <2>6. Stored' /\ Invites'
    <3>1. row' \in [Address -> Row \cup {None}]
      BY <2>1, <2>2
    <3> QED BY <2>1, <3>1 DEF Solo, Stored, Invites
  <2>7. Standing'
    <3>1. Admin \in Address
      BY DEF Address
    <3> QED BY <2>1, <2>3, <3>1 DEF Solo, Standing
  <2>8. PayInv'
    BY <1>3, <2>1, PayBefore DEF Solo, Editable
  <2>9. /\ calls' \in [Caller -> {NoCall} \cup Call] /\ Alone(c)'
        /\ calls'[c].op = "splits" /\ Staged(c)' /\ Point(c)' /\ Owing(c)'
        /\ ~Dissolving(c)' /\ ~Behind(c)' /\ ~Asking(c)'
    BY <1>1, <1>2, <2>1, ToGroup
  <2>10. Kept(c)'
    BY <1>4, <2>1, <2>5, <2>9 DEF Solo, Kept, RouteKept, KnownKept
  <2>11. Consented(c)'
    BY <2>9 DEF Consented
  <2>12. Following(c)'
    <3>1. past = "clean" => \A a \in Joined \ {Admin} : row[a].token <=> Accepted(a)
      BY <1>4 DEF Solo, Following
    <3>2. \A a \in Joined : row'[a].token = row[a].token /\ Accepted(a)' = Accepted(a)
      BY <2>1, <2>4 DEF Joined, Accepted
    <3> QED BY <2>1, <2>5, <2>9, <3>1, <3>2 DEF Following
  <2> QED BY <2>6, <2>7, <2>8, <2>9, <2>10, <2>11, <2>12 DEF Solo, Lone
<1> QED BY <1>5, <1>6

LEMMA DeleteAlone ==
    ASSUME NEW c \in Caller, Solo(c), Delete(c)
    PROVE  Solo(c)'
<1> DEFINE a == calls[c].who
<1>1. At(c, "delete") /\ ~Idle(c)
  BY PointIsBusy DEF Delete, At, PC
<1>2. calls[c] \in Call /\ calls[c].op = "remove" /\ a \in Address
  BY <1>1, BusyFields, CallFields DEF Solo, Staged
<1>3. group.status \in Editable /\ a \in Member /\ row[a] # None /\ calls[c].mem = row[a]
  BY <1>1, <1>2 DEF Solo, Point, Editing, Is, At
<1>4. /\ row' = [row EXCEPT ![a] = None]
      /\ Forget(c, "group") /\ group' = group /\ invite' = invite /\ adds' = adds
      /\ token' = token /\ route' = route /\ known' = known /\ UNCHANGED mine
      /\ past' = past
  BY <1>3 DEF Delete, cache
<1>5. row'[a] = None /\ \A b \in Address : b # a => row'[b] = row[b]
  BY <1>2, <1>4 DEF Solo, Stored
<1>6. Stored' /\ Invites'
  BY <1>4 DEF Solo, Stored, Invites
<1>7. Standing'
  <2>1. Admin \in Address /\ a # Admin
    BY <1>3, PartyAssumption DEF Address
  <2> QED BY <1>4, <1>5, <2>1 DEF Solo, Standing
<1>8. PayInv'
  BY <1>3, <1>4, PayBefore DEF Solo, Editable
<1>9. /\ calls' \in [Caller -> {NoCall} \cup Call] /\ Alone(c)'
      /\ calls'[c].op = "remove" /\ Staged(c)' /\ Point(c)' /\ Owing(c)'
      /\ ~Dissolving(c)' /\ Behind(c)' /\ ~Asking(c)'
  BY <1>1, <1>2, <1>4, ToGroup
<1>10. ~Dissolving(c) /\ ~Asking(c)
  BY <1>2 DEF Dissolving, Asking, Is
<1>11. Kept(c)'
  BY <1>4, <1>9, <1>10 DEF Solo, Kept, RouteKept
<1>12. Consented(c)'
  BY <1>9 DEF Consented
<1>13. Following(c)'
  <2>1. past = "clean" => \A b \in Joined \ {Admin} : row[b].token <=> Accepted(b)
    BY <1>10 DEF Solo, Following
  <2>2. \A b \in Joined' : b \in Joined /\ row'[b] = row[b] /\ Accepted(b)' = Accepted(b)
    BY <1>4, <1>5 DEF Joined, Accepted
  <2> QED BY <1>4, <1>9, <2>1, <2>2 DEF Following
<1> QED BY <1>6, <1>7, <1>8, <1>9, <1>11, <1>12, <1>13 DEF Solo, Lone

\* The row a handler saves is still there, and keeps its part.
LEMMA SavedRow ==
    ASSUME Stored, NEW c \in Caller, calls[c] \in Call, Saving(c), SaveMember(c)
    PROVE  /\ At(c, "save") /\ Forget(c, "group")
           /\ group' = group /\ invite' = invite /\ adds' = adds /\ token' = token
           /\ route' = route /\ known' = known /\ UNCHANGED mine /\ past' = past
           /\ Stored' /\ Joined' = Joined /\ Splits' = Splits
           /\ \A a \in Address : /\ row'[a] = None <=> row[a] = None
                                 /\ a # calls[c].who => row'[a] = row[a]
                                 /\ row[a] # None => /\ row'[a].id = row[a].id
                                                     /\ row'[a].percent = row[a].percent
           /\ calls[c].who \in Address /\ row[calls[c].who] # None
           /\ row'[calls[c].who].confirmed <=> calls[c].op \in Consenting
           /\ row'[calls[c].who].token <=> calls[c].op \in Consenting
<1> DEFINE w == calls[c].who
<1>1. At(c, "save") /\ w \in Address
  BY CallFields DEF SaveMember
<1>2. /\ row[w] # None /\ calls[c].mem \in Row
      /\ calls[c].mem.id = row[w].id /\ calls[c].mem.percent = row[w].percent
      /\ (calls[c].mem.confirmed <=> calls[c].op \in Consenting)
      /\ (calls[c].mem.token <=> calls[c].op \in Consenting)
  BY <1>1 DEF Saving
<1>3. /\ row' = [row EXCEPT ![w] = calls[c].mem] /\ Forget(c, "group")
      /\ group' = group /\ invite' = invite /\ adds' = adds /\ token' = token
      /\ route' = route /\ known' = known /\ UNCHANGED mine /\ past' = past
  BY <1>2 DEF SaveMember, cache
<1>4. row'[w] = calls[c].mem /\ \A a \in Address : a # w => row'[a] = row[a]
  BY <1>1, <1>3 DEF Stored
<1>5. Stored'
  BY <1>2, <1>3 DEF Stored
<1> HIDE DEF w
<1>6. \A a \in Address : /\ row'[a] = None <=> row[a] = None
                         /\ row[a] # None => /\ row'[a].id = row[a].id
                                             /\ row'[a].percent = row[a].percent
  BY <1>2, <1>4, NoneAssumption
<1>7. Joined' = Joined
  BY <1>6 DEF Joined
<1>8. Splits' = Splits
  <2>1. \A a \in Joined : row'[a].percent = row[a].percent
    BY <1>6 DEF Joined
  <2> QED BY <1>7, <2>1 DEF Splits
<1> QED BY <1>1, <1>2, <1>3, <1>4, <1>5, <1>6, <1>7, <1>8 DEF w

LEMMA SaveMemberAlone ==
    ASSUME NEW c \in Caller, Solo(c), calls[c].op \in Lone, SaveMember(c)
    PROVE  Solo(c)'
<1>1. At(c, "save") /\ ~Idle(c)
  BY PointIsBusy DEF SaveMember, At, PC
<1>2. calls[c] \in Call /\ calls[c].op = "resend" /\ calls[c].op \notin Consenting
  BY <1>1, BusyFields DEF Solo, Staged, Lone, Consenting
<1>3. Stored /\ Saving(c)
  BY DEF Solo, Point
<1>4. /\ Forget(c, "group")
      /\ group' = group /\ invite' = invite /\ adds' = adds /\ token' = token
      /\ route' = route /\ known' = known /\ UNCHANGED mine /\ past' = past
      /\ Stored' /\ Joined' = Joined /\ Splits' = Splits
      /\ \A a \in Address : /\ row'[a] = None <=> row[a] = None
                            /\ a # calls[c].who => row'[a] = row[a]
      /\ ~row'[calls[c].who].token
  BY <1>2, <1>3, SavedRow
<1>5. Standing' /\ Invites' /\ PayInv'
  <2>1. Admin \in Address
    BY DEF Address
  <2> QED BY <1>4, <2>1, PaySame DEF Solo, Standing, Invites
<1>6. /\ calls' \in [Caller -> {NoCall} \cup Call] /\ Alone(c)'
      /\ calls'[c].op = "resend" /\ calls'[c].who = calls[c].who
      /\ Staged(c)' /\ Point(c)' /\ Owing(c)' /\ ~Dissolving(c)' /\ ~Behind(c)'
      /\ Asking(c)'
  BY <1>1, <1>2, <1>4, ToGroup
<1>7. ~Dissolving(c) /\ ~Behind(c) /\ ~Asking(c)
  BY <1>1, <1>2 DEF Dissolving, Behind, Asking, Is, At, Recompute, Rebuild
<1>8. Kept(c)'
  BY <1>4, <1>7 DEF Solo, Kept, RouteKept, KnownKept
<1>9. Consented(c)'
  BY <1>6 DEF Consented
<1>10. Following(c)'
  <2>1. past = "clean" => \A b \in Joined \ {Admin} : row[b].token <=> Accepted(b)
    BY <1>7 DEF Solo, Following
  <2>2. \A b \in Joined : b \in Address /\ Accepted(b)' = Accepted(b)
    BY <1>4 DEF Joined, Accepted
  <2> QED BY <1>4, <1>6, <2>1, <2>2 DEF Following
<1> QED BY <1>4, <1>5, <1>6, <1>8, <1>9, <1>10 DEF Solo, Lone

\* A write of one invitation.
LEMMA InviteFrame ==
    ASSUME NEW c \in Caller, Solo(c), NEW a \in Address, NEW s \in Seq(Invite),
           invite' = [invite EXCEPT ![a] = s],
           group' = group, row' = row, adds' = adds, token' = token, UNCHANGED <<cache, mine>>,
           past' = past, \A i \in DOMAIN s : i # Len(s) => s[i] \notin Open
    PROVE  /\ Stored' /\ Standing' /\ Invites' /\ PayInv'
           /\ SignedOff' = SignedOff /\ RouteKept' = RouteKept /\ KnownKept' = KnownKept
           /\ invite'[a] = s /\ Joined' = Joined
           /\ \A b \in Address : b # a => Accepted(b)' = Accepted(b)
<1>1. route' = route /\ known' = known
  BY DEF cache
<1>2. Stored'
  BY <1>1 DEF Solo, Stored
<1>3. invite'[a] = s /\ \A b \in Address : b # a => invite'[b] = invite[b]
  BY DEF Solo, Stored
<1>4. Standing' /\ Invites'
  BY <1>1, <1>3 DEF Solo, Standing, Invites
<1>5. Joined' = Joined /\ Splits' = Splits /\ AllConfirmed' = AllConfirmed
  BY DEF Joined, Splits, AllConfirmed
<1>6. PayInv'
  BY <1>5, PaySame DEF Solo
<1>7. SignedOff' = SignedOff /\ RouteKept' = RouteKept /\ KnownKept' = KnownKept
  BY <1>1, <1>5 DEF SignedOff, RouteKept, KnownKept
<1>8. \A b \in Address : b # a => Accepted(b)' = Accepted(b)
  BY <1>3 DEF Accepted
<1> QED BY <1>2, <1>3, <1>4, <1>5, <1>6, <1>7, <1>8

LEMMA MintAlone ==
    ASSUME NEW c \in Caller, Solo(c), Mint(c)
    PROVE  Solo(c)'
<1>1. At(c, "mint") /\ ~Idle(c)
  BY PointIsBusy DEF Mint, At, PC
<1>0. PICK a \in Address : a = calls[c].who
  BY <1>1, BusyFields, CallFields
<1> DEFINE open == \E i \in DOMAIN invite[a] : invite[a][i] \in {"pending", "lapsed"}
           s == IF open THEN invite[a] ELSE Append(invite[a], "pending")
<1>2. calls[c] \in Call /\ calls[c].op \in {"add", "resend"} /\ a \in Address
  BY <1>1, BusyFields DEF Solo, Staged
<1>3. /\ group' = group /\ row' = row /\ adds' = adds /\ token' = token
      /\ UNCHANGED <<cache, mine>> /\ past' = past /\ End(c)
  BY DEF Mint
<1>4. invite[a] \in Seq(Invite) /\ invite = [invite EXCEPT ![a] = invite[a]]
  BY <1>2 DEF Solo, Stored
<1>5. invite' = [invite EXCEPT ![a] = s]
  <2>1. CASE open
    BY <1>0, <1>4, <2>1 DEF Mint
  <2>2. CASE ~open
    BY <1>0, <2>2 DEF Mint
  <2> QED BY <2>1, <2>2
<1>6. /\ s \in Seq(Invite) /\ s # <<>> /\ s[Len(s)] # "accepted"
      /\ \A i \in DOMAIN s : i # Len(s) => s[i] \notin Open
  <2>1. CASE open
    <3>1. PICK i \in DOMAIN invite[a] : invite[a][i] \in {"pending", "lapsed"}
      BY <2>1
    <3>2. i = Len(invite[a])
      BY <1>2, <3>1, OpenIsLast DEF Solo, Open
    <3> QED BY <1>2, <1>4, <2>1, <3>1, <3>2 DEF Solo, Invites
  <2>2. CASE ~open
    <3>1. s = Append(invite[a], "pending") /\ "pending" \in Invite
      BY <2>2 DEF Invite
    <3>2. /\ Len(s) = Len(invite[a]) + 1 /\ s[Len(s)] = "pending" /\ s \in Seq(Invite)
          /\ s # <<>> /\ \A i \in 1..Len(invite[a]) : s[i] = invite[a][i]
      BY <1>4, <3>1, AppendProperties
    <3>3. ASSUME NEW i \in DOMAIN s, i # Len(s) PROVE s[i] \notin Open
      <4>1. i \in DOMAIN invite[a] /\ s[i] = invite[a][i]
        BY <1>4, <3>2, <3>3
      <4> QED BY <2>2, <4>1 DEF Open
    <3> QED BY <3>2, <3>3
  <2> QED BY <2>1, <2>2
<1> HIDE DEF s, open
<1>7. /\ Stored' /\ Standing' /\ Invites' /\ PayInv'
      /\ SignedOff' = SignedOff /\ RouteKept' = RouteKept /\ KnownKept' = KnownKept
      /\ invite'[a] = s /\ Joined' = Joined
      /\ \A b \in Address : b # a => Accepted(b)' = Accepted(b)
  BY <1>2, <1>3, <1>5, <1>6, InviteFrame
<1>8. Turn(c, NoCall) /\ Idle(c)'
  BY <1>3, Ending DEF Solo
<1>9. calls' \in [Caller -> {NoCall} \cup Call] /\ Alone(c)'
  BY <1>8, StaysAlone
<1>10. Staged(c)' /\ Point(c)' /\ ~Asking(c)'
  BY <1>8, IdleIsNowhereNext
<1>11. ~Dissolving(c) /\ ~Behind(c) /\ ~Owing(c) /\ Asking(c)
  BY <1>1, <1>2 DEF Dissolving, Behind, Owing, Asking, Is, At, Recompute, Rebuild
<1>12. Kept(c)' /\ Consented(c)'
  BY <1>3, <1>7, <1>11 DEF Solo, Kept, Consented
<1>13. Following(c)'
  <2>1. ~Accepted(a)'
    BY <1>6, <1>7 DEF Accepted, Last
  <2>2. past = "clean" =>
            /\ a \in Joined => ~row[a].token
            /\ \A b \in Joined \ {Admin} : a # b => (row[b].token <=> Accepted(b))
    BY <1>0, <1>11 DEF Solo, Following, Joined
  <2>3. Joined \subseteq Address
    BY DEF Joined
  <2> QED BY <1>3, <1>7, <1>10, <2>1, <2>2, <2>3 DEF Following
<1> QED BY <1>7, <1>8, <1>9, <1>10, <1>12, <1>13 DEF Solo

\* An invitation that is closed other than by accepting it was not accepted before.
LEMMA Closes ==
    ASSUME NEW c \in Caller, Solo(c), NEW a \in Address, NEW n \in DOMAIN invite[a],
           n = Len(invite[a]), invite[a][n] \in Open,
           NEW to \in {"declined", "expired"}, invite' = [invite EXCEPT ![a][n] = to],
           group' = group, row' = row, adds' = adds, token' = token, UNCHANGED <<cache, mine>>,
           past' = past
    PROVE  /\ Stored' /\ Standing' /\ Invites' /\ PayInv'
           /\ SignedOff' = SignedOff /\ RouteKept' = RouteKept /\ KnownKept' = KnownKept
           /\ Joined' = Joined /\ \A b \in Address : Accepted(b)' <=> Accepted(b)
<1> DEFINE s == [invite[a] EXCEPT ![n] = to]
<1>1. invite[a] \in Seq(Invite)
  BY DEF Solo, Stored
<1>2. to \in Invite
  BY DEF Invite
<1>3. s \in Seq(Invite) /\ Len(s) = Len(invite[a]) /\ s[Len(s)] = to
  BY <1>1, <1>2
<1>4. \A i \in DOMAIN s : i # Len(s) => s[i] \notin Open
  <2>1. \A i \in DOMAIN invite[a] : i # Len(invite[a]) => invite[a][i] \notin Open
    BY DEF Solo, Invites
  <2> QED BY <1>1, <1>3, <2>1
<1>5. invite' = [invite EXCEPT ![a] = s]
  OBVIOUS
<1> HIDE DEF s
<1>6. /\ Stored' /\ Standing' /\ Invites' /\ PayInv'
      /\ SignedOff' = SignedOff /\ RouteKept' = RouteKept /\ KnownKept' = KnownKept
      /\ invite'[a] = s /\ Joined' = Joined
      /\ \A b \in Address : b # a => Accepted(b)' = Accepted(b)
  BY <1>3, <1>4, <1>5, InviteFrame
<1>7. ~Accepted(a)' /\ ~Accepted(a)
  BY <1>3, <1>6 DEF Accepted, Last, Open
<1> QED BY <1>6, <1>7

LEMMA AnswerAlone ==
    ASSUME NEW c \in Caller, Solo(c), calls[c].op \in Lone, Answer(c)
    PROVE  Solo(c)'
<1> DEFINE a == calls[c].who
<1>1. At(c, "answer") /\ ~Idle(c)
  BY PointIsBusy DEF Answer, At, PC
<1>2. calls[c] \in Call /\ calls[c].op = "respond" /\ a \in Address /\ calls[c].pc \in PC
  BY <1>1, BusyFields, CallFields DEF Solo, Staged, Lone
<1>3. /\ calls[c].to \in {"declined", "expired"} /\ calls[c].nr \in DOMAIN invite[a]
      /\ calls[c].nr = Len(invite[a]) /\ invite[a][calls[c].nr] \in Open
  BY <1>2 DEF Solo, Point, Answering, Is
<1>4. /\ group' = group /\ row' = row /\ adds' = adds /\ token' = token
      /\ UNCHANGED <<cache, mine>> /\ past' = past /\ End(c)
      /\ invite' = [invite EXCEPT ![a][calls[c].nr] = calls[c].to]
  BY DEF Answer
<1>5. /\ Stored' /\ Standing' /\ Invites' /\ PayInv'
      /\ SignedOff' = SignedOff /\ RouteKept' = RouteKept /\ KnownKept' = KnownKept
      /\ Joined' = Joined /\ \A b \in Address : Accepted(b)' <=> Accepted(b)
  BY <1>2, <1>3, <1>4, Closes
<1>6. Turn(c, NoCall) /\ Idle(c)'
  BY <1>4, Ending DEF Solo
<1>7. calls' \in [Caller -> {NoCall} \cup Call] /\ Alone(c)'
  BY <1>6, StaysAlone
<1>8. Staged(c)' /\ Point(c)' /\ ~Asking(c)'
  BY <1>6, IdleIsNowhereNext
<1>9. ~Dissolving(c) /\ ~Behind(c) /\ ~Owing(c) /\ ~Asking(c)
  BY <1>2 DEF Dissolving, Behind, Owing, Asking, Is
<1>10. Kept(c)' /\ Consented(c)'
  BY <1>4, <1>5, <1>9 DEF Solo, Kept, Consented
<1>11. Following(c)'
  <2>1. past = "clean" => \A b \in Joined \ {Admin} : row[b].token <=> Accepted(b)
    BY <1>9 DEF Solo, Following
  <2>2. Joined \subseteq Address
    BY DEF Joined
  <2> QED BY <1>4, <1>5, <1>8, <2>1, <2>2 DEF Following
<1> QED BY <1>5, <1>6, <1>7, <1>8, <1>10, <1>11 DEF Solo

LEMMA ExpireInviteAlone ==
    ASSUME NEW c \in Caller, Solo(c), ExpireInvite(c)
    PROVE  Solo(c)'
<1> DEFINE a == calls[c].who
<1>1. At(c, "lapse") /\ ~Idle(c)
  BY PointIsBusy DEF ExpireInvite, At, PC
<1>2. calls[c] \in Call /\ calls[c].op = "resend" /\ a \in Address /\ calls[c].pc \in PC
  BY <1>1, BusyFields, CallFields DEF Solo, Staged, At
<1>3. /\ calls[c].nr \in DOMAIN invite[a]
      /\ calls[c].nr = Len(invite[a]) /\ invite[a][calls[c].nr] \in Open
  BY <1>1 DEF Solo, Point, Answering
<1>4. /\ group' = group /\ row' = row /\ adds' = adds /\ token' = token
      /\ UNCHANGED <<cache, mine>> /\ past' = past /\ Go(c, "list")
      /\ invite' = [invite EXCEPT ![a][calls[c].nr] = "expired"]
  BY DEF ExpireInvite
<1>5. /\ Stored' /\ Standing' /\ Invites' /\ PayInv'
      /\ SignedOff' = SignedOff /\ RouteKept' = RouteKept /\ KnownKept' = KnownKept
      /\ Joined' = Joined /\ \A b \in Address : Accepted(b)' <=> Accepted(b)
  BY <1>2, <1>3, <1>4, Closes
<1>0. "list" \in PC
  BY DEF PC
<1>6. PICK k \in Call : Turn(c, k) /\ k.pc = "list" /\ k.op = "resend"
  BY <1>0, <1>1, <1>2, <1>4, Going DEF Solo
<1>7. calls' \in [Caller -> {NoCall} \cup Call] /\ Alone(c)' /\ calls'[c] = k
  BY <1>6, StaysAlone
<1>8. Staged(c)' /\ Saving(c)' /\ Writing(c)' /\ Answering(c)'
  BY <1>6, <1>7 DEF Staged, Saving, Writing, Answering, At, Is, Recompute, Rebuild
<1>9. Editing(c)' /\ Recomputing(c)'
  BY <1>6, <1>7 DEF Editing, Recomputing, At, Is, Rebuild
<1>10. ~Dissolving(c) /\ ~Behind(c) /\ ~Owing(c) /\ ~Asking(c) /\ ~Asking(c)'
  BY <1>1, <1>6, <1>7 DEF Dissolving, Behind, Owing, Asking, Is, At, Recompute, Rebuild
<1>11. Kept(c)' /\ Consented(c)'
  BY <1>4, <1>5, <1>10 DEF Solo, Kept, Consented
<1>12. Following(c)'
  <2>1. past = "clean" => \A b \in Joined \ {Admin} : row[b].token <=> Accepted(b)
    BY <1>10 DEF Solo, Following
  <2>2. Joined \subseteq Address
    BY DEF Joined
  <2> QED BY <1>4, <1>5, <1>10, <2>1, <2>2 DEF Following
<1> QED BY <1>5, <1>6, <1>7, <1>8, <1>9, <1>11, <1>12 DEF Solo, Point, Lone

LEMMA WriteGroupAlone ==
    ASSUME NEW c \in Caller, Solo(c), calls[c].op \in Lone, WriteGroup(c)
    PROVE  Solo(c)'
<1>1. At(c, "write") /\ ~Idle(c)
  BY PointIsBusy DEF WriteGroup, At, PC
<1>2. calls[c] \in Call /\ calls[c].op \in {"dissolve", "hint"}
  BY <1>1, BusyFields DEF Solo, Staged, Lone
<1>3. /\ group' = calls[c].grp /\ route' = route /\ known' = known
      /\ row' = row /\ adds' = adds /\ invite' = invite /\ token' = token /\ UNCHANGED mine
      /\ past' = past
  BY <1>2 DEF WriteGroup
<1>4. CASE calls[c].op = "hint"
  <2>1. group' = group /\ End(c)
    BY <1>1, <1>3, <1>4 DEF WriteGroup, Solo, Point, Writing, Is, At
  <2>2. UNCHANGED rows
    BY <1>3, <2>1 DEF rows, db, cache
  <2>3. ~Dissolving(c) /\ ~Behind(c) /\ ~Owing(c) /\ ~Asking(c)
    BY <1>4 DEF Dissolving, Behind, Owing, Asking, Is
  <2> QED BY <2>1, <2>2, <2>3, SoloEnds
<1>5. CASE calls[c].op = "dissolve"
  <2>1. /\ calls[c].grp = [group EXCEPT !.status = "dissolved"] /\ token /\ group \in Group
        /\ Forget(c, "rebuild")
    BY <1>1, <1>5 DEF WriteGroup, Solo, Point, Writing, Is, At, Stored
  <2>2. group' \in Group /\ group'.status = "dissolved"
    BY <1>3, <2>1 DEF Group, Status
  <2>3. Stored' /\ Invites'
    BY <1>3, <2>2 DEF Solo, Stored, Invites
  <2>4. Standing' /\ SignedOff'
    BY <1>3, <2>1, <2>2 DEF Solo, Standing, SignedOff, Voting
  <2>5. PayInv'
    BY <1>3, <2>2 DEF Solo, PayInv, mine
  <2>6. "rebuild" \in PC
    BY DEF PC
  <2>7. PICK k \in Call : Turn(c, k) /\ k.pc = "rebuild" /\ k.op = "dissolve"
    BY <1>1, <1>5, <2>1, <2>6, Forgetting DEF Solo
  <2>8. calls' \in [Caller -> {NoCall} \cup Call] /\ Alone(c)' /\ calls'[c] = k
    BY <2>7, StaysAlone
  <2>9. Staged(c)' /\ Saving(c)' /\ Writing(c)' /\ Answering(c)'
    BY <2>7, <2>8 DEF Staged, Saving, Writing, Answering, At, Is, Recompute, Rebuild
  <2>10. Editing(c)' /\ Recomputing(c)'
    BY <2>2, <2>4, <2>7, <2>8 DEF Editing, Recomputing, At, Is, Rebuild
  <2>11. Dissolving(c)' /\ Behind(c)' /\ ~Asking(c) /\ ~Asking(c)'
    BY <1>5, <2>7, <2>8 DEF Dissolving, Behind, Asking, Is, Rebuild
  <2>12. Kept(c)' /\ Consented(c)'
    BY <2>4, <2>11 DEF Kept, Consented
  <2>13. Following(c)'
    BY <1>3, <2>11, FollowingFrame DEF Solo
  <2> QED BY <2>3, <2>4, <2>5, <2>7, <2>8, <2>9, <2>10, <2>12, <2>13 DEF Solo, Point, Lone
<1> QED BY <1>2, <1>4, <1>5

-------------------------------------------------------------------------------
(* Confirmations that overlap. *)

Agreed == past # "failed" =>
              /\ group.status = "ready" => AllConfirmed
              /\ group.status = "confirming" /\ AllConfirmed => \E c \in Caller : Due(c)
              /\ \A c \in Caller : Judged(c)
Taken  == past = "clean" =>
              /\ \A c \in Caller :
                     Taking(c) => row[calls[c].who] # None /\ row[calls[c].who].token
              /\ \A a \in Joined \ {Admin} : (\A c \in Caller : Taking(c) => calls[c].who # a) =>
                     (row[a].token <=> Accepted(a))
Fresh  == past # "failed" /\ token => RouteKept /\ KnownKept

\* The invariant when every handler confirms for a member.
Votes ==
    /\ Stored /\ Called /\ Standing /\ Invites /\ PayInv
    /\ \A c \in Caller : Point(c) /\ (~Idle(c) => calls[c].op \in Consenting)
    /\ Fresh /\ Agreed /\ Taken

LEMMA VotersElse ==
    ASSUME NEW c \in Caller, Idle(c) \/ calls[c].op \in Consenting
    PROVE  ~Dissolving(c) /\ ~Behind(c) /\ ~Owing(c) /\ ~Asking(c)
<1>1. CASE Idle(c)
  BY <1>1, IdleIsNowhere
<1>2. CASE calls[c].op \in Consenting
  BY <1>2 DEF Consenting, Dissolving, Behind, Owing, Asking, Is
<1> QED BY <1>1, <1>2

LEMMA VotersElseNext ==
    ASSUME NEW c \in Caller, Idle(c)' \/ calls'[c].op \in Consenting
    PROVE  ~Dissolving(c)' /\ ~Behind(c)' /\ ~Owing(c)' /\ ~Asking(c)'
<1>1. CASE Idle(c)'
  BY <1>1, IdleIsNowhereNext
<1>2. CASE calls'[c].op \in Consenting
  BY <1>2 DEF Consenting, Dissolving, Behind, Owing, Asking, Is
<1> QED BY <1>1, <1>2

LEMMA VotesOfInv ==
    ASSUME IInv, \A d \in Caller : Idle(d) \/ calls[d].op \in Consenting
    PROVE  Votes
<1>1. \A d \in Caller : ~Dissolving(d) /\ ~Behind(d) /\ ~Owing(d) /\ ~Asking(d)
  BY VotersElse
<1>2. Fresh
  BY <1>1 DEF IInv, CacheInv, Fresh
<1>3. Agreed
  BY <1>1 DEF IInv, ConsentInv, Agreed
<1>4. Taken
  BY <1>1 DEF IInv, TokenInv, Taken
<1> QED BY <1>2, <1>3, <1>4 DEF IInv, Votes

LEMMA InvOfVotes ==
    ASSUME Votes'
    PROVE  IInv'
<1>0. \A d \in Caller : Idle(d)' \/ calls'[d].op \in Consenting
  BY DEF Votes
<1>1. \A d \in Caller : ~Dissolving(d)' /\ ~Behind(d)' /\ ~Owing(d)' /\ ~Asking(d)'
  BY <1>0, VotersElseNext
<1>2. CacheInv'
  BY <1>1 DEF Votes, CacheInv, Fresh
<1>3. ConsentInv'
  <2> SUFFICES ASSUME past' # "failed" PROVE ConsentInv'
    BY DEF ConsentInv
  <2>1. Agreed'
    BY DEF Votes
  <2> QED BY <2>1 DEF ConsentInv, Agreed
<1>4. TokenInv'
  <2> SUFFICES ASSUME past' = "clean" PROVE TokenInv'
    BY DEF TokenInv
  <2>1. Taken'
    BY DEF Votes
  <2>2. \A d \in Caller : (Asking(d) /\ row[calls[d].who] # None => ~row[calls[d].who].token)'
    BY <1>1
  <2>3. ASSUME NEW a \in Joined' \ {Admin},
               (\A d \in Caller : Taking(d) \/ Asking(d) => calls[d].who # a)'
        PROVE  row'[a].token <=> Accepted(a)'
    BY <2>1, <2>3 DEF Taken
  <2>4. \A d \in Caller : (Taking(d) => row[calls[d].who] # None /\ row[calls[d].who].token)'
    BY <2>1 DEF Taken
  <2> QED BY <2>2, <2>3, <2>4 DEF TokenInv
<1>5. Apart'
  BY <1>0 DEF Apart, Tame, Consenting, Idle
<1>6. Called' /\ (\A d \in Caller : Point(d))'
  BY DEF Votes
<1> QED BY <1>2, <1>3, <1>4, <1>5, <1>6 DEF Votes, IInv

LEMMA StepsVoting ==
    ASSUME IInv, NEW c \in Caller, ~Idle(c), calls[c].op \in Consenting
    PROVE  Votes
<1>1. ASSUME NEW d \in Caller PROVE Idle(d) \/ calls[d].op \in Consenting
  <2>1. d # c /\ ~Idle(d) => Tame(calls[c].op, calls[d].op)
    BY DEF IInv, Apart
  <2> QED BY <2>1 DEF Tame, Consenting
<1> QED BY <1>1, VotesOfInv

LEMMA BeginsVoting ==
    ASSUME IInv, Overlap = FALSE, NEW c \in Caller, NEW k \in Call, Begin(c, k),
           k.op \in Consenting
    PROVE  Votes /\ Idle(c) /\ Turn(c, k) /\ past' = past
<1>1. /\ Idle(c) /\ Turn(c, k) /\ past' = past
      /\ \A d \in Caller : Idle(d) \/ Tame(k.op, calls[d].op)
  BY Beginning DEF IInv, Called
<1>2. \A d \in Caller : Idle(d) \/ calls[d].op \in Consenting
  BY <1>1 DEF Tame, Consenting
<1> QED BY <1>1, <1>2, VotesOfInv

\* What a step of one voter leaves of what the others know.
Gentle ==
    /\ \A a \in Address : row[a] # None =>
           /\ row'[a] # None /\ row'[a].id = row[a].id /\ row'[a].percent = row[a].percent
           /\ row[a].token => row'[a].token
    /\ group.status \in Voting => group'.status \in Voting
    /\ \A a \in Address : DOMAIN invite'[a] = DOMAIN invite[a] /\ Len(invite'[a]) = Len(invite[a])

LEMMA VoterStands ==
    ASSUME Votes, Gentle, NEW d \in Caller, calls'[d] = calls[d]
    PROVE  Staged(d)' /\ Point(d)' /\ (~Idle(d)' => calls'[d].op \in Consenting)
<1>1. CASE Idle(d)
  <2>1. Idle(d)'
    BY <1>1 DEF Idle
  <2> QED BY <2>1, IdleIsNowhereNext
<1>2. CASE ~Idle(d)
  <2>1. calls[d].op \in {"accept", "confirm"} /\ calls[d] \in Call /\ calls[d].pc \in PC
        /\ calls[d].who \in Address
    BY <1>2, BusyCall, CallFields DEF Votes, Consenting, Called
  <2>2. Staged(d) /\ Point(d)
    BY DEF Votes, Called
  <2>3. Staged(d)'
    BY <2>2 DEF Staged, At, Is
  <2>4. Editing(d)' /\ Writing(d)'
    BY <2>1, <2>3 DEF Staged, Editing, Writing, At, Is, Rebuild
  <2>5. Saving(d)'
    BY <2>1, <2>2 DEF Point, Saving, At, Is, Gentle
  <2>6. Recomputing(d)'
    <3>1. calls[d].pc \notin Rebuild \cup {"promote", "sum"}
      BY <2>1, <2>2 DEF Staged, At, Rebuild
    <3>2. At(d, "members") \/ At(d, "status") =>
              calls[d].grp \in Group /\ group'.status \in Voting /\ calls[d].grp.status \in Voting
      BY <2>2 DEF Point, Recomputing, Gentle
    <3> QED BY <2>1, <3>1, <3>2 DEF Recomputing, At, Is, Consenting, Rebuild
  <2>7. Answering(d)'
    <3>1. ~At(d, "lapse")
      BY <2>1, <2>2 DEF Staged, At
    <3> QED BY <2>1, <2>2, <3>1 DEF Point, Answering, At, Is, Gentle
  <2> QED BY <2>1, <2>3, <2>4, <2>5, <2>6, <2>7 DEF Point, Consenting
<1> QED BY <1>1, <1>2

LEMMA VotesStep ==
    ASSUME Votes, Gentle, NEW c \in Caller, NEW k, Turn(c, k),
           ~Idle(c)' => k.op \in Consenting, Staged(c)', Point(c)',
           Stored', Standing', Invites', PayInv', Fresh', Agreed', Taken'
    PROVE  Votes'
<1>1. calls' \in [Caller -> {NoCall} \cup Call] /\ calls'[c] = k
      /\ \A d \in Caller : d # c => calls'[d] = calls[d]
  BY DEF Turn
<1>2. \A d \in Caller : Staged(d)' /\ Point(d)' /\ (~Idle(d)' => calls'[d].op \in Consenting)
  BY <1>1, VoterStands
<1> QED BY <1>1, <1>2 DEF Votes, Called

\* What the others are in the middle of.
LEMMA OthersSame ==
    ASSUME NEW d \in Caller, calls'[d] = calls[d]
    PROVE  /\ Due(d)' = Due(d) /\ Taking(d)' = Taking(d) /\ calls'[d].who = calls[d].who
           /\ (AllConfirmed => AllConfirmed') => (Judged(d) => Judged(d)')
<1>1. Due(d)' = Due(d) /\ Taking(d)' = Taking(d)
  BY DEF Due, Taking, Is
<1>2. (AllConfirmed => AllConfirmed') => (Judged(d) => Judged(d)')
  BY DEF Judged, Is
<1> QED BY <1>1, <1>2

\* A step of a voter that writes nothing.
LEMMA VotesRead ==
    ASSUME Votes, NEW c \in Caller, NEW k, Turn(c, k), UNCHANGED rows,
           ~Idle(c)' => k.op \in Consenting, Staged(c)', Point(c)',
           past # "failed" /\ Due(c) /\ group.status = "confirming" /\ AllConfirmed => Due(c)',
           past # "failed" => Judged(c)',
           Taking(c)' => Taking(c), Taking(c) => Taking(c)' /\ k.who = calls[c].who
    PROVE  Votes'
<1>1. /\ Stored' /\ Standing' /\ Invites' /\ PayInv'
      /\ RouteKept' = RouteKept /\ KnownKept' = KnownKept /\ AllConfirmed' = AllConfirmed
      /\ Joined' = Joined /\ \A a \in Address : Accepted(a)' = Accepted(a)
  BY ReadsFrame DEF Votes
<1>2. /\ past' = past /\ token' = token /\ row' = row /\ group' = group /\ invite' = invite
  BY DEF rows, db
<1>3. Gentle
  BY <1>2 DEF Gentle
<1>4. \A d \in Caller : d # c => calls'[d] = calls[d]
  BY DEF Turn
<1>5. calls'[c] = k
  BY DEF Turn
<1>6. Fresh'
  BY <1>1, <1>2 DEF Votes, Fresh
<1>7. Agreed'
  <2> SUFFICES ASSUME past' # "failed" PROVE Agreed'
    BY DEF Agreed
  <2>1. /\ group.status = "ready" => AllConfirmed
        /\ group.status = "confirming" /\ AllConfirmed => \E d \in Caller : Due(d)
        /\ \A d \in Caller : Judged(d)
    BY <1>2 DEF Votes, Agreed
  <2>2. \A d \in Caller : Judged(d)'
    BY <1>1, <1>2, <1>4, <2>1, OthersSame
  <2>3. ASSUME group.status = "confirming", AllConfirmed PROVE \E d \in Caller : Due(d)'
    <3>1. PICK d \in Caller : Due(d)
      BY <2>1, <2>3
    <3>2. Due(d)'
      BY <1>2, <1>4, <2>3, <3>1, OthersSame
    <3> QED BY <3>2
  <2> QED BY <1>1, <1>2, <2>1, <2>2, <2>3 DEF Agreed
<1>8. Taken'
  <2> SUFFICES ASSUME past' = "clean" PROVE Taken'
    BY DEF Taken
  <2>1. /\ \A d \in Caller : Taking(d) => row[calls[d].who] # None /\ row[calls[d].who].token
        /\ \A a \in Joined \ {Admin} : (\A d \in Caller : Taking(d) => calls[d].who # a) =>
               (row[a].token <=> Accepted(a))
    BY <1>2 DEF Votes, Taken
  <2>2. \A d \in Caller : /\ Taking(d)' => Taking(d)
                          /\ Taking(d) => Taking(d)' /\ calls'[d].who = calls[d].who
    BY <1>4, <1>5, OthersSame
  <2>3. \A d \in Caller : (Taking(d) => row[calls[d].who] # None /\ row[calls[d].who].token)'
    BY <1>2, <2>1, <2>2
  <2>4. ASSUME NEW a \in Joined' \ {Admin},
               (\A d \in Caller : Taking(d) => calls[d].who # a)'
        PROVE  row'[a].token <=> Accepted(a)'
    <3>1. \A d \in Caller : Taking(d) => calls[d].who # a
      BY <2>2, <2>4
    <3>2. a \in Address
      BY <1>1 DEF Joined
    <3> QED BY <1>1, <1>2, <2>1, <3>1, <3>2
  <2> QED BY <2>3, <2>4 DEF Taken
<1> QED BY <1>1, <1>3, <1>6, <1>7, <1>8, VotesStep

LEMMA AcceptKeeps ==
    ASSUME IInv, Overlap = FALSE, NEW c \in Caller, Accept(c)
    PROVE  Votes'
<1>1. PICK a \in Address : \E i \in DOMAIN invite[a] :
          /\ invite[a][i] = "pending"
          /\ Begin(c, [New("accept", "find") EXCEPT !.who = a, !.nr = i, !.to = "accepted"])
  BY DEF Accept
<1>0. PICK i \in DOMAIN invite[a] :
          /\ invite[a][i] = "pending"
          /\ Begin(c, [New("accept", "find") EXCEPT !.who = a, !.nr = i, !.to = "accepted"])
  BY <1>1
<1> DEFINE k == [New("accept", "find") EXCEPT !.who = a, !.nr = i, !.to = "accepted"]
<1>2. i \in Nat /\ i = Len(invite[a])
  <2>1. invite[a][i] \in Open
    BY <1>0 DEF Open
  <2> QED BY <2>1, OpenIsLast DEF IInv
<1>3. /\ k \in Call /\ k.pc = "find" /\ k.op = "accept" /\ k.who = a /\ k.nr = i
      /\ k.to = "accepted"
  <2>1. New("accept", "find") \in Call /\ New("accept", "find").op = "accept"
        /\ New("accept", "find").pc = "find"
    BY NewCall DEF Op, PC
  <2>2. "accepted" \in Invite
    BY DEF Invite
  <2> QED BY <2>1, <2>2, <1>2 DEF Call
<1>4. Begin(c, k)
  BY <1>0
<1> HIDE DEF k
<1>5. Votes /\ Idle(c) /\ Turn(c, k) /\ past' = past
  BY <1>3, <1>4, BeginsVoting DEF Consenting
<1>6. UNCHANGED rows /\ invite' = invite /\ calls'[c] = k
  BY <1>5 DEF Accept, rows, db, Turn
<1>7. Staged(c)' /\ Editing(c)' /\ Saving(c)'
  BY <1>3, <1>6 DEF Staged, Editing, Saving, At, Is, Recompute, Rebuild
<1>8. Recomputing(c)' /\ Writing(c)' /\ Answering(c)'
  BY <1>2, <1>3, <1>6 DEF Recomputing, Writing, Answering, At, Is, Rebuild
<1>9. ~Due(c) /\ Judged(c)' /\ ~Taking(c)' /\ ~Taking(c)
  <2>1. Judged(c)' /\ ~Taking(c)'
    BY <1>3, <1>6 DEF Judged, Taking, Is, Recompute
  <2> QED BY <1>5, <2>1, IdleIsNowhere
<1> QED BY <1>3, <1>5, <1>6, <1>7, <1>8, <1>9, VotesRead DEF Point, Consenting

LEMMA ConfirmKeeps ==
    ASSUME IInv, Overlap = FALSE, NEW c \in Caller, Confirm(c)
    PROVE  Votes'
<1>1. PICK a \in Joined : /\ row[a].token
                          /\ Begin(c, [New("confirm", "find") EXCEPT !.who = a])
  BY DEF Confirm
<1> DEFINE k == [New("confirm", "find") EXCEPT !.who = a]
<1>2. a \in Address /\ row[a] # None
  BY DEF Joined
<1>3. k \in Call /\ k.pc = "find" /\ k.op = "confirm" /\ k.who = a
  <2>1. New("confirm", "find") \in Call /\ New("confirm", "find").op = "confirm"
        /\ New("confirm", "find").pc = "find"
    BY NewCall DEF Op, PC
  <2> QED BY <2>1, <1>2 DEF Call
<1>4. Begin(c, k)
  BY <1>1
<1> HIDE DEF k
<1>5. Votes /\ Idle(c) /\ Turn(c, k) /\ past' = past
  BY <1>3, <1>4, BeginsVoting DEF Consenting
<1>6. UNCHANGED rows /\ row' = row /\ calls'[c] = k
  BY <1>5 DEF Confirm, rows, db, Turn
<1>7. Staged(c)' /\ Editing(c)' /\ Saving(c)'
  BY <1>1, <1>2, <1>3, <1>6 DEF Staged, Editing, Saving, At, Is, Recompute, Rebuild
<1>8. Recomputing(c)' /\ Writing(c)' /\ Answering(c)'
  BY <1>3, <1>6 DEF Recomputing, Writing, Answering, At, Is, Rebuild
<1>9. ~Due(c) /\ Judged(c)' /\ ~Taking(c)' /\ ~Taking(c)
  <2>1. Judged(c)' /\ ~Taking(c)'
    BY <1>3, <1>6 DEF Judged, Taking, Is, Recompute
  <2> QED BY <1>5, <2>1, IdleIsNowhere
<1> QED BY <1>3, <1>5, <1>6, <1>7, <1>8, <1>9, VotesRead DEF Point, Consenting

LEMMA VoterFields ==
    ASSUME Votes, NEW c \in Caller, ~Idle(c)
    PROVE  /\ calls[c] \in Call /\ calls[c].op \in {"accept", "confirm"} /\ calls[c].pc \in PC
           /\ calls[c].who \in Address
BY BusyCall, CallFields DEF Votes, Called, Consenting

\* A voter that stops, before it has changed its row or when its status is recomputed.
LEMMA VoterEnds ==
    ASSUME Votes, NEW c \in Caller, End(c), UNCHANGED rows,
           past # "failed" => ~(Due(c) /\ group.status = "confirming" /\ AllConfirmed),
           ~Taking(c)
    PROVE  Votes'
<1>1. Turn(c, NoCall) /\ Idle(c)'
  BY Ending DEF Votes, Called
<1>2. Staged(c)' /\ Point(c)' /\ Judged(c)' /\ ~Taking(c)'
  BY <1>1, IdleIsNowhereNext
<1> QED BY <1>1, <1>2, VotesRead

\* A voter goes on: what it knows of its invitation stays with it.
LEMMA VoterPoint ==
    ASSUME Votes, NEW c \in Caller, ~Idle(c), NEW k \in Call, Turn(c, k),
           k.op = calls[c].op, k.who = calls[c].who, k.nr = calls[c].nr, k.to = calls[c].to,
           k.pc \in {"group", "members", "status", "save"}
               \/ (k.pc = "answer" /\ k.op = "accept"),
           \A a \in Address : DOMAIN invite'[a] = DOMAIN invite[a]
                                  /\ Len(invite'[a]) = Len(invite[a]),
           Saving(c)',
           k.pc \in {"members", "status"} =>
               k.grp \in Group /\ group'.status \in Voting /\ k.grp.status \in Voting
    PROVE  Staged(c)' /\ Point(c)' /\ k.op \in Consenting
<1>1. calls[c].op \in {"accept", "confirm"} /\ calls'[c] = k /\ calls[c].who \in Address
      /\ calls[c].pc \in PC
  BY VoterFields DEF Turn
<1>2. Staged(c)' /\ Editing(c)' /\ Writing(c)'
  BY <1>1 DEF Staged, Editing, Writing, At, Is, Recompute, Rebuild
<1>3. Recomputing(c)'
  BY <1>1 DEF Recomputing, At, Is, Consenting, Rebuild
<1>4. Answering(c)'
  BY <1>1 DEF Votes, Point, Answering, At, Is
<1> QED BY <1>1, <1>2, <1>3, <1>4 DEF Point, Consenting

LEMMA FindMemberVotes ==
    ASSUME Votes, NEW c \in Caller, FindMember(c)
    PROVE  Votes'
<1> DEFINE r == row[calls[c].who]
           op == calls[c].op
           k == [calls[c] EXCEPT !.pc = IF op = "remove" THEN "delete" ELSE "save",
                                 !.mem = Amended(r, op)]
<1>1. At(c, "find") /\ UNCHANGED rows /\ row' = row /\ invite' = invite
  BY DEF FindMember, rows, db
<1>2. ~Idle(c)
  BY <1>1, PointIsBusy DEF At, PC
<1>3. calls[c] \in Call /\ op \in {"accept", "confirm"} /\ calls[c].who \in Address
  BY <1>2, VoterFields
<1>4. ~Due(c) /\ ~Taking(c)
  BY <1>1 DEF Due, Taking, At, Is, Recompute
<1>5. CASE End(c)
  BY <1>1, <1>4, <1>5, VoterEnds
<1>6. CASE ~End(c)
  <2>1. r # None /\ calls' = [calls EXCEPT ![c] = k]
    BY <1>3, <1>6 DEF FindMember
  <2>2. r \in Row
    BY <1>3, <2>1 DEF Votes, Stored
  <2>3. op = "confirm" => r.token
    BY <1>1 DEF Votes, Point, Saving, At, Is
  <2>4. /\ Amended(r, op) \in Row /\ Amended(r, op).id = r.id
        /\ Amended(r, op).percent = r.percent /\ Amended(r, op).confirmed
        /\ Amended(r, op).token
    <3>1. CASE op = "accept"
      <4>1. Amended(r, op) = [r EXCEPT !.token = TRUE, !.confirmed = TRUE]
        BY <3>1 DEF Amended
      <4> QED BY <4>1, <2>2 DEF Row
    <3>2. CASE op = "confirm"
      <4>1. Amended(r, op) = [r EXCEPT !.confirmed = TRUE]
        BY <3>2 DEF Amended
      <4> QED BY <3>2, <4>1, <2>2, <2>3 DEF Row
    <3> QED BY <1>3, <3>1, <3>2
  <2> HIDE DEF r
  <2>5. /\ k \in Call /\ k.op = calls[c].op /\ k.who = calls[c].who /\ k.nr = calls[c].nr
        /\ k.to = calls[c].to /\ k.pc = "save" /\ k.mem = Amended(r, op)
    BY <1>3, <2>4 DEF Call, PC
  <2> HIDE DEF k
  <2>6. Turn(c, k) /\ calls'[c] = k
    BY <2>1, <2>5, Turns DEF Votes, Called, Turn
  <2>7. Saving(c)'
    BY <1>1, <1>3, <2>1, <2>3, <2>4, <2>5, <2>6 DEF Saving, At, Is, Consenting, r
  <2>8. Staged(c)' /\ Point(c)' /\ k.op \in Consenting
    BY <1>1, <1>2, <2>5, <2>6, <2>7, VoterPoint
  <2>9. Judged(c)' /\ ~Taking(c)'
    BY <2>5, <2>6 DEF Judged, Taking, Is, Recompute
  <2> QED BY <1>1, <1>4, <2>6, <2>8, <2>9, VotesRead
<1> QED BY <1>5, <1>6

\* What follows the recomputed status of a voter.
LEMMA VotesOnward ==
    ASSUME Votes, NEW c \in Caller, calls[c].pc \in Recompute, Onward(c), UNCHANGED rows,
           past # "failed" => ~(Due(c) /\ group.status = "confirming" /\ AllConfirmed)
    PROVE  Votes'
<1>1. ~Idle(c)
  BY PointIsBusy DEF Recompute, PC
<1>2. calls[c] \in Call /\ calls[c].op \in {"accept", "confirm"}
  BY <1>1, VoterFields
<1>3. invite' = invite
  BY DEF rows, db
<1>4. ASSUME calls[c].op = "accept", NEW k \in Call, Turn(c, k), k.pc = "answer",
             k.op = calls[c].op, k.who = calls[c].who, k.nr = calls[c].nr, k.to = calls[c].to
      PROVE  Votes'
  <2>1. calls'[c] = k
    BY <1>4 DEF Turn
  <2>2. Saving(c)'
    BY <1>4, <2>1 DEF Saving, At, Is
  <2>3. Staged(c)' /\ Point(c)' /\ k.op \in Consenting
    BY <1>1, <1>3, <1>4, <2>2, VoterPoint
  <2>4. Judged(c)' /\ Taking(c) /\ Taking(c)'
    BY <1>4, <2>1 DEF Judged, Taking, Is, Recompute
  <2> QED BY <1>4, <2>3, <2>4, VotesRead
<1>5. ASSUME calls[c].op = "confirm", End(c) PROVE Votes'
  <2>1. ~Taking(c)
    BY <1>5 DEF Taking, Is
  <2> QED BY <1>5, <2>1, VoterEnds
<1> QED BY <1>1, <1>2, <1>4, <1>5, OnwardTurn DEF Votes, Called

LEMMA RecomputeGroupVotes ==
    ASSUME Votes, NEW c \in Caller, RecomputeGroup(c)
    PROVE  Votes'
<1>1. /\ At(c, "group") /\ calls[c].pc \in Recompute /\ UNCHANGED rows /\ group' = group
      /\ row' = row /\ invite' = invite /\ past' = past
  BY DEF RecomputeGroup, At, Recompute, rows, db
<1>2. ~Idle(c)
  BY <1>1, PointIsBusy DEF Recompute, PC
<1>3. calls[c] \in Call /\ calls[c].op \in {"accept", "confirm"}
  BY <1>2, VoterFields
<1>4. CASE group.status \in Voting
  <2> DEFINE k == [calls[c] EXCEPT !.pc = "members", !.grp = group]
  <2>1. /\ k \in Call /\ k.pc = "members" /\ k.op = calls[c].op /\ k.who = calls[c].who
        /\ k.nr = calls[c].nr /\ k.to = calls[c].to /\ k.grp = group /\ group \in Group
    BY <1>3 DEF Call, PC, Votes, Stored
  <2>2. calls' = [calls EXCEPT ![c] = k]
    BY <1>4 DEF RecomputeGroup, Voting
  <2> HIDE DEF k
  <2>3. Turn(c, k) /\ calls'[c] = k
    BY <2>1, <2>2, Turns DEF Votes, Called, Turn
  <2>4. Saving(c)'
    BY <2>1, <2>3 DEF Saving, At, Is
  <2>5. Staged(c)' /\ Point(c)' /\ k.op \in Consenting
    BY <1>1, <1>2, <1>4, <2>1, <2>3, <2>4, VoterPoint
  <2>6. past # "failed" => Judged(c)'
    <3>1. AllConfirmed' = AllConfirmed
      BY <1>1, ReadsFrame
    <3>2. past # "failed" /\ group.status = "ready" => AllConfirmed
      BY DEF Votes, Agreed
    <3> QED BY <2>1, <2>3, <3>1, <3>2 DEF Judged, Is
  <2>7. group.status = "confirming" => Due(c)'
    BY <1>3, <2>1, <2>3 DEF Due, Is, Consenting
  <2>8. (Taking(c) <=> Taking(c)')
    BY <1>1, <1>3, <2>1, <2>3 DEF Taking, Is, At, Recompute
  <2> QED BY <1>1, <2>1, <2>3, <2>5, <2>6, <2>7, <2>8, VotesRead
<1>5. CASE group.status \notin Voting
  <2>1. Onward(c)
    BY <1>5 DEF RecomputeGroup, Voting
  <2>2. group.status # "confirming"
    BY <1>5 DEF Voting
  <2> QED BY <1>1, <2>1, <2>2, VotesOnward
<1> QED BY <1>4, <1>5

LEMMA RecomputeMembersVotes ==
    ASSUME Votes, NEW c \in Caller, RecomputeMembers(c)
    PROVE  Votes'
<1> DEFINE target == IF Joined # {} /\ \A a \in Joined : row[a].confirmed
                     THEN "ready" ELSE "confirming"
<1>1. /\ At(c, "members") /\ calls[c].pc \in Recompute /\ UNCHANGED rows /\ group' = group
      /\ row' = row /\ invite' = invite /\ past' = past
  BY DEF RecomputeMembers, At, Recompute, rows, db
<1>2. ~Idle(c)
  BY <1>1, PointIsBusy DEF Recompute, PC
<1>3. calls[c] \in Call /\ calls[c].op \in {"accept", "confirm"}
  BY <1>2, VoterFields
<1>4. calls[c].grp \in Group /\ group.status \in Voting /\ calls[c].grp.status \in Voting
  BY <1>1 DEF Votes, Point, Recomputing
<1>5. (target = "ready" <=> AllConfirmed) /\ target \in Voting
  BY <1>4, TargetSaysWho DEF Votes, Voting
<1>6. past # "failed" => (calls[c].grp.status = "ready" => AllConfirmed)
  BY <1>1, <1>3 DEF Votes, Agreed, Judged, Is, At, Consenting
<1>0. Due(c) => calls[c].grp.status = "confirming"
  BY <1>1 DEF Due, Is, At
<1>7. CASE calls[c].grp.status = target
  <2>1. Onward(c)
    BY <1>7 DEF RecomputeMembers
  <2>2. ~(Due(c) /\ AllConfirmed)
    <3>1. AllConfirmed => calls[c].grp.status = "ready"
      BY <1>5, <1>7
    <3> QED BY <1>0, <3>1
  <2> QED BY <1>1, <2>1, <2>2, VotesOnward
<1>8. CASE calls[c].grp.status # target
  <2> DEFINE k == [calls[c] EXCEPT !.pc = "status", !.grp.status = target]
  <2>0. calls' = [calls EXCEPT ![c] = k]
    BY <1>8 DEF RecomputeMembers
  <2>9. target \in Status
    BY <1>5 DEF Voting, Status
  <2> HIDE DEF target
  <2>1. /\ k \in Call /\ k.pc = "status" /\ k.op = calls[c].op /\ k.who = calls[c].who
        /\ k.nr = calls[c].nr /\ k.to = calls[c].to /\ k.grp \in Group /\ k.grp.status = target
    BY <1>3, <1>4, <2>9 DEF Call, PC, Group
  <2> HIDE DEF k
  <2>3. Turn(c, k) /\ calls'[c] = k
    BY <2>0, <2>1, Turns DEF Votes, Called, Turn
  <2>4. Saving(c)'
    BY <2>1, <2>3 DEF Saving, At, Is
  <2>5. Staged(c)' /\ Point(c)' /\ k.op \in Consenting
    BY <1>1, <1>2, <1>4, <1>5, <2>1, <2>3, <2>4, VoterPoint
  <2>6. past # "failed" => Judged(c)'
    <3>1. AllConfirmed' = AllConfirmed
      BY <1>1, ReadsFrame
    <3>2. past # "failed" => target = "ready" /\ AllConfirmed
      BY <1>4, <1>5, <1>6, <1>8 DEF Voting
    <3> QED BY <2>1, <2>3, <3>1, <3>2 DEF Judged, Is
  <2>7. AllConfirmed => Due(c)'
    BY <1>3, <1>5, <2>1, <2>3 DEF Due, Is, Consenting
  <2>8. (Taking(c) <=> Taking(c)')
    BY <1>1, <1>3, <2>1, <2>3 DEF Taking, Is, At, Recompute
  <2> QED BY <1>1, <2>1, <2>3, <2>5, <2>6, <2>7, <2>8, VotesRead
<1> QED BY <1>7, <1>8

\* A voter's own row is settled again when the others have all they had.
LEMMA AgreedSame ==
    ASSUME Agreed, NEW c \in Caller, past' = past, group' = group,
           AllConfirmed => AllConfirmed', \A d \in Caller : d # c => calls'[d] = calls[d],
           Judged(c)',
           past # "failed" /\ group.status = "confirming" =>
               Due(c)' \/ (~Due(c) /\ (AllConfirmed' => AllConfirmed))
    PROVE  Agreed'
<1> SUFFICES ASSUME past' # "failed" PROVE Agreed'
  BY DEF Agreed
<1>1. /\ group.status = "ready" => AllConfirmed
      /\ group.status = "confirming" /\ AllConfirmed => \E d \in Caller : Due(d)
      /\ \A d \in Caller : Judged(d)
  BY DEF Agreed
<1>2. \A d \in Caller : Judged(d)'
  BY <1>1, OthersSame
<1>3. ASSUME group.status = "confirming", AllConfirmed' PROVE \E d \in Caller : Due(d)'
  <2>1. CASE Due(c)'
    BY <2>1
  <2>2. CASE ~Due(c)'
    <3>1. ~Due(c) /\ AllConfirmed
      BY <1>3, <2>2
    <3>2. PICK d \in Caller : Due(d)
      BY <1>1, <1>3, <3>1
    <3>3. Due(d)'
      BY <3>1, <3>2, OthersSame
    <3> QED BY <3>3
  <2> QED BY <2>1, <2>2
<1> QED BY <1>1, <1>2, <1>3 DEF Agreed

LEMMA TakenSame ==
    ASSUME Taken, NEW c \in Caller, row' = row, invite' = invite, past' = past,
           \A d \in Caller : d # c => calls'[d] = calls[d],
           Taking(c)' => Taking(c), Taking(c) => Taking(c)' /\ calls'[c].who = calls[c].who
    PROVE  Taken'
<1> SUFFICES ASSUME past' = "clean" PROVE Taken'
  BY DEF Taken
<1>1. Joined' = Joined /\ Joined \subseteq Address /\ \A a \in Address : Accepted(a)' = Accepted(a)
  BY DEF Joined, Accepted
<1>2. \A d \in Caller : /\ Taking(d)' => Taking(d)
                        /\ Taking(d) => Taking(d)' /\ calls'[d].who = calls[d].who
  BY OthersSame
<1>3. /\ \A d \in Caller : Taking(d) => row[calls[d].who] # None /\ row[calls[d].who].token
      /\ \A a \in Joined \ {Admin} : (\A d \in Caller : Taking(d) => calls[d].who # a) =>
             (row[a].token <=> Accepted(a))
  BY DEF Taken
<1>4. \A d \in Caller : (Taking(d) => row[calls[d].who] # None /\ row[calls[d].who].token)'
  BY <1>2, <1>3
<1>5. ASSUME NEW a \in Joined' \ {Admin}, (\A d \in Caller : Taking(d) => calls[d].who # a)'
      PROVE  row'[a].token <=> Accepted(a)'
  <2>1. \A d \in Caller : Taking(d) => calls[d].who # a
    BY <1>2, <1>5
  <2> QED BY <1>1, <1>3, <2>1
<1> QED BY <1>4, <1>5 DEF Taken

LEMMA RecomputeSaveVotes ==
    ASSUME Votes, NEW c \in Caller, RecomputeSave(c)
    PROVE  Votes'
<1>1. At(c, "status") /\ calls[c].pc \in Recompute
  BY DEF RecomputeSave, At, Recompute
<1>2. ~Idle(c)
  BY <1>1, PointIsBusy DEF Recompute, PC
<1>3. calls[c] \in Call /\ calls[c].op \in {"accept", "confirm"}
  BY <1>2, VoterFields
<1>4. calls[c].grp \in Group /\ group.status \in Voting /\ calls[c].grp.status \in Voting
  BY <1>1 DEF Votes, Point, Recomputing
<1>5. past # "failed" => calls[c].grp.status = "ready" /\ AllConfirmed
  BY <1>1, <1>3 DEF Votes, Agreed, Judged, Is, At, Consenting
<1>6. /\ group' = calls[c].grp /\ route' = calls[c].grp.status
      /\ row' = row /\ adds' = adds /\ invite' = invite /\ token' = token
      /\ known' = known /\ UNCHANGED mine /\ past' = past /\ Onward(c)
  BY DEF RecomputeSave
<1>7. group'.status \in Voting /\ group'.status \in Status /\ group'.status # "dissolved"
      /\ group.status # "dissolved"
  BY <1>4, <1>6 DEF Voting, Status
<1>8. Stored' /\ Invites' /\ Gentle
  BY <1>4, <1>6, <1>7 DEF Votes, Stored, Invites, Gentle
<1>9. Standing' /\ PayInv'
  <2>1. token
    BY <1>4 DEF Votes, Standing, Voting
  <2>2. PayInv'
    BY <1>4, <1>6, PayBefore DEF Votes, Voting
  <2> QED BY <1>6, <1>7, <2>1, <2>2 DEF Votes, Standing, Voting
<1>10. Joined' = Joined /\ AllConfirmed' = AllConfirmed
  BY <1>6 DEF Joined, AllConfirmed
<1>11. Fresh'
  <2>1. route' # None
    BY <1>6, <1>7, NoneAssumption
  <2> QED BY <1>6, <1>7, <1>10, <2>1 DEF Votes, Fresh, RouteKept, KnownKept
<1>12. ASSUME NEW k, Turn(c, k), Judged(c)' PROVE Agreed'
  <2>1. past # "failed" => \A d \in Caller : Judged(d)
    BY DEF Votes, Agreed
  <2>2. \A d \in Caller : d # c => calls'[d] = calls[d]
    BY <1>12 DEF Turn
  <2>3. past # "failed" => \A d \in Caller : Judged(d)'
    BY <1>10, <1>12, <2>1, <2>2, OthersSame
  <2> QED BY <1>5, <1>6, <1>10, <2>3 DEF Agreed
<1>13. ASSUME calls[c].op = "accept", NEW k \in Call, Turn(c, k), k.pc = "answer",
              k.op = calls[c].op, k.who = calls[c].who, k.nr = calls[c].nr, k.to = calls[c].to
       PROVE  Votes'
  <2>1. calls'[c] = k /\ \A d \in Caller : d # c => calls'[d] = calls[d]
    BY <1>13 DEF Turn
  <2>2. Saving(c)'
    BY <1>13, <2>1 DEF Saving, At, Is
  <2>3. Staged(c)' /\ Point(c)' /\ k.op \in Consenting
    BY <1>2, <1>6, <1>13, <2>2, VoterPoint
  <2>4. Judged(c)' /\ Taking(c) /\ Taking(c)'
    BY <1>1, <1>13, <2>1 DEF Judged, Taking, Is, Recompute
  <2>5. Agreed' /\ Taken'
    BY <1>6, <1>12, <1>13, <2>1, <2>4, TakenSame DEF Votes
  <2> QED BY <1>8, <1>9, <1>11, <1>13, <2>3, <2>5, VotesStep
<1>14. ASSUME calls[c].op = "confirm", End(c) PROVE Votes'
  <2>1. Turn(c, NoCall) /\ Idle(c)'
    BY <1>14, Ending DEF Votes, Called
  <2>2. Staged(c)' /\ Point(c)' /\ Judged(c)' /\ ~Taking(c)'
    BY <2>1, IdleIsNowhereNext
  <2>3. ~Taking(c) /\ \A d \in Caller : d # c => calls'[d] = calls[d]
    BY <1>14, <2>1 DEF Taking, Is, Turn
  <2>4. Agreed' /\ Taken'
    BY <1>6, <1>12, <2>1, <2>2, <2>3, TakenSame DEF Votes
  <2> QED BY <1>8, <1>9, <1>11, <2>1, <2>2, <2>4, VotesStep
<1> QED BY <1>2, <1>3, <1>6, <1>13, <1>14, OnwardTurn DEF Votes, Called

LEMMA SaveMemberVotes ==
    ASSUME Votes, NEW c \in Caller, SaveMember(c)
    PROVE  Votes'
<1>1. At(c, "save") /\ ~Idle(c)
  BY PointIsBusy DEF SaveMember, At, PC
<1>2. calls[c] \in Call /\ calls[c].op \in {"accept", "confirm"} /\ calls[c].op \in Consenting
  BY <1>1, VoterFields DEF Consenting
<1>3. Stored /\ Saving(c)
  BY DEF Votes, Point
<1>0. PICK a \in Address : a = calls[c].who
  BY <1>2, CallFields
<1>4. /\ Forget(c, "group")
      /\ group' = group /\ invite' = invite /\ adds' = adds /\ token' = token
      /\ route' = route /\ known' = known /\ UNCHANGED mine /\ past' = past
      /\ Stored' /\ Joined' = Joined /\ Splits' = Splits
      /\ \A b \in Address : /\ row'[b] = None <=> row[b] = None
                            /\ b # a => row'[b] = row[b]
                            /\ row[b] # None => /\ row'[b].id = row[b].id
                                                /\ row'[b].percent = row[b].percent
      /\ row[a] # None /\ row'[a].token /\ row'[a].confirmed
  BY <1>0, <1>2, <1>3, SavedRow
<1>5. Standing' /\ Invites' /\ PayInv' /\ Gentle
  <2>1. Admin \in Address
    BY DEF Address
  <2> QED BY <1>4, <2>1, PaySame DEF Votes, Standing, Invites, Gentle
<1>6. AllConfirmed => AllConfirmed'
  <2>1. ASSUME AllConfirmed, NEW b \in Joined PROVE row'[b].confirmed
    <3>1. b \in Address /\ row[b].confirmed
      BY <2>1 DEF AllConfirmed, Joined
    <3> QED BY <1>4, <3>1
  <2> QED BY <1>4, <2>1 DEF AllConfirmed
<1>7. "group" \in PC
  BY DEF PC
<1>8. PICK k \in Call : /\ Turn(c, k) /\ k.pc = "group" /\ k.op = calls[c].op /\ k.who = a
                        /\ k.nr = calls[c].nr /\ k.to = calls[c].to
  BY <1>0, <1>1, <1>4, <1>7, Forgetting DEF Votes, Called
<1>9. calls'[c] = k /\ \A d \in Caller : d # c => calls'[d] = calls[d]
  BY <1>8 DEF Turn
<1>10. Saving(c)' /\ Judged(c)' /\ Due(c)'
  BY <1>2, <1>8, <1>9 DEF Saving, Judged, Due, At, Is
<1>11. Staged(c)' /\ Point(c)' /\ k.op \in Consenting
  BY <1>0, <1>1, <1>4, <1>8, <1>10, VoterPoint
<1>12. Fresh'
  BY <1>4 DEF Votes, Fresh, RouteKept, KnownKept
<1>13. Agreed'
  BY <1>4, <1>6, <1>9, <1>10, AgreedSame DEF Votes
<1>14. Taken'
  <2> SUFFICES ASSUME past' = "clean" PROVE Taken'
    BY DEF Taken
  <2>1. /\ \A d \in Caller : Taking(d) => row[calls[d].who] # None /\ row[calls[d].who].token
        /\ \A b \in Joined \ {Admin} : (\A d \in Caller : Taking(d) => calls[d].who # b) =>
               (row[b].token <=> Accepted(b))
    BY <1>4 DEF Votes, Taken
  <2>2. /\ ~Taking(c) /\ (Taking(c)' <=> k.op = "accept")
        /\ \A d \in Caller : d # c => /\ Taking(d)' = Taking(d) /\ calls'[d].who = calls[d].who
    BY <1>1, <1>8, <1>9, OthersSame DEF Taking, Is, At, Recompute
  <2>3. \A b \in Address : row[b] # None /\ row[b].token => row'[b] # None /\ row'[b].token
    BY <1>4
  <2>4. ASSUME NEW d \in Caller, Taking(d)'
        PROVE  row'[calls'[d].who] # None /\ row'[calls'[d].who].token
    <3>1. CASE d = c
      BY <1>4, <1>8, <1>9, <3>1
    <3>2. CASE d # c
      <4>1. Taking(d) /\ calls'[d].who = calls[d].who
        BY <2>2, <2>4, <3>2
      <4>2. calls[d].who \in Address
        BY <4>1, IdleIsNowhere, VoterFields
      <4> QED BY <2>1, <2>3, <4>1, <4>2
    <3> QED BY <3>1, <3>2
  <2>5. ASSUME NEW b \in Joined' \ {Admin}, (\A d \in Caller : Taking(d) => calls[d].who # b)'
        PROVE  row'[b].token <=> Accepted(b)'
    <3>1. \A d \in Caller : Taking(d) => calls[d].who # b
      BY <2>2, <2>5
    <3>2. b \in Address /\ (row[b].token <=> Accepted(b)) /\ Accepted(b)' = Accepted(b)
      BY <1>4, <2>1, <3>1 DEF Joined, Accepted
    <3>3. row'[b].token <=> row[b].token
      <4>1. CASE b # a
        BY <1>4, <3>2, <4>1
      <4>2. CASE b = a
        <5>1. calls[c].op = "confirm"
          BY <1>2, <1>8, <1>9, <2>2, <2>5, <4>2
        <5>2. row[a].token
          BY <1>0, <1>1, <1>3, <5>1 DEF Saving, At, Is
        <5> QED BY <1>4, <4>2, <5>2
      <4> QED BY <4>1, <4>2
    <3> QED BY <3>2, <3>3
  <2> QED BY <2>4, <2>5 DEF Taken
<1> QED BY <1>4, <1>5, <1>8, <1>11, <1>12, <1>13, <1>14, VotesStep

LEMMA AnswerVotes ==
    ASSUME Votes, NEW c \in Caller, Answer(c)
    PROVE  Votes'
<1>1. At(c, "answer") /\ ~Idle(c)
  BY PointIsBusy DEF Answer, At, PC
<1>2. calls[c] \in Call /\ calls[c].op = "accept" /\ calls[c].pc \in PC
  BY <1>1, VoterFields DEF Votes, Called, Staged
<1>0. PICK a \in Address : a = calls[c].who
  BY <1>2, CallFields
<1>3. PICK n \in DOMAIN invite[a] : n = calls[c].nr /\ n = Len(invite[a])
  BY <1>0, <1>2 DEF Votes, Point, Answering, Is
<1>4. /\ group' = group /\ row' = row /\ adds' = adds /\ token' = token
      /\ UNCHANGED <<cache, mine>> /\ past' = past /\ End(c)
      /\ invite' = [invite EXCEPT ![a][n] = "accepted"]
      /\ route' = route /\ known' = known
  <2>1. calls[c].to = "accepted"
    BY <1>2 DEF Votes, Point, Answering, Is
  <2> QED BY <1>0, <1>3, <2>1 DEF Answer, cache
<1> DEFINE s == [invite[a] EXCEPT ![n] = "accepted"]
<1>5. invite[a] \in Seq(Invite) /\ "accepted" \in Invite
  BY DEF Votes, Stored, Invite
<1>6. /\ s \in Seq(Invite) /\ Len(s) = Len(invite[a]) /\ s[Len(s)] = "accepted"
      /\ DOMAIN s = DOMAIN invite[a] /\ s # <<>>
      /\ \A i \in DOMAIN s : i # Len(s) => s[i] = invite[a][i]
  BY <1>3, <1>5
<1>7. invite' = [invite EXCEPT ![a] = s]
  BY <1>4
<1> HIDE DEF s
<1>8. invite'[a] = s /\ \A b \in Address : b # a => invite'[b] = invite[b]
  BY <1>7 DEF Votes, Stored
<1>9. Stored'
  BY <1>4, <1>6, <1>7 DEF Votes, Stored
<1>10. Gentle
  BY <1>4, <1>6, <1>8 DEF Gentle
<1>11. Standing' /\ Invites'
  <2>1. \A i \in DOMAIN s : i # Len(s) => s[i] \notin Open
    BY <1>6 DEF Votes, Invites
  <2> QED BY <1>4, <1>8, <2>1 DEF Votes, Standing, Invites
<1>12. Joined' = Joined /\ Splits' = Splits /\ AllConfirmed' = AllConfirmed
  BY <1>4 DEF Joined, Splits, AllConfirmed
<1>13. PayInv' /\ Fresh'
  BY <1>4, <1>12, PaySame DEF Votes, Fresh, RouteKept, KnownKept
<1>14. Turn(c, NoCall) /\ Idle(c)'
  BY <1>4, Ending DEF Votes, Called
<1>15. Staged(c)' /\ Point(c)' /\ Judged(c)' /\ ~Taking(c)' /\ ~Due(c)
  BY <1>1, <1>14, IdleIsNowhereNext DEF Due, Is, At
<1>16. \A d \in Caller : d # c => calls'[d] = calls[d]
  BY <1>14 DEF Turn
<1>17. Agreed'
  BY <1>4, <1>12, <1>15, <1>16, AgreedSame DEF Votes
<1>18. Taken'
  <2> SUFFICES ASSUME past' = "clean" PROVE Taken'
    BY DEF Taken
  <2>1. /\ \A d \in Caller : Taking(d) => row[calls[d].who] # None /\ row[calls[d].who].token
        /\ \A b \in Joined \ {Admin} : (\A d \in Caller : Taking(d) => calls[d].who # b) =>
               (row[b].token <=> Accepted(b))
    BY <1>4 DEF Votes, Taken
  <2>2. \A d \in Caller : d # c => /\ Taking(d)' = Taking(d) /\ calls'[d].who = calls[d].who
    BY <1>16, OthersSame
  <2>3. Taking(c)
    BY <1>1, <1>2 DEF Taking, Is, At
  <2>4. \A d \in Caller : (Taking(d) => row[calls[d].who] # None /\ row[calls[d].who].token)'
    BY <1>4, <1>15, <2>1, <2>2
  <2>5. ASSUME NEW b \in Joined' \ {Admin}, (\A d \in Caller : Taking(d) => calls[d].who # b)'
        PROVE  row'[b].token <=> Accepted(b)'
    <3>1. CASE b = a
      <4>1. row[a].token
        BY <1>0, <2>1, <2>3
      <4>2. Accepted(a)'
        BY <1>6, <1>8 DEF Accepted, Last
      <4> QED BY <1>4, <3>1, <4>1, <4>2
    <3>2. CASE b # a
      <4>1. \A d \in Caller : Taking(d) => calls[d].who # b
        BY <1>0, <2>2, <2>5, <3>2
      <4>2. b \in Address /\ Accepted(b)' = Accepted(b)
        BY <1>8, <1>12, <3>2 DEF Joined, Accepted
      <4> QED BY <1>4, <1>12, <2>1, <4>1, <4>2
    <3> QED BY <3>1, <3>2
  <2> QED BY <2>4, <2>5 DEF Taken
<1> QED BY <1>9, <1>10, <1>11, <1>13, <1>14, <1>15, <1>17, <1>18, VotesStep

-------------------------------------------------------------------------------
(* Shares that overlap. *)

Signed  == past # "failed" => SignedOff
Matched == past = "clean" => \A a \in Joined \ {Admin} : row[a].token <=> Accepted(a)

\* The invariant when every handler counts a share.
Sharing ==
    /\ Stored /\ Called /\ Standing /\ Invites /\ PayInv
    /\ \A c \in Caller : Point(c) /\ (~Idle(c) => calls[c].op = "share")
    /\ Fresh /\ Signed /\ Matched

LEMMA SharersElse ==
    ASSUME NEW c \in Caller, Idle(c) \/ calls[c].op = "share"
    PROVE  /\ ~Dissolving(c) /\ ~Behind(c) /\ ~Owing(c) /\ ~Asking(c)
           /\ ~Taking(c) /\ ~Due(c) /\ Judged(c)
<1>1. CASE Idle(c)
  BY <1>1, IdleIsNowhere
<1>2. CASE calls[c].op = "share"
  BY <1>2 DEF Consenting, Dissolving, Behind, Owing, Asking, Taking, Due, Judged, Is
<1> QED BY <1>1, <1>2

LEMMA SharersElseNext ==
    ASSUME NEW c \in Caller, Idle(c)' \/ calls'[c].op = "share"
    PROVE  /\ ~Dissolving(c)' /\ ~Behind(c)' /\ ~Owing(c)' /\ ~Asking(c)'
           /\ ~Taking(c)' /\ ~Due(c)' /\ Judged(c)'
<1>1. CASE Idle(c)'
  BY <1>1, IdleIsNowhereNext
<1>2. CASE calls'[c].op = "share"
  BY <1>2 DEF Consenting, Dissolving, Behind, Owing, Asking, Taking, Due, Judged, Is
<1> QED BY <1>1, <1>2

LEMMA SharingOfInv ==
    ASSUME IInv, \A d \in Caller : Idle(d) \/ calls[d].op = "share"
    PROVE  Sharing
<1>1. \A d \in Caller : /\ ~Dissolving(d) /\ ~Behind(d) /\ ~Owing(d) /\ ~Asking(d)
                        /\ ~Taking(d) /\ ~Due(d)
  BY SharersElse
<1>2. Fresh
  BY <1>1 DEF IInv, CacheInv, Fresh
<1>3. Signed
  BY <1>1 DEF IInv, ConsentInv, Signed, SignedOff, Voting
<1>4. Matched
  BY <1>1 DEF IInv, TokenInv, Matched
<1> QED BY <1>2, <1>3, <1>4 DEF IInv, Sharing

LEMMA InvOfSharing ==
    ASSUME Sharing'
    PROVE  IInv'
<1>0. \A d \in Caller : Idle(d)' \/ calls'[d].op = "share"
  BY DEF Sharing
<1>1. \A d \in Caller : /\ ~Dissolving(d)' /\ ~Behind(d)' /\ ~Owing(d)' /\ ~Asking(d)'
                        /\ ~Taking(d)' /\ ~Due(d)' /\ Judged(d)'
  BY <1>0, SharersElseNext
<1>2. CacheInv'
  BY <1>1 DEF Sharing, CacheInv, Fresh
<1>3. ConsentInv'
  <2> SUFFICES ASSUME past' # "failed" PROVE ConsentInv'
    BY DEF ConsentInv
  <2>1. SignedOff'
    BY DEF Sharing, Signed
  <2>2. (group.status = "ready" => AllConfirmed)'
        /\ ~(group.status = "confirming" /\ AllConfirmed)'
    BY <2>1 DEF SignedOff, Voting
  <2> QED BY <1>1, <2>2 DEF ConsentInv
<1>4. TokenInv'
  <2> SUFFICES ASSUME past' = "clean" PROVE TokenInv'
    BY DEF TokenInv
  <2>1. Matched'
    BY DEF Sharing
  <2> QED BY <1>1, <2>1 DEF TokenInv, Matched
<1>5. Apart'
  BY <1>0 DEF Apart, Tame, Idle
<1>6. Called' /\ (\A d \in Caller : Point(d))'
  BY DEF Sharing
<1> QED BY <1>2, <1>3, <1>4, <1>5, <1>6 DEF Sharing, IInv

\* What one share leaves of what another knows.
LEMMA SharerStands ==
    ASSUME Sharing, NEW d \in Caller, calls'[d] = calls[d], group'.status \in Routable \/ Idle(d)
    PROVE  Staged(d)' /\ Point(d)' /\ (~Idle(d)' => calls'[d].op = "share")
<1>1. CASE Idle(d)
  <2>1. Idle(d)'
    BY <1>1 DEF Idle
  <2> QED BY <2>1, IdleIsNowhereNext
<1>2. CASE ~Idle(d)
  <2>1. calls[d].op = "share" /\ calls[d].pc = "write"
    <3>1. calls[d] \in Call /\ calls[d].pc \in PC
      BY <1>2, BusyCall, CallFields DEF Sharing, Called
    <3> QED BY <1>2, <3>1 DEF Sharing, Called, Staged, At, Is
  <2>2. Staged(d)' /\ Editing(d)' /\ Saving(d)' /\ Answering(d)'
    BY <2>1 DEF Staged, Editing, Saving, Answering, At, Is, Recompute, Rebuild
  <2>3. Recomputing(d)' /\ Writing(d)'
    BY <1>2, <2>1 DEF Sharing, Point, Recomputing, Writing, At, Is, Rebuild
  <2> QED BY <2>1, <2>2, <2>3 DEF Point
<1> QED BY <1>1, <1>2

LEMMA ShareKeeps ==
    ASSUME IInv, Overlap = FALSE, NEW c \in Caller, Share(c)
    PROVE  Sharing'
<1> DEFINE k == [New("share", "write") EXCEPT !.grp =
                    [status |-> IF group.status = "ready" THEN "active" ELSE group.status,
                     recent |-> TRUE]]
<1>1. /\ Begin(c, k) /\ UNCHANGED <<db, token, cache, mine>>
      /\ route \in Routable /\ group.status # "dissolved"
  BY DEF Share
<1>2. group.status \in Routable
  BY <1>1 DEF IInv, Standing
<1>3. /\ k \in Call /\ k.pc = "write" /\ k.op = "share"
      /\ k.grp = [status |-> "active", recent |-> TRUE]
  <2>1. New("share", "write") \in Call /\ New("share", "write").op = "share"
        /\ New("share", "write").pc = "write"
    BY NewCall DEF Op, PC
  <2>2. (IF group.status = "ready" THEN "active" ELSE group.status) = "active"
    BY <1>2 DEF Routable
  <2>3. [status |-> "active", recent |-> TRUE] \in Group
    BY DEF Group, Status
  <2> QED BY <2>1, <2>2, <2>3 DEF Call
<1> HIDE DEF k
<1>4. /\ Idle(c) /\ Turn(c, k) /\ past' = past
      /\ \A d \in Caller : Idle(d) \/ Tame(k.op, calls[d].op)
  BY <1>1, <1>3, Beginning DEF IInv, Called
<1>5. Sharing
  BY <1>3, <1>4, SharingOfInv DEF Tame
<1>6. UNCHANGED rows /\ past' = past /\ token' = token /\ row' = row /\ group' = group
  BY <1>1, <1>4 DEF rows, db
<1>7. /\ Stored' /\ Standing' /\ Invites' /\ PayInv'
      /\ SignedOff' = SignedOff /\ RouteKept' = RouteKept /\ KnownKept' = KnownKept
      /\ Joined' = Joined /\ \A a \in Address : Accepted(a)' = Accepted(a)
  BY <1>5, <1>6, ReadsFrame DEF Sharing
<1>8. Fresh' /\ Signed'
  BY <1>5, <1>6, <1>7 DEF Sharing, Fresh, Signed
<1>9. Matched'
  <2>1. Joined \subseteq Address
    BY DEF Joined
  <2> QED BY <1>5, <1>6, <1>7, <2>1 DEF Sharing, Matched
<1>10. calls' \in [Caller -> {NoCall} \cup Call] /\ calls'[c] = k
       /\ \A d \in Caller : d # c => calls'[d] = calls[d]
  BY <1>4 DEF Turn
<1>11. Staged(c)' /\ Editing(c)' /\ Saving(c)' /\ Answering(c)'
  BY <1>3, <1>10 DEF Staged, Editing, Saving, Answering, At, Is, Recompute, Rebuild
<1>12. Recomputing(c)' /\ Writing(c)'
  BY <1>2, <1>3, <1>6, <1>10 DEF Recomputing, Writing, At, Is, Rebuild
<1>13. \A d \in Caller : Staged(d)' /\ Point(d)' /\ (~Idle(d)' => calls'[d].op = "share")
  <2>1. \A d \in Caller : d # c =>
            Staged(d)' /\ Point(d)' /\ (~Idle(d)' => calls'[d].op = "share")
    BY <1>2, <1>5, <1>6, <1>10, SharerStands
  <2> QED BY <1>3, <1>10, <1>11, <1>12, <2>1 DEF Point
<1> QED BY <1>7, <1>8, <1>9, <1>10, <1>13 DEF Sharing, Called

LEMMA WriteShareKeeps ==
    ASSUME IInv, NEW c \in Caller, calls[c].op = "share", WriteGroup(c)
    PROVE  Sharing'
<1>1. At(c, "write") /\ ~Idle(c)
  BY PointIsBusy DEF WriteGroup, At, PC
<1>2. Sharing
  <2>1. \A d \in Caller : d # c /\ ~Idle(d) => Tame(calls[c].op, calls[d].op)
    BY <1>1 DEF IInv, Apart
  <2> QED BY <2>1, SharingOfInv DEF Tame
<1>3. calls[c].grp = [status |-> "active", recent |-> TRUE] /\ group.status \in Routable
  BY <1>1 DEF IInv, Point, Writing, Is, At
<1>4. /\ group' = calls[c].grp /\ route' = "active" /\ known' = known /\ End(c)
      /\ row' = row /\ adds' = adds /\ invite' = invite /\ token' = token /\ UNCHANGED mine
      /\ past' = past
  BY <1>3 DEF WriteGroup
<1>5. group' \in Group /\ group'.status = "active" /\ group.status # "dissolved"
      /\ "active" \in Status
  BY <1>3, <1>4 DEF Group, Status, Routable
<1>6. Stored' /\ Invites'
  BY <1>4, <1>5 DEF Sharing, Stored, Invites, IInv
<1>7. Standing'
  <2>1. token
    BY <1>2, <1>3 DEF Sharing, Standing, Routable
  <2> QED BY <1>2, <1>4, <1>5, <2>1 DEF Sharing, Standing
<1>8. Joined' = Joined /\ Splits' = Splits
  BY <1>4 DEF Joined, Splits
<1>9. PayInv'
  <2>1. job' = job /\ booked' = booked
    BY <1>4 DEF mine
  <2> QED BY <1>2, <1>3, <1>5, <1>8, <2>1 DEF Sharing, PayInv, Routable
<1>10. Fresh'
  <2>1. route' # None
    BY <1>4, <1>5, NoneAssumption
  <2> QED BY <1>2, <1>4, <1>5, <1>8, <2>1 DEF Sharing, Fresh, RouteKept, KnownKept
<1>11. Signed' /\ Matched'
  <2>1. \A a \in Joined : Accepted(a)' = Accepted(a)
    BY <1>4 DEF Joined, Accepted
  <2> QED BY <1>2, <1>4, <1>5, <1>8, <2>1 DEF Sharing, Signed, SignedOff, Voting, Matched
<1>12. Turn(c, NoCall) /\ Idle(c)'
  BY <1>2, <1>4, Ending DEF Sharing, Called
<1>13. calls' \in [Caller -> {NoCall} \cup Call] /\ \A d \in Caller : d # c => calls'[d] = calls[d]
  BY <1>12 DEF Turn
<1>14. \A d \in Caller : Staged(d)' /\ Point(d)' /\ (~Idle(d)' => calls'[d].op = "share")
  <2>1. group'.status \in Routable
    BY <1>5 DEF Routable
  <2> QED BY <1>2, <1>12, <1>13, <2>1, SharerStands, IdleIsNowhereNext
<1> QED BY <1>6, <1>7, <1>9, <1>10, <1>11, <1>13, <1>14 DEF Sharing, Called

-------------------------------------------------------------------------------
(* Failures, restarts, the time to live, and what is mined. *)

\* A handler knows as much as before when the rows it knows of stay.
LEMMA PointStays ==
    ASSUME NEW d \in Caller, calls'[d] = calls[d], group' = group, row' = row,
           invite' = invite, adds' = adds, token' = token, Staged(d), Point(d)
    PROVE  Staged(d)' /\ Point(d)'
<1>1. Joined' = Joined /\ AllConfirmed' = AllConfirmed /\ SignedOff' = SignedOff
  BY DEF Joined, AllConfirmed, SignedOff
<1>2. Staged(d)'
  BY DEF Staged, At, Is
<1>3. Editing(d)' /\ Saving(d)'
  BY DEF Point, Editing, Saving, At, Is
<1>4. Recomputing(d)'
  BY <1>1 DEF Point, Recomputing, At, Is
<1>5. Writing(d)' /\ Answering(d)'
  BY DEF Point, Writing, Answering, At, Is
<1> QED BY <1>2, <1>3, <1>4, <1>5 DEF Point

LEMMA CallStays ==
    ASSUME NEW d \in Caller, calls'[d] = calls[d]
    PROVE  /\ Idle(d)' = Idle(d) /\ Dissolving(d)' = Dissolving(d) /\ Behind(d)' = Behind(d)
           /\ Owing(d)' = Owing(d) /\ Due(d)' = Due(d) /\ Taking(d)' = Taking(d)
           /\ Asking(d)' = Asking(d)
BY DEF Idle, Dissolving, Behind, Owing, Due, Taking, Asking, Is

\* A step that leaves the handlers, the rows and the caches alone.
LEMMA MiningKeeps ==
    ASSUME IInv, UNCHANGED <<db, token, cache, calls, past>>, PayInv'
    PROVE  IInv'
<1>1. /\ group' = group /\ row' = row /\ invite' = invite /\ adds' = adds /\ token' = token
      /\ route' = route /\ known' = known /\ past' = past /\ calls' = calls
  BY DEF db, cache
<1>2. Joined' = Joined /\ AllConfirmed' = AllConfirmed
      /\ \A a \in Joined : Accepted(a)' = Accepted(a)
  BY <1>1 DEF Joined, AllConfirmed, Accepted
<1>3. Stored' /\ Standing' /\ Invites'
  BY <1>1 DEF IInv, Stored, Standing, Invites
<1>4. Called' /\ \A d \in Caller : Point(d)'
  BY <1>1, PointStays DEF IInv, Called
<1>5. Apart'
  BY <1>1 DEF IInv, Apart, Idle
<1>6. RouteKept' = RouteKept /\ KnownKept' = KnownKept
  BY <1>1, <1>2 DEF RouteKept, KnownKept
<1>7. \A d \in Caller : /\ Dissolving(d)' = Dissolving(d) /\ Behind(d)' = Behind(d)
                        /\ Owing(d)' = Owing(d) /\ Due(d)' = Due(d)
                        /\ Taking(d)' = Taking(d) /\ Asking(d)' = Asking(d)
                        /\ (Judged(d) => Judged(d)')
  BY <1>1, <1>2, CallStays, OthersSame
<1>8. CacheInv'
  BY <1>1, <1>6, <1>7 DEF IInv, CacheInv
<1>9. ConsentInv'
  BY <1>1, <1>2, <1>7 DEF IInv, ConsentInv
<1>10. TokenInv'
  BY <1>1, <1>2, <1>7 DEF IInv, TokenInv
<1> QED BY <1>3, <1>4, <1>5, <1>8, <1>9, <1>10 DEF IInv

LEMMA NewJobKeeps ==
    ASSUME IInv, NewJob
    PROVE  IInv'
<1>1. /\ job' = [splits |-> Splits, live |-> route] /\ booked' = None
      /\ UNCHANGED <<db, token, cache, calls, past>> /\ route \in Routable
  BY DEF NewJob
<1>2. group' = group /\ Splits' = Splits
  BY <1>1 DEF db, Splits, Joined
<1>3. route = group.status \/ group.status = "dissolved"
  BY <1>1 DEF IInv, Standing
<1>4. PayInv'
  BY <1>1, <1>2, <1>3 DEF PayInv
<1> QED BY <1>1, <1>4, MiningKeeps

LEMMA BlockFoundKeeps ==
    ASSUME IInv, BlockFound
    PROVE  IInv'
<1> DEFINE how == CASE route \notin Routable -> "not at all"
                    [] Splits = job.splits -> "as paid"
                    [] OTHER -> "otherwise"
<1>1. /\ job # None /\ job' = None /\ UNCHANGED <<db, token, cache, calls, past>>
      /\ booked' = [live |-> job.live, how |-> how]
  BY DEF BlockFound
<1>2. group' = group
  BY <1>1 DEF db
<1>3. job.live = "active" => /\ group.status \in {"active", "dissolved"}
                             /\ group.status = "active" => Splits = job.splits
  BY <1>1 DEF IInv, PayInv
<1>4. group.status = "active" => route \in Routable
  BY DEF IInv, Standing, Routable
<1>5. job.live = "active" /\ group.status = "active" => how = "as paid"
  BY <1>3, <1>4
<1> HIDE DEF how
<1>6. PayInv'
  BY <1>1, <1>2, <1>3, <1>5 DEF PayInv
<1> QED BY <1>1, <1>6, MiningKeeps

LEMMA FailKeeps ==
    ASSUME IInv, NEW c \in Caller, Fail(c)
    PROVE  IInv'
<1>1. /\ group' = group /\ row' = row /\ invite' = invite /\ adds' = adds /\ token' = token
      /\ route' = route /\ known' = known /\ UNCHANGED mine /\ past' = "failed" /\ End(c)
  BY DEF Fail, db, cache
<1>2. Turn(c, NoCall) /\ Idle(c)'
  BY <1>1, Ending DEF IInv, Called
<1>3. calls' \in [Caller -> {NoCall} \cup Call] /\ \A d \in Caller : d # c => calls'[d] = calls[d]
  BY <1>2 DEF Turn
<1>4. Stored' /\ Standing' /\ Invites'
  BY <1>1 DEF IInv, Stored, Standing, Invites
<1>5. \A d \in Caller : Staged(d)' /\ Point(d)'
  BY <1>1, <1>2, <1>3, PointStays, IdleIsNowhereNext DEF IInv, Called
<1>6. Apart'
  BY <1>2, <1>3 DEF IInv, Apart, Idle
<1>7. CacheInv' /\ ConsentInv' /\ TokenInv'
  BY <1>1 DEF CacheInv, ConsentInv, TokenInv
<1>8. PayInv'
  <2>1. Splits' = Splits
    BY <1>1 DEF Splits, Joined
  <2> QED BY <1>1, <2>1, PaySame DEF IInv
<1> QED BY <1>3, <1>4, <1>5, <1>6, <1>7, <1>8 DEF IInv, Called

LEMMA LapseKeeps ==
    ASSUME IInv, NEW a \in Address, NEW i \in DOMAIN invite[a], Lapse(a, i)
    PROVE  IInv'
<1>1. /\ invite[a][i] = "pending" /\ invite' = [invite EXCEPT ![a][i] = "lapsed"]
      /\ group' = group /\ row' = row /\ adds' = adds /\ token' = token /\ UNCHANGED mine
      /\ route' = route /\ known' = known /\ calls' = calls /\ past' = past
  BY DEF Lapse, cache
<1>2. i \in Nat /\ i = Len(invite[a])
  BY <1>1, OpenIsLast DEF IInv, Open
<1> DEFINE s == [invite[a] EXCEPT ![i] = "lapsed"]
<1>3. invite[a] \in Seq(Invite) /\ "lapsed" \in Invite
  BY DEF IInv, Stored, Invite
<1>4. /\ s \in Seq(Invite) /\ Len(s) = Len(invite[a]) /\ DOMAIN s = DOMAIN invite[a]
      /\ s[Len(s)] = "lapsed" /\ \A n \in DOMAIN s : n # Len(s) => s[n] = invite[a][n]
  BY <1>2, <1>3
<1>5. invite' = [invite EXCEPT ![a] = s]
  BY <1>1
<1> HIDE DEF s
<1>6. invite'[a] = s /\ \A b \in Address : b # a => invite'[b] = invite[b]
  BY <1>5 DEF IInv, Stored
<1>7. Stored'
  BY <1>1, <1>4, <1>5 DEF IInv, Stored
<1>8. Standing' /\ Invites'
  <2>1. \A n \in DOMAIN s : n # Len(s) => s[n] \notin Open
    BY <1>4 DEF IInv, Invites
  <2> QED BY <1>1, <1>6, <2>1 DEF IInv, Standing, Invites
<1>9. \A b \in Address : /\ DOMAIN invite'[b] = DOMAIN invite[b]
                         /\ Len(invite'[b]) = Len(invite[b])
                         /\ \A n \in DOMAIN invite[b] :
                                invite[b][n] \in Open => invite'[b][n] \in Open
  BY <1>4, <1>6 DEF Open
<1>10. \A b \in Address : Accepted(b)' <=> Accepted(b)
  <2>1. ~Accepted(a)' /\ ~Accepted(a)
    BY <1>1, <1>2, <1>4, <1>6 DEF Accepted, Last
  <2>2. \A b \in Address : b # a => (Accepted(b)' <=> Accepted(b))
    BY <1>6 DEF Accepted
  <2> QED BY <2>1, <2>2
<1>11. Joined' = Joined /\ AllConfirmed' = AllConfirmed /\ SignedOff' = SignedOff
       /\ Splits' = Splits /\ Joined \subseteq Address
  BY <1>1 DEF Joined, AllConfirmed, SignedOff, Splits
<1>12. ASSUME NEW d \in Caller PROVE Staged(d)' /\ Point(d)'
  <2>1. Staged(d) /\ Point(d)
    BY DEF IInv, Called
  <2>2. Staged(d)'
    BY <1>1, <2>1 DEF Staged, At, Is
  <2>3. Editing(d)' /\ Saving(d)'
    BY <1>1, <2>1 DEF Point, Editing, Saving, At, Is
  <2>4. Recomputing(d)' /\ Writing(d)'
    BY <1>1, <1>11, <2>1 DEF Point, Recomputing, Writing, At, Is
  <2>5. Answering(d)'
    <3>1. CASE Idle(d)
      BY <1>1, <3>1, IdleIsNowhereNext DEF Idle, Point
    <3>2. CASE ~Idle(d)
      <4>1. calls[d].who \in Address
        BY <3>2, BusyCall, CallFields DEF IInv, Called
      <4> QED BY <1>1, <1>9, <2>1, <4>1 DEF Point, Answering, At, Is
    <3> QED BY <3>1, <3>2
  <2> QED BY <2>2, <2>3, <2>4, <2>5 DEF Point
<1>13. Called' /\ Apart'
  BY <1>1, <1>12 DEF IInv, Called, Apart, Idle
<1>14. \A d \in Caller : /\ Dissolving(d)' = Dissolving(d) /\ Behind(d)' = Behind(d)
                         /\ Owing(d)' = Owing(d) /\ Due(d)' = Due(d)
                         /\ Taking(d)' = Taking(d) /\ Asking(d)' = Asking(d)
                         /\ (Judged(d) => Judged(d)')
  BY <1>1, <1>11, CallStays, OthersSame
<1>15. CacheInv'
  BY <1>1, <1>11, <1>14 DEF IInv, CacheInv, RouteKept, KnownKept
<1>16. ConsentInv'
  BY <1>1, <1>11, <1>14 DEF IInv, ConsentInv
<1>17. TokenInv'
  BY <1>1, <1>10, <1>11, <1>14 DEF IInv, TokenInv
<1>18. PayInv'
  BY <1>1, <1>11, PaySame DEF IInv
<1> QED BY <1>7, <1>8, <1>12, <1>13, <1>15, <1>16, <1>17, <1>18 DEF IInv

LEMMA SilenceKeeps ==
    ASSUME IInv, Silence
    PROVE  Sharing'
<1>1. /\ group' = [group EXCEPT !.recent = FALSE] /\ \A d \in Caller : Idle(d)
      /\ row' = row /\ invite' = invite /\ adds' = adds /\ token' = token /\ UNCHANGED mine
      /\ route' = route /\ known' = known /\ calls' = calls /\ past' = past
  BY DEF Silence, cache
<1>2. Sharing
  BY <1>1, SharingOfInv
<1>3. group' \in Group /\ group'.status = group.status
  BY <1>1, <1>2 DEF Sharing, Stored, Group
<1>4. Joined' = Joined /\ AllConfirmed' = AllConfirmed /\ Splits' = Splits
      /\ \A a \in Joined : Accepted(a)' = Accepted(a)
  BY <1>1 DEF Joined, AllConfirmed, Splits, Accepted
<1>5. Stored' /\ Standing' /\ Invites'
  BY <1>1, <1>2, <1>3 DEF Sharing, Stored, Standing, Invites
<1>6. PayInv'
  BY <1>1, <1>2, <1>3, <1>4 DEF Sharing, PayInv, mine
<1>7. Fresh' /\ Signed' /\ Matched'
  BY <1>1, <1>2, <1>3, <1>4
     DEF Sharing, Fresh, RouteKept, KnownKept, Signed, SignedOff, Matched
<1>8. \A d \in Caller : Staged(d)' /\ Point(d)' /\ Idle(d)'
  <2>1. \A d \in Caller : Idle(d)'
    BY <1>1 DEF Idle
  <2> QED BY <2>1, IdleIsNowhereNext
<1> QED BY <1>1, <1>2, <1>5, <1>6, <1>7, <1>8 DEF Sharing, Called

LEMMA RestartKeeps ==
    ASSUME IInv, Restart
    PROVE  Sharing'
<1>1. /\ calls' = [d \in Caller |-> NoCall] /\ Caches(group.status)
      /\ job' = None /\ booked' = None
      /\ group' = group /\ row' = row /\ invite' = invite /\ adds' = adds /\ token' = token
      /\ past' = IF \A d \in Caller : Idle(d) THEN past ELSE "failed"
  BY DEF Restart, db
<1>2. Joined' = Joined /\ AllConfirmed' = AllConfirmed /\ Joined \subseteq Address
      /\ \A a \in Joined : Accepted(a)' = Accepted(a)
  BY <1>1 DEF Joined, AllConfirmed, Accepted
<1>3. /\ group.status \in Status /\ group.status # None
      /\ group.status \in {"none", "dissolved"} => route' = None /\ known' = {}
      /\ group.status \notin {"none", "dissolved"} => route' = group.status /\ known' = Joined
  <2>1. group.status \in Status
    BY DEF IInv, Stored, Group
  <2> QED BY <1>1, <2>1, NoneAssumption DEF Caches
<1>4. Stored' /\ Invites' /\ PayInv'
  BY <1>1, <1>2, <1>3 DEF IInv, Stored, Invites, PayInv
<1>5. Standing'
  <2>1. None \notin Routable
    BY NoneAssumption DEF Routable, Status
  <2> QED BY <1>1, <1>3, <2>1 DEF IInv, Standing, Routable
<1>6. Fresh'
  <2>1. token => group.status # "none"
    BY DEF IInv, Standing
  <2> QED BY <1>1, <1>2, <1>3, <2>1 DEF Fresh, RouteKept, KnownKept
<1>7. Signed' /\ Matched'
  <2>1. CASE \A d \in Caller : Idle(d)
    <3>1. Sharing
      BY <2>1, SharingOfInv
    <3> QED BY <1>1, <1>2, <2>1, <3>1 DEF Sharing, Signed, SignedOff, Matched
  <2>2. CASE ~ \A d \in Caller : Idle(d)
    BY <1>1, <2>2 DEF Signed, Matched
  <2> QED BY <2>1, <2>2
<1>8. \A d \in Caller : Staged(d)' /\ Point(d)' /\ Idle(d)'
  <2>1. \A d \in Caller : Idle(d)'
    BY <1>1 DEF Idle, NoCall
  <2> QED BY <2>1, IdleIsNowhereNext
<1> QED BY <1>1, <1>4, <1>5, <1>6, <1>7, <1>8 DEF Sharing, Called

-------------------------------------------------------------------------------
(* The invariant holds. *)

LEMMA IInvInit ==
    ASSUME Init
    PROVE  IInv
<1>1. \A d \in Caller : calls[d] = NoCall /\ Idle(d)
  BY DEF Init, Idle, NoCall
<1>2. \A d \in Caller : /\ Staged(d) /\ Point(d) /\ ~Dissolving(d) /\ ~Behind(d)
                        /\ ~Owing(d) /\ ~Due(d) /\ Judged(d) /\ ~Taking(d) /\ ~Asking(d)
  BY <1>1, IdleIsNowhere
<1>3. Stored /\ Invites
  <2>1. group \in Group /\ route \in Status \cup {None} /\ known \subseteq Address
        /\ token \in BOOLEAN /\ past \in {"clean", "failed", "repaired"}
    BY DEF Init, Group, Status
  <2>2. adds \in [Address -> 0..MaxRows] /\ row \in [Address -> Row \cup {None}]
    BY PartyAssumption DEF Init
  <2>3. <<>> \in Seq(Invite)
    OBVIOUS
  <2>4. invite \in [Address -> Seq(Invite)]
    BY <2>3 DEF Init
  <2>5. Invites
    BY DEF Init, Invites
  <2> QED BY <2>1, <2>2, <2>4, <2>5 DEF Stored
<1>4. Standing
  BY NoneAssumption DEF Init, Standing, Routable, Status
<1>5. Called /\ Apart
  BY <1>1, <1>2 DEF Init, Called, Apart
<1>6. CacheInv /\ PayInv
  BY DEF Init, CacheInv, PayInv
<1>7. ConsentInv /\ TokenInv
  <2>1. Joined = {}
    BY DEF Init, Joined
  <2> QED BY <1>2, <2>1 DEF Init, ConsentInv, TokenInv
<1> QED BY <1>2, <1>3, <1>4, <1>5, <1>6, <1>7 DEF IInv

LEMMA BeginsKeep ==
    ASSUME IInv, Overlap = FALSE, NEW c \in Caller, Begins(c)
    PROVE  IInv'
<1>1. CASE CreateGroup(c)
  BY <1>1, CreateGroupKeeps, InvOfSolo
<1>2. CASE AddMember(c)
  BY <1>2, AddMemberKeeps, InvOfSolo
<1>3. CASE RemoveMember(c)
  BY <1>3, RemoveMemberKeeps, InvOfSolo
<1>4. CASE UpdateSplits(c)
  BY <1>4, UpdateSplitsKeeps, InvOfSolo
<1>5. CASE Accept(c)
  BY <1>5, AcceptKeeps, InvOfVotes
<1>6. CASE Confirm(c)
  BY <1>6, ConfirmKeeps, InvOfVotes
<1>7. CASE Respond(c)
  BY <1>7, RespondKeeps, InvOfSolo
<1>8. CASE Resend(c)
  BY <1>8, ResendKeeps, InvOfSolo
<1>9. CASE TransitionToConfirming(c)
  BY <1>9, TransitionKeeps, InvOfSolo
<1>10. CASE Dissolve(c)
  BY <1>10, DissolveKeeps, InvOfSolo
<1>11. CASE UpdateHint(c)
  BY <1>11, UpdateHintKeeps, InvOfSolo
<1>12. CASE Share(c)
  BY <1>12, ShareKeeps, InvOfSharing
<1> QED BY <1>1, <1>2, <1>3, <1>4, <1>5, <1>6, <1>7, <1>8, <1>9, <1>10, <1>11, <1>12 DEF Begins

LEMMA StepIsBusy ==
    ASSUME NEW c \in Caller, Step(c)
    PROVE  ~Idle(c)
<1>1. calls[c].pc \in PC
  BY DEF Step, At, PC, CreateAdmin, Insert, Promote, RecomputeGroup, RecomputeMembers,
         RecomputeSave, RebuildGroup, RebuildCaches, Edit, FindMember, Delete, SaveMember,
         Mint, Answer, FindInvite, ExpireInvite, ListMembers, SumCheck, WriteGroup
<1> QED BY <1>1, PointIsBusy

LEMMA LoneStepsKeep ==
    ASSUME NEW c \in Caller, Solo(c), calls[c].op \in Lone, Step(c)
    PROVE  Solo(c)'
<1>1. CASE CreateAdmin(c)
  BY <1>1, CreateAdminAlone
<1>2. CASE Insert(c)
  BY <1>2, InsertAlone
<1>3. CASE Promote(c)
  BY <1>3, PromoteAlone
<1>4. CASE RecomputeGroup(c)
  BY <1>4, RecomputeGroupAlone
<1>5. CASE RecomputeMembers(c)
  BY <1>5, RecomputeMembersAlone
<1>6. CASE RecomputeSave(c)
  BY <1>6, RecomputeSaveAlone
<1>7. CASE RebuildGroup(c)
  BY <1>7, RebuildGroupAlone
<1>8. CASE RebuildCaches(c)
  BY <1>8, RebuildCachesAlone
<1>9. CASE Edit(c)
  BY <1>9, EditAlone
<1>10. CASE FindMember(c)
  BY <1>10, FindMemberAlone
<1>11. CASE Delete(c)
  BY <1>11, DeleteAlone
<1>12. CASE SaveMember(c)
  BY <1>12, SaveMemberAlone
<1>13. CASE Mint(c)
  BY <1>13, MintAlone
<1>14. CASE Answer(c)
  BY <1>14, AnswerAlone
<1>15. CASE FindInvite(c)
  BY <1>15, FindInviteAlone
<1>16. CASE ExpireInvite(c)
  BY <1>16, ExpireInviteAlone
<1>17. CASE ListMembers(c)
  BY <1>17, ListMembersAlone
<1>18. CASE SumCheck(c)
  BY <1>18, SumCheckAlone
<1>19. CASE WriteGroup(c)
  BY <1>19, WriteGroupAlone
<1> QED BY <1>1, <1>2, <1>3, <1>4, <1>5, <1>6, <1>7, <1>8, <1>9, <1>10, <1>11, <1>12,
           <1>13, <1>14, <1>15, <1>16, <1>17, <1>18, <1>19 DEF Step

\* The steps a confirmation or a share can take.
LEMMA OthersPoint ==
    ASSUME NEW c \in Caller, Called, Step(c)
    PROVE  /\ calls[c].op \in Consenting =>
                  \/ RecomputeGroup(c) \/ RecomputeMembers(c) \/ RecomputeSave(c)
                  \/ FindMember(c) \/ SaveMember(c) \/ Answer(c)
           /\ calls[c].op = "share" => WriteGroup(c)
<1>1. Staged(c) /\ calls[c] \in Call /\ calls[c].pc \in PC
  BY StepIsBusy, BusyCall, CallFields DEF Called
<1>2. ASSUME calls[c].op \in Consenting
      PROVE  calls[c].pc \in {"find", "save", "group", "members", "status", "answer"}
  <2>1. CASE calls[c].op = "accept"
    BY <1>1, <2>1 DEF Staged, At, Is, PC, Recompute, Rebuild
  <2>2. CASE calls[c].op = "confirm"
    BY <1>1, <2>2 DEF Staged, At, Is, PC, Recompute, Rebuild
  <2> QED BY <1>2, <2>1, <2>2 DEF Consenting
<1>3. calls[c].op = "share" => calls[c].pc = "write"
  BY <1>1 DEF Staged, At, Is
<1> QED BY <1>2, <1>3
        DEF Step, At, CreateAdmin, Insert, Promote, RecomputeGroup, RecomputeMembers,
            RecomputeSave, RebuildGroup, RebuildCaches, Edit, FindMember, Delete, SaveMember,
            Mint, Answer, FindInvite, ExpireInvite, ListMembers, SumCheck, WriteGroup

LEMMA StepKeeps ==
    ASSUME IInv, NEW c \in Caller, Step(c)
    PROVE  IInv'
<1>1. ~Idle(c) /\ Called
  BY StepIsBusy DEF IInv
<1>2. calls[c].op \in Lone \/ calls[c].op \in Consenting \/ calls[c].op = "share"
  <2>1. calls[c].op \in Op
    BY <1>1, BusyCall, CallFields DEF Called
  <2> QED BY <2>1 DEF Op, Lone, Consenting
<1>3. CASE calls[c].op \in Lone
  BY <1>1, <1>3, StepsAlone, LoneStepsKeep, InvOfSolo
<1>4. CASE calls[c].op \in Consenting
  <2>1. Votes
    BY <1>1, <1>4, StepsVoting
  <2>2. Votes'
    BY <1>1, <1>4, <2>1, OthersPoint, RecomputeGroupVotes, RecomputeMembersVotes,
       RecomputeSaveVotes, FindMemberVotes, SaveMemberVotes, AnswerVotes
  <2> QED BY <2>2, InvOfVotes
<1>5. CASE calls[c].op = "share"
  BY <1>1, <1>5, OthersPoint, WriteShareKeeps, InvOfSharing
<1> QED BY <1>2, <1>3, <1>4, <1>5

LEMMA IInvStep ==
    ASSUME IInv, Overlap = FALSE, [Next]_vars
    PROVE  IInv'
<1>1. ASSUME NEW c \in Caller, Begins(c) PROVE IInv'
  BY <1>1, BeginsKeep
<1>2. ASSUME NEW c \in Caller, Step(c) PROVE IInv'
  BY <1>2, StepKeeps
<1>3. ASSUME NEW c \in Caller, Fail(c) PROVE IInv'
  BY <1>3, FailKeeps
<1>4. ASSUME NEW a \in Address, NEW i \in DOMAIN invite[a], Lapse(a, i) PROVE IInv'
  BY <1>4, LapseKeeps
<1>5. CASE Silence
  BY <1>5, SilenceKeeps, InvOfSharing
<1>6. CASE NewJob
  BY <1>6, NewJobKeeps
<1>7. CASE BlockFound
  BY <1>7, BlockFoundKeeps
<1>8. CASE Restart
  BY <1>8, RestartKeeps, InvOfSharing
<1>9. CASE UNCHANGED vars
  <2>1. UNCHANGED <<db, token, cache, calls, past>> /\ UNCHANGED mine
    BY <1>9 DEF vars
  <2>2. group' = group /\ Splits' = Splits
    BY <2>1 DEF db, Splits, Joined
  <2>3. PayInv'
    BY <2>1, <2>2, PaySame DEF IInv
  <2> QED BY <2>1, <2>3, MiningKeeps
<1> QED BY <1>1, <1>2, <1>3, <1>4, <1>5, <1>6, <1>7, <1>8, <1>9 DEF Next

-------------------------------------------------------------------------------
(* What the invariant says of a party, of its blocks and of each step. *)

LEMMA IInvSound ==
    ASSUME IInv
    PROVE  PartySound
<1>1. TypeOK
  BY DEF IInv, Stored, Called, TypeOK
<1>2. ASSUME Settled PROVE Sharing
  BY <1>2, SharingOfInv DEF Settled
<1>3. ReadyIsSignedOff
  BY <1>2 DEF ReadyIsSignedOff, Sharing, Signed, SignedOff, Settled, Voting, AllConfirmed
<1>4. CachesFollowRows
  <2> SUFFICES ASSUME Settled, token PROVE CachesFollowRows
    BY DEF CachesFollowRows
  <2>1. RouteKept /\ KnownKept
    BY <1>2 DEF Sharing, Fresh, Settled
  <2>2. None \notin Routable
    BY NoneAssumption DEF Routable, Status
  <2>3. route \in Routable <=> group.status \in Routable
    BY <2>1, <2>2 DEF IInv, Standing, RouteKept, Routable
  <2>4. known = IF group.status = "dissolved" THEN {} ELSE Joined
    BY <2>1 DEF KnownKept
  <2>5. route = None <=> group.status = "dissolved"
    BY <2>1 DEF RouteKept
  <2> QED BY <2>3, <2>4, <2>5 DEF CachesFollowRows
<1>5. TokenFollowsInvitation
  BY <1>2 DEF TokenFollowsInvitation, Sharing, Matched, Accepted
<1> QED BY <1>1, <1>3, <1>4, <1>5 DEF PartySound

LEMMA IInvBooked ==
    ASSUME IInv
    PROVE  ActiveBlocksBooked
BY DEF IInv, PayInv, ActiveBlocksBooked

\* What one step says of parts and of an active party, when nothing fails.
Heard ==
    past' # "failed" =>
        \A a \in Joined \ {Admin} :
            row[a].confirmed /\ row'[a] # None /\ row'[a].confirmed
                => row'[a].percent = row[a].percent
Frozen ==
    past' # "failed" /\ group.status = "active" =>
        /\ group'.status = "active" \/ (group'.status = "dissolved" /\ ~group.recent)
        /\ \A a \in Address : (row[a] = None) = (row'[a] = None)
               /\ (row[a] # None => row'[a].percent = row[a].percent)

LEMMA SameRows ==
    ASSUME row' = row, group' = group \/ group.status # "active"
    PROVE  Heard /\ Frozen
BY DEF Heard, Frozen

LEMMA EditsHeard ==
    ASSUME IInv, NEW c \in Caller, CreateAdmin(c) \/ Insert(c) \/ Edit(c) \/ Delete(c)
    PROVE  Heard /\ Frozen
<1>1. Called /\ Stored /\ Point(c)
  BY DEF IInv
<1>2. calls[c].pc \in {"admin", "insert", "edit", "delete"} /\ ~Idle(c)
  BY PointIsBusy DEF CreateAdmin, Insert, Edit, Delete, At, PC
<1>3. calls[c] \in Call /\ calls[c].pc \in PC /\ calls[c].who \in Address
  BY <1>1, <1>2, BusyCall, CallFields DEF Called
<1>4. group.status \in Editable
  <2>1. CASE calls[c].pc = "admin"
    BY <1>1, <1>3, <2>1 DEF Called, Staged, Point, Editing, Is, At, Editable
  <2>2. CASE calls[c].pc \in {"insert", "edit"}
    BY <1>1, <2>2 DEF Point, Editing, At
  <2>3. CASE calls[c].pc = "delete"
    BY <1>1, <2>3 DEF Called, Staged, Point, Editing, Is, At
  <2> QED BY <1>2, <2>1, <2>2, <2>3
<1>5. Frozen
  BY <1>4 DEF Frozen, Editable
<1>6. ASSUME NEW a \in Joined \ {Admin}, row'[a] # None, row'[a].confirmed
      PROVE  row'[a] = row[a]
  <2>1. a \in Address /\ row[a] # None /\ row \in [Address -> Row \cup {None}]
    BY <1>1 DEF Joined, Stored
  <2>2. CASE CreateAdmin(c)
    BY <1>6, <2>1, <2>2 DEF CreateAdmin
  <2>3. CASE Insert(c)
    BY <1>3, <1>6, <2>1, <2>3 DEF Insert
  <2>4. CASE Edit(c)
    <3>1. CASE row' = row
      BY <3>1
    <3>2. CASE row' # row
      <4>1. row'[a] = [row[a] EXCEPT !.percent = IF a \in DOMAIN calls[c].splits
                                                 THEN calls[c].splits[a] ELSE @,
                                     !.confirmed = (a = Admin)]
        BY <2>1, <2>4, <3>2 DEF Edit
      <4>2. row[a] \in Row
        BY <2>1
      <4>3. row'[a].confirmed = (a = Admin)
        BY <4>1, <4>2 DEF Row
      <4> QED BY <1>6, <4>3
    <3> QED BY <3>1, <3>2
  <2>5. CASE Delete(c)
    BY <1>3, <1>6, <2>1, <2>5 DEF Delete
  <2> QED BY <2>2, <2>3, <2>4, <2>5
<1>7. Heard
  BY <1>6 DEF Heard
<1> QED BY <1>5, <1>7

LEMMA SavesHeard ==
    ASSUME IInv, NEW c \in Caller, SaveMember(c)
    PROVE  Heard /\ Frozen
<1>1. ~Idle(c)
  BY PointIsBusy DEF SaveMember, At, PC
<1>2. calls[c] \in Call
  BY <1>1, BusyCall DEF IInv, Called
<1>3. /\ group' = group
      /\ \A a \in Address : /\ row'[a] = None <=> row[a] = None
                            /\ row[a] # None => row'[a].percent = row[a].percent
  BY <1>2, SavedRow DEF IInv, Point
<1>4. Heard
  BY <1>3 DEF Heard, Joined
<1>5. Frozen
  BY <1>3 DEF Frozen
<1> QED BY <1>4, <1>5

LEMMA WritesHeard ==
    ASSUME IInv, NEW c \in Caller, WriteGroup(c)
    PROVE  Heard /\ Frozen
<1>1. At(c, "write") /\ ~Idle(c) /\ group' = calls[c].grp /\ row' = row
  BY PointIsBusy DEF WriteGroup, At, PC
<1>2. calls[c].op \in {"dissolve", "hint", "share"}
  BY <1>1 DEF IInv, Called, Staged
<1>3. Writing(c) /\ group \in Group
  BY DEF IInv, Point, Stored
<1>4. group.status = "active" =>
          group'.status = "active" \/ (group'.status = "dissolved" /\ ~group.recent)
  <2>1. CASE calls[c].op = "hint"
    BY <1>1, <1>3, <2>1 DEF Writing, Is, At
  <2>2. CASE calls[c].op = "share"
    BY <1>1, <1>3, <2>2 DEF Writing, Is, At
  <2>3. CASE calls[c].op = "dissolve"
    <3>1. group' = [group EXCEPT !.status = "dissolved"]
          /\ ~(group.status = "active" /\ group.recent)
      BY <1>1, <1>3, <2>3 DEF Writing, Is, At
    <3> QED BY <1>3, <3>1 DEF Group
  <2> QED BY <1>2, <2>1, <2>2, <2>3
<1> QED BY <1>1, <1>4 DEF Heard, Frozen

LEMMA BeginsHeard ==
    ASSUME NEW c \in Caller, Begins(c)
    PROVE  Heard /\ Frozen
<1>1. row' = row /\ (group' = group \/ group.status = "none")
  BY DEF Begins, CreateGroup, AddMember, RemoveMember, UpdateSplits, Accept, Confirm, Respond,
         Resend, TransitionToConfirming, Dissolve, UpdateHint, Share, db
<1> QED BY <1>1, SameRows

LEMMA StepHeard ==
    ASSUME IInv, NEW c \in Caller, Step(c)
    PROVE  Heard /\ Frozen
<1>1. CASE CreateAdmin(c) \/ Insert(c) \/ Edit(c) \/ Delete(c)
  BY <1>1, EditsHeard
<1>2. CASE SaveMember(c)
  BY <1>2, SavesHeard
<1>3. CASE WriteGroup(c)
  BY <1>3, WritesHeard
<1>4. CASE Promote(c)
  <2>1. group.status = "draft" /\ row' = row
    BY <1>4 DEF Promote, IInv, Point, Recomputing
  <2> QED BY <2>1, SameRows
<1>5. CASE RecomputeSave(c)
  <2>1. group.status \in Voting /\ row' = row
    BY <1>5 DEF RecomputeSave, IInv, Point, Recomputing
  <2> QED BY <2>1, SameRows DEF Voting
<1>6. CASE \/ RecomputeGroup(c) \/ RecomputeMembers(c) \/ RebuildGroup(c) \/ RebuildCaches(c)
           \/ FindMember(c) \/ Mint(c) \/ Answer(c) \/ FindInvite(c) \/ ExpireInvite(c)
           \/ ListMembers(c) \/ SumCheck(c)
  <2>1. group' = group /\ row' = row
    BY <1>6 DEF RecomputeGroup, RecomputeMembers, RebuildGroup, RebuildCaches, FindMember,
                Mint, Answer, FindInvite, ExpireInvite, ListMembers, SumCheck, db
  <2> QED BY <2>1, SameRows
<1> QED BY <1>1, <1>2, <1>3, <1>4, <1>5, <1>6 DEF Step

LEMMA NextHeard ==
    ASSUME IInv, [Next]_vars
    PROVE  Heard /\ Frozen
<1>1. ASSUME NEW c \in Caller, Begins(c) PROVE Heard /\ Frozen
  BY <1>1, BeginsHeard
<1>2. ASSUME NEW c \in Caller, Step(c) PROVE Heard /\ Frozen
  BY <1>2, StepHeard
<1>3. ASSUME NEW c \in Caller, Fail(c) PROVE Heard /\ Frozen
  BY <1>3 DEF Fail, Heard, Frozen
<1>4. ASSUME NEW a \in Address, NEW i \in DOMAIN invite[a], Lapse(a, i) PROVE Heard /\ Frozen
  BY <1>4, SameRows DEF Lapse
<1>5. CASE Silence
  <2>1. row' = row /\ group' = [group EXCEPT !.recent = FALSE] /\ group \in Group
    BY <1>5 DEF Silence, IInv, Stored
  <2>2. group'.status = group.status
    BY <2>1 DEF Group
  <2> QED BY <2>1, <2>2 DEF Heard, Frozen
<1>6. CASE NewJob \/ BlockFound \/ Restart \/ UNCHANGED vars
  <2>1. group' = group /\ row' = row
    BY <1>6 DEF NewJob, BlockFound, Restart, vars, db
  <2> QED BY <2>1, SameRows
<1> QED BY <1>1, <1>2, <1>3, <1>4, <1>5, <1>6 DEF Next

\* When no handlers that write the same rows overlap, the invariant holds always.
LEMMA IInvAlways ==
    ASSUME Overlap = FALSE
    PROVE  Spec => []IInv
<1>1. Init => IInv
  BY IInvInit
<1>2. IInv /\ [Next]_vars => IInv'
  BY IInvStep
<1> QED BY <1>1, <1>2, PTL DEF Spec

\* Whatever handlers, failures and restarts come between, as long as handlers that
\* write the same rows do not overlap, a party that every row of says "confirmed" is
\* "ready" and only then (recomputeStatus), the share path's caches say what the rows
\* say (rebuildCache), and a member holds a token exactly when it accepted its last
\* invitation.
THEOREM PartyAlwaysSound ==
    ASSUME Overlap = FALSE
    PROVE  Spec => []PartySound
<1>1. IInv => PartySound
  BY IInvSound
<1> QED BY <1>1, IInvAlways, PTL

\* Under the same condition no step changes the part of a member that stays confirmed
\* (updateSplits, addMember, removeMember and the saves of a member row), and an active
\* party keeps its members and parts until dissolveGroup after a week of silence.
THEOREM PartyStepsAlways ==
    ASSUME Overlap = FALSE
    PROVE  Spec => PartySteps
<1>1. IInv /\ [Next]_vars => Heard /\ Frozen
  BY NextHeard
<1>2. Spec => [][Next]_vars
  BY PTL DEF Spec
<1>3. Spec => [][Heard /\ Frozen]_vars
  BY <1>1, <1>2, IInvAlways, PTL
<1>4. [][Heard /\ Frozen]_vars => [][Heard]_vars /\ [][Frozen]_vars
  BY PTL
<1> QED BY <1>3, <1>4, PTL DEF PartySteps, NoSilentEdit, ActiveIsFrozen, Heard, Frozen

\* Under the same condition a block whose coinbase was built while the party was active is
\* booked at the splits that coinbase paid, unless the party was dissolved in between
\* (onBlockFound reads the member rows again).
THEOREM ActiveBlocksAlwaysBooked ==
    ASSUME Overlap = FALSE
    PROVE  Spec => []ActiveBlocksBooked
<1>1. IInv => ActiveBlocksBooked
  BY IInvBooked
<1> QED BY <1>1, IInvAlways, PTL

===============================================================================
