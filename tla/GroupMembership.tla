--------------------------- MODULE GroupMembership ---------------------------
(***************************************************************************)
(* Payout groups, their members, and the ways into and out of them:        *)
(* group.service.ts, pplns-group-invitation.service.ts,                    *)
(* pplns-group-join-request.service.ts and the two controllers that call   *)
(* them, one HTTP request per call.  Nothing serialises the calls; each    *)
(* runs over several awaits and keeps copies of the rows it has read.      *)
(*                                                                         *)
(* save writes every column of the copy it is given, and inserts the row   *)
(* if somebody has deleted it.  A copy that is out of date therefore undoes*)
(* what others wrote since; `blame' remembers that, because several of the *)
(* properties do not survive it.                                           *)
(*                                                                         *)
(* Left out: names (one per group), emails, listings, lastActive (an       *)
(* address is idle or not), and the Redis state that a kick and a          *)
(* dissolution clear, which GroupRounds models.                            *)
(***************************************************************************)
EXTENDS Integers, FiniteSets, Sequences, TLC

CONSTANTS
    Address, Group, None,
    Tasks,          \* bound: calls in flight at a time
    Verified,       \* addresses with a verified email (address-email.service)
    MinActive,      \* MIN_MEMBERS_ACTIVE
    MaxPending,     \* MAX_PENDING_PER_ADDRESS
    Cap,            \* bound: the only cap an admin sets
    Cases           \* bounds: the rows to begin with and the events that may come

VARIABLES
    groups,     \* rows of pplns_group
    members,    \* rows of pplns_group_member; the address is unique
    notes,      \* rows of pplns_group_invitation and pplns_group_join_request
    cache,      \* addressCache
    party,      \* addresses BlockpartyService has in its cache
    idle,       \* addresses without a share since GROUP_INACTIVITY_KICK_DAYS
    armed,      \* groups with a cron job for round resets
    task,
    budget,     \* events that may still happen
    reads,      \* ghost: how often the rows were read for the cache
    cachedAt,   \* ghost: the read the cache stems from
    blame       \* ghost: what went wrong with a group or an address

rows == <<groups, members, notes>>
ghost == <<reads, cachedAt, blame>>
vars == <<rows, cache, party, idle, armed, task, budget, ghost>>

Task == 1..Tasks
NoGroup == [token |-> 0]
NoRow == [group |-> None, role |-> None]
NewGroup(a) == [token |-> 1, creator |-> a, dissolved |-> FALSE, active |-> FALSE,
                public |-> FALSE, timed |-> FALSE, cap |-> 0]
NoNote == [kind |-> None]
Note(kind, g, a, approval) ==
    [kind |-> kind, group |-> g, addr |-> a, approval |-> approval,
     status |-> "pending", old |-> FALSE]

Idle == [at |-> "idle", op |-> None, g |-> None, a |-> None, row |-> NoGroup,
         old |-> NoRow, new |-> NoRow, from |-> None, i |-> 0, note |-> NoNote,
         verdict |-> None, n |-> 0, snap |-> << >>, seq |-> 0, rest |-> {}]

Row == [token : Nat \ {0}, creator : Address, dissolved : BOOLEAN, active : BOOLEAN,
        public : BOOLEAN, timed : BOOLEAN, cap : {0, Cap}]
Seat == [group : Group, role : {"creator", "member"}]
Message == [kind : {"directed", "link", "request"}, group : Group,
            addr : Address \cup {None}, approval : BOOLEAN, old : BOOLEAN,
            status : {"pending", "expired", "revoked", "deleted", "accepted", "declined",
                      "approved", "rejected"}]

\* The rows of a case are rows the calls leave behind: whoever is in a group is in one
\* that exists, and a group has one creator, no more members than its cap, and no
\* members once it is dissolved.
Stored(c) ==
    /\ DOMAIN c.groups \subseteq Group /\ \A g \in DOMAIN c.groups : c.groups[g] \in Row
    /\ c.members \in [Address -> Seat \cup {NoRow}]
    /\ \A a \in Address : c.members[a] # NoRow => c.members[a].group \in DOMAIN c.groups
    /\ c.notes \in Seq(Message)
    /\ \A i \in DOMAIN c.notes :
        /\ c.notes[i].group \in DOMAIN c.groups
        /\ c.notes[i].kind # "link" => c.notes[i].addr \in Address
    /\ \A g \in DOMAIN c.groups :
        LET in == {a \in Address : c.members[a].group = g}
        IN  IF c.groups[g].dissolved THEN in = {}
            ELSE /\ {a \in in : c.members[a].role = "creator"} = {c.groups[g].creator}
                 /\ c.groups[g].cap > 0 => Cardinality(in) <= c.groups[g].cap

MembershipAssumption ==
    /\ None \notin Address \cup Group /\ Verified \subseteq Address
    /\ Tasks \in Nat /\ MinActive \in Nat \ {0, 1} /\ MaxPending \in Nat /\ Cap \in Nat \ {0}
    /\ IsFiniteSet(Address) /\ \A c \in Cases : Stored(c)

-------------------------------------------------------------------------------
MembersOf(g) == {a \in Address : members[a].group = g}
Alive(g) == groups[g] # NoGroup /\ ~groups[g].dissolved

\* rebuildCache: the members of what is not dissolved.
View_Faulty == [a \in {b \in Address : members[b].group # None} |->
                 [group |-> members[a].group, active |-> groups[members[a].group].active]]

View == [a \in {b \in Address : members[b].group # None /\ Alive(members[b].group)} |->
            [group |-> members[a].group, active |-> groups[members[a].group].active]]

Init ==
    /\ task = [t \in Task |-> Idle] /\ blame = {} /\ reads = 0 /\ cachedAt = 0
    /\ \E c \in Cases :
        /\ groups = [g \in Group |-> IF g \in DOMAIN c.groups
                                     THEN [c.groups[g] EXCEPT !.active =
                                        Cardinality({a \in Address : c.members[a].group = g}) >= MinActive]
                                     ELSE NoGroup]
        /\ members = c.members /\ notes = c.notes /\ party = {} /\ budget = c.events
        /\ idle = Address
        /\ armed = {g \in DOMAIN c.groups : c.groups[g].timed}
    /\ cache = View

Spend(event) == budget[event] > 0 /\ budget' = [budget EXCEPT ![event] = @ - 1]

Free(t) == task[t].at = "idle" /\ \A u \in 1..(t - 1) : task[u].at # "idle"
Goto(t, at) == task' = [task EXCEPT ![t].at = at]
Done(t) == task' = [task EXCEPT ![t] = Idle]
At(t, at) == task[t].at = at

\* requireAdminToken.  The token of a group reaches its founder when createGroup
\* has answered; if it fails, nobody ever has it.
Admin(g) == /\ Alive(g) /\ <<"orphan", g>> \notin blame
            /\ \A t \in Task : task[t].op = "create" => task[t].g # g

\* Repository.save of a copy of the group row or of a member's row.
SaveGroup(g, copy, new) ==
    /\ groups' = [groups EXCEPT ![g] = new]
    /\ blame' = blame \cup IF groups[g] = copy THEN {} ELSE {<<"stale", g>>}
SaveMember(a, copy, role) ==
    /\ members[a].group \in {copy.group, None}
    /\ members' = [members EXCEPT ![a] = [copy EXCEPT !.role = role]]
    /\ blame' = blame \cup IF members[a] = copy THEN {} ELSE {<<"stale", copy.group>>}

-------------------------------------------------------------------------------
(* createGroup *)

\* One mode at a time, as the rows and the cache of the Blockparties have it.
Unbound_Faulty(a) == members[a] = NoRow

Unbound(a) == members[a] = NoRow /\ a \notin party

Create(t, a) ==
    /\ Spend("create") /\ Free(t) /\ Unbound(a)
    /\ \E g \in Group :
        /\ groups[g] = NoGroup /\ \A u \in Task : task[u].g # g
        /\ task' = [task EXCEPT ![t] = [Idle EXCEPT !.op = "create", !.at = "found", !.g = g, !.a = a]]
    /\ UNCHANGED <<rows, cache, party, idle, armed, ghost>>

Found(t) ==
    /\ At(t, "found") /\ Goto(t, "enroll")
    /\ groups' = [groups EXCEPT ![task[t].g] = NewGroup(task[t].a)]
    /\ UNCHANGED <<members, notes, cache, party, idle, armed, budget, ghost>>

\* The second insert fails if the address has joined another group meanwhile.
Enroll(t) ==
    LET g == task[t].g
        a == task[t].a
    IN  /\ At(t, "enroll")
        /\ \/ /\ members[a] = NoRow
              /\ members' = [members EXCEPT ![a] = [group |-> g, role |-> "creator"]]
              /\ idle' = idle \ {a}
              /\ Goto(t, "read") /\ UNCHANGED blame
           \/ /\ members[a] # NoRow
              /\ Done(t) /\ blame' = blame \cup {<<"orphan", g>>} /\ UNCHANGED <<members, idle>>
        /\ UNCHANGED <<groups, notes, cache, party, armed, budget, reads, cachedAt>>

-------------------------------------------------------------------------------
(* addMemberWithoutAdmin *)

Full_Faulty(g) == groups[g].cap > 0 /\ Cardinality(MembersOf(g)) > groups[g].cap

Full(g) == groups[g].cap > 0 /\ Cardinality(MembersOf(g)) >= groups[g].cap

\* The group row is read for its cap, and the members are counted, before the row is
\* inserted.
Add(t) ==
    LET g == task[t].g
    IN  /\ At(t, "add")
        /\ IF Unbound(task[t].a) /\ ~Full(g) THEN Goto(t, "insert") ELSE Done(t)
        /\ UNCHANGED <<rows, cache, party, idle, armed, budget, ghost>>

Inserting(g) == {t \in Task : At(t, "insert") /\ task[t].g = g}

Insert(t) ==
    LET g == task[t].g
        a == task[t].a
    IN  /\ At(t, "insert")
        /\ IF members[a] = NoRow
           THEN /\ members' = [members EXCEPT ![a] = [group |-> g, role |-> "member"]]
                /\ idle' = idle \ {a} /\ Goto(t, "count")
                /\ blame' = blame \cup IF Inserting(g) = {t} THEN {} ELSE {<<"rushed", g>>}
           ELSE Done(t) /\ UNCHANGED <<members, idle, blame>>
        /\ UNCHANGED <<groups, notes, cache, party, armed, budget, reads, cachedAt>>

\* recomputeActive counts, reads the group row, and saves it if the flag is another.
Count(t) ==
    /\ At(t, "count")
    /\ task' = [task EXCEPT ![t].n = Cardinality(MembersOf(task[t].g)), ![t].at = "load"]
    /\ UNCHANGED <<rows, cache, party, idle, armed, budget, ghost>>

ShouldBeActive(n) == n >= MinActive
Miscounted(t) ==
    IF ShouldBeActive(task[t].n) = ShouldBeActive(Cardinality(MembersOf(task[t].g))) THEN {}
    ELSE {<<"miscount", task[t].g>>}

Load(t) ==
    LET g == task[t].g
        row == groups[g]
    IN  /\ At(t, "load")
        /\ IF row.dissolved \/ row.active = ShouldBeActive(task[t].n)
           THEN Goto(t, "read") /\ blame' = blame \cup Miscounted(t)
           ELSE task' = [task EXCEPT ![t].row = row, ![t].at = "store"] /\ UNCHANGED blame
        /\ UNCHANGED <<rows, cache, party, idle, armed, budget, reads, cachedAt>>

Store(t) ==
    LET copy == task[t].row
    IN  /\ At(t, "store") /\ Goto(t, "read")
        /\ groups' = [groups EXCEPT ![task[t].g] = [copy EXCEPT !.active = ~@]]
        /\ blame' = blame \cup Miscounted(t)
                    \cup IF groups[task[t].g] = copy THEN {} ELSE {<<"stale", task[t].g>>}
        /\ UNCHANGED <<members, notes, cache, party, idle, armed, budget, reads, cachedAt>>

\* rebuildCache reads the rows and replaces the map when it has them.
Read(t) ==
    /\ At(t, "read") /\ reads' = reads + 1
    /\ task' = [task EXCEPT ![t].snap = View, ![t].seq = reads + 1, ![t].at = "publish"]
    /\ blame' = blame \ {<<"missed", None>>}
    /\ UNCHANGED <<rows, cache, party, idle, armed, budget, cachedAt>>

Publish(t) ==
    /\ At(t, "publish")
    /\ cache' = task[t].snap /\ cachedAt' = task[t].seq
    /\ IF task[t].i = 0 THEN Done(t)
       ELSE task' = [task EXCEPT ![t].at = "answer", ![t].snap = << >>]
    /\ UNCHANGED <<rows, party, idle, armed, budget, reads, blame>>

-------------------------------------------------------------------------------
(* Invitations to an address *)

Open(i) == notes[i].kind # None /\ notes[i].status = "pending"
Directed(g, a) == {i \in DOMAIN notes : Open(i) /\ notes[i].kind = "directed"
                                        /\ notes[i].group = g /\ notes[i].addr = a}
Links(g) == {i \in DOMAIN notes : Open(i) /\ notes[i].kind = "link" /\ notes[i].group = g}
Requests(a) == {i \in DOMAIN notes : Open(i) /\ notes[i].kind = "request" /\ notes[i].addr = a}
Close(is, status) ==
    notes' = [i \in DOMAIN notes |-> IF i \in is THEN [notes[i] EXCEPT !.status = status] ELSE notes[i]]

\* createInvitationsBatch, of which createInvitation is the case of one address.
Invite(t, g, as) ==
    /\ Spend("invite") /\ Free(t) /\ Admin(g)
    /\ task' = [task EXCEPT ![t] = [Idle EXCEPT !.op = "invite", !.at = "invite", !.g = g,
                                                !.rest = as, !.row = groups[g]]]
    /\ UNCHANGED <<rows, cache, party, idle, armed, ghost>>

\* The checks of one address; a token that was replaced ends the batch, any other
\* refusal skips the address.
Check(t) ==
    LET g == task[t].g
        a == CHOOSE b \in task[t].rest : TRUE
        current == groups[g].token = task[t].row.token
        open == /\ Alive(g) /\ members[a] = NoRow /\ a \in Verified
                /\ \A i \in Directed(g, a) : notes[i].old
    IN  /\ At(t, "invite")
        /\ IF task[t].rest = {} \/ (Alive(g) /\ ~current) THEN Done(t)
           ELSE task' = [task EXCEPT ![t].rest = @ \ {a}, ![t].a = a,
                                     ![t].at = IF open THEN "mint" ELSE @]
        /\ UNCHANGED <<rows, cache, party, idle, armed, budget, ghost>>

Mint(t) ==
    LET g == task[t].g
        a == task[t].a
        lapsed(i) == i \in Directed(g, a) /\ notes[i].old
    IN  /\ At(t, "mint") /\ Goto(t, "invite")
        /\ notes' = Append([i \in DOMAIN notes |-> IF lapsed(i) THEN [notes[i] EXCEPT !.status = "expired"]
                                                   ELSE notes[i]],
                           Note("directed", g, a, FALSE))
        /\ UNCHANGED <<groups, members, cache, party, idle, armed, budget, ghost>>

\* accept keeps the copy of the invitation it has read; pending or expired, but not
\* past its date, leads on, and past its date it is marked.
Accept(t, i) ==
    /\ Spend("accept") /\ notes[i].kind = "directed" /\ notes[i].status \in {"pending", "expired"}
    /\ \/ /\ notes[i].old /\ Close({i}, "expired") /\ UNCHANGED task
       \/ /\ ~notes[i].old /\ Free(t)
          /\ task' = [task EXCEPT ![t] =
                [Idle EXCEPT !.op = "accept", !.at = "look", !.g = notes[i].group,
                             !.a = notes[i].addr, !.i = i, !.note = notes[i], !.verdict = "accepted"]]
          /\ UNCHANGED notes
    /\ UNCHANGED <<groups, members, cache, party, idle, armed, ghost>>

\* acceptOpenInvite: the link stays what it is.
Claimable_Faulty(i) == Open(i) /\ notes[i].kind = "link" /\ ~notes[i].old

Claimable(i) ==
    Open(i) /\ notes[i].kind = "link" /\ ~notes[i].old /\ ~notes[i].approval

Claim(t, i, a) ==
    /\ Spend("claim") /\ Claimable(i) /\ a \in Verified /\ Free(t)
    /\ task' = [task EXCEPT ![t] = [Idle EXCEPT !.op = "claim", !.at = "look", !.g = notes[i].group,
                                                !.a = a]]
    /\ UNCHANGED <<rows, cache, party, idle, armed, ghost>>

\* A link past its date is marked by the one who follows it.
ClaimLapsed(i) ==
    /\ Spend("claim") /\ Open(i) /\ notes[i].kind = "link" /\ notes[i].old
    /\ Close({i}, "expired")
    /\ UNCHANGED <<groups, members, cache, party, idle, armed, task, ghost>>

\* Both look for the group and the member; an invitation whose address is in the
\* group already is answered at once.
StillThere_Faulty(g) == groups[g] # NoGroup
StillThere(g) == Alive(g)

Look(t) ==
    LET g == task[t].g
        a == task[t].a
    IN  /\ At(t, "look")
        /\ IF StillThere(g) /\ members[a] = NoRow THEN Goto(t, "add")
           ELSE IF StillThere(g) /\ members[a].group = g /\ task[t].op = "accept" THEN Goto(t, "answer")
           ELSE Done(t)
        /\ UNCHANGED <<rows, cache, party, idle, armed, budget, ghost>>

\* The copy is saved whole: a cancelled row comes back, another answer is replaced.
Answer(t) ==
    LET i == task[t].i
    IN  /\ At(t, "answer") /\ Done(t)
        /\ notes' = [notes EXCEPT ![i] = [task[t].note EXCEPT !.status = task[t].verdict, !.old = notes[i].old]]
        /\ UNCHANGED <<groups, members, cache, party, idle, armed, budget, ghost>>

Decline(t, i) ==
    /\ Spend("decline") /\ Free(t) /\ Open(i) /\ notes[i].kind = "directed"
    /\ task' = [task EXCEPT ![t] = [Idle EXCEPT !.op = "decline", !.at = "answer", !.i = i,
                                                !.note = notes[i], !.verdict = "declined"]]
    /\ UNCHANGED <<rows, cache, party, idle, armed, ghost>>

\* The row is deleted; its number is not used again.
Cancel(g, a) ==
    /\ Spend("cancel") /\ Admin(g)
    /\ \E i \in Directed(g, a) : Close({i}, "deleted")
    /\ UNCHANGED <<groups, members, cache, party, idle, armed, task, ghost>>

-------------------------------------------------------------------------------
(* Open links *)

\* createOpenInvite is one transaction, under READ COMMITTED: its UPDATE finds what
\* is committed, and a link another transaction is about to insert is not.
CreateOpen(t, g, approval) ==
    /\ Spend("open") /\ Free(t) /\ Admin(g)
    /\ task' = [task EXCEPT ![t] = [Idle EXCEPT !.op = "open", !.at = "revoke", !.g = g,
                                                !.note = Note("link", g, None, approval)]]
    /\ UNCHANGED <<rows, cache, party, idle, armed, ghost>>

RevokeOld(t) ==
    /\ At(t, "revoke")
    /\ task' = [task EXCEPT ![t].rest = Links(task[t].g), ![t].at = "commit"]
    /\ UNCHANGED <<rows, cache, party, idle, armed, budget, ghost>>

Commit(t) ==
    LET gone(i) == i \in task[t].rest /\ Open(i)
    IN  /\ At(t, "commit") /\ Done(t)
        /\ notes' = Append([i \in DOMAIN notes |-> IF gone(i) THEN [notes[i] EXCEPT !.status = "revoked"]
                                                   ELSE notes[i]],
                           task[t].note)
        /\ UNCHANGED <<groups, members, cache, party, idle, armed, budget, ghost>>

RevokeOpen(g) ==
    /\ Spend("revoke") /\ Admin(g) /\ Links(g) # {} /\ Close(Links(g), "revoked")
    /\ UNCHANGED <<groups, members, cache, party, idle, armed, task, ghost>>

\* getActiveOpenInvite shows the admin the newest one.
ActiveLink(g) == {i \in Links(g) : ~notes[i].old /\ \A k \in Links(g) : k <= i}

-------------------------------------------------------------------------------
(* Join requests *)

\* The unique index admits one pending request of an address to a group.
Request(t, g, a) ==
    /\ Spend("request") /\ Free(t)
    /\ Alive(g) /\ groups[g].public /\ a \in Verified /\ members[a] = NoRow
    /\ Cardinality(Requests(a)) < MaxPending
    /\ ~ \E i \in DOMAIN notes : /\ notes[i].kind = "request" /\ notes[i].group = g /\ notes[i].addr = a
                                 /\ notes[i].status = "rejected" /\ ~notes[i].old
    /\ task' = [task EXCEPT ![t] = [Idle EXCEPT !.op = "request", !.at = "file", !.g = g, !.a = a]]
    /\ UNCHANGED <<rows, cache, party, idle, armed, ghost>>

File(t) ==
    LET g == task[t].g
        a == task[t].a
    IN  /\ At(t, "file") /\ Done(t)
        /\ notes' = IF \E i \in Requests(a) : notes[i].group = g THEN notes
                    ELSE Append(notes, Note("request", g, a, FALSE))
        /\ UNCHANGED <<groups, members, cache, party, idle, armed, budget, ghost>>

\* approveRequest; an address that is elsewhere by now is rejected.
Approve(t, i) ==
    LET g == notes[i].group
        a == notes[i].addr
    IN  /\ Spend("approve") /\ Free(t) /\ Open(i) /\ notes[i].kind = "request" /\ Admin(g)
        /\ task' = [task EXCEPT ![t] =
                [Idle EXCEPT !.op = "approve", !.g = g, !.a = a, !.i = i, !.note = notes[i],
                             !.verdict = IF members[a].group \in {g, None} THEN "approved" ELSE "rejected",
                             !.at = IF members[a] = NoRow THEN "add" ELSE "answer"]]
        /\ UNCHANGED <<rows, cache, party, idle, armed, ghost>>

Reject(t, i) ==
    /\ Spend("reject") /\ Free(t) /\ Open(i) /\ notes[i].kind = "request" /\ Admin(notes[i].group)
    /\ task' = [task EXCEPT ![t] = [Idle EXCEPT !.op = "reject", !.at = "answer", !.i = i,
                                                !.note = notes[i], !.verdict = "rejected"]]
    /\ UNCHANGED <<rows, cache, party, idle, armed, ghost>>

\* expireOld and expireStale.
ExpireOld ==
    /\ Spend("expire")
    /\ Close({i \in DOMAIN notes : Open(i) /\ notes[i].old}, "expired") /\ notes' # notes
    /\ UNCHANGED <<groups, members, cache, party, idle, armed, task, ghost>>

-------------------------------------------------------------------------------
(* Administration *)

\* internalRemove: only who is idle and was not the creator when looked up.
Kick(t, g, a) ==
    /\ Spend("kick") /\ Free(t) /\ Admin(g)
    /\ members[a] = [group |-> g, role |-> "member"] /\ a \in idle
    /\ task' = [task EXCEPT ![t] = [Idle EXCEPT !.op = "kick", !.at = "remove", !.g = g, !.a = a]]
    /\ UNCHANGED <<rows, cache, party, idle, armed, ghost>>

\* One transaction: the row, and the flag from what remains.
Recount(g, remaining) ==
    IF groups[g].dissolved THEN groups[g]
    ELSE [groups[g] EXCEPT !.active = ShouldBeActive(Cardinality(remaining))]

Remove(t) ==
    LET g == task[t].g
        a == task[t].a
    IN  /\ At(t, "remove") /\ Goto(t, "read")
        /\ members' = [members EXCEPT ![a] = IF @.group = g THEN NoRow ELSE @]
        /\ groups' = [groups EXCEPT ![g] = Recount(g, MembersOf(g) \ {a})]
        /\ blame' = blame \cup IF members[a].role = "creator" THEN {<<"stale", g>>} ELSE {}
        /\ UNCHANGED <<notes, cache, party, idle, armed, budget, reads, cachedAt>>

\* transferCreator: three copies, three saves.
Transfer(t, g, a) ==
    LET holders == {b \in MembersOf(g) : members[b].role = "creator"}
    IN  /\ Spend("transfer") /\ Free(t) /\ Admin(g)
        /\ members[a] = [group |-> g, role |-> "member"]
        /\ \E b \in IF holders = {} THEN {None} ELSE holders :
            task' = [task EXCEPT ![t] =
                [Idle EXCEPT !.op = "transfer", !.at = IF b = None THEN "promote" ELSE "demote",
                             !.g = g, !.a = a, !.row = groups[g], !.new = members[a], !.from = b,
                             !.old = IF b = None THEN NoRow ELSE members[b]]]
        /\ UNCHANGED <<rows, cache, party, idle, armed, ghost>>

\* A member's row was deleted and another one has its address: the save fails.
Clashes(a, copy) == members[a].group \notin {copy.group, None}

Demote(t) ==
    /\ At(t, "demote") /\ ~Clashes(task[t].from, task[t].old) /\ Goto(t, "promote")
    /\ SaveMember(task[t].from, task[t].old, "member")
    /\ UNCHANGED <<groups, notes, cache, party, idle, armed, budget, reads, cachedAt>>

Promote(t) ==
    /\ At(t, "promote") /\ ~Clashes(task[t].a, task[t].new) /\ Goto(t, "hand")
    /\ SaveMember(task[t].a, task[t].new, "creator")
    /\ UNCHANGED <<groups, notes, cache, party, idle, armed, budget, reads, cachedAt>>

Handed_Faulty(copy, a) == [copy EXCEPT !.token = @ + 1]

Handed(copy, a) == [copy EXCEPT !.token = @ + 1, !.creator = a]

HandOver(t) ==
    /\ At(t, "hand") /\ Goto(t, "read")
    /\ SaveGroup(task[t].g, task[t].row, Handed(task[t].row, task[t].a))
    /\ UNCHANGED <<members, notes, cache, party, idle, armed, budget, reads, cachedAt>>

\* updateRoundResetConfig: the row, the visibility, the cap and the schedule; the job
\* is armed from the row that was saved.
Settings(t, g, patch) ==
    /\ Spend("settings") /\ Free(t) /\ Admin(g)
    /\ task' = [task EXCEPT ![t] = [Idle EXCEPT !.op = "settings", !.at = "patch", !.g = g,
                                                !.row = groups[g], !.rest = patch]]
    /\ UNCHANGED <<rows, cache, party, idle, armed, ghost>>

Patched(row, patch) ==
    [row EXCEPT !.public = @ \/ "public" \in patch, !.cap = IF "cap" \in patch THEN Cap ELSE @,
                !.timed = IF "timed" \in patch THEN ~@ ELSE @]

Patch(t) ==
    LET g == task[t].g
        new == Patched(task[t].row, task[t].rest)
    IN  /\ At(t, "patch") /\ Done(t)
        /\ groups' = [groups EXCEPT ![g] = new]
        /\ armed' = IF ~new.dissolved /\ new.timed THEN armed \cup {g} ELSE armed \ {g}
        /\ blame' = blame \cup (IF groups[g] = task[t].row THEN {} ELSE {<<"stale", g>>})
                    \cup (IF new.cap > 0 /\ Inserting(g) # {} THEN {<<"rushed", g>>} ELSE {})
                    \cup (IF new.cap > 0 /\ Cardinality(MembersOf(g)) > new.cap THEN {<<"lowered", g>>} ELSE {})
        /\ UNCHANGED <<members, notes, cache, party, idle, budget, reads, cachedAt>>

\* dissolveInternal: the job and the round go first, then the members, the row last.
Dissolve(t, g) ==
    /\ Spend("dissolve") /\ Free(t) /\ Admin(g)
    /\ armed' = armed \ {g}
    /\ task' = [task EXCEPT ![t] = [Idle EXCEPT !.op = "dissolve", !.at = "empty", !.g = g]]
    /\ UNCHANGED <<rows, cache, party, idle, ghost>>

Empty(t) ==
    /\ At(t, "empty") /\ Goto(t, "last")
    /\ members' = [a \in Address |-> IF members[a].group = task[t].g THEN NoRow ELSE members[a]]
    /\ UNCHANGED <<groups, notes, cache, party, idle, armed, budget, ghost>>

Last(t) ==
    /\ At(t, "last")
    /\ task' = [task EXCEPT ![t].row = groups[task[t].g], ![t].at = "bury"]
    /\ UNCHANGED <<rows, cache, party, idle, armed, budget, ghost>>

\* Who is past the look for the group, or was let in while it was emptied, stays.
Joining(g) == {t \in Task : task[t].g = g /\ task[t].at \in {"add", "insert"}}

Bury(t) ==
    LET g == task[t].g
        copy == task[t].row
    IN  /\ At(t, "bury") /\ Goto(t, "read")
        /\ groups' = [groups EXCEPT ![g] = [copy EXCEPT !.active = FALSE, !.dissolved = TRUE]]
        /\ blame' = blame \cup (IF groups[g] = copy THEN {} ELSE {<<"stale", g>>})
                    \cup (IF Joining(g) # {} \/ MembersOf(g) # {} THEN {<<"outlived", g>>} ELSE {})
        /\ UNCHANGED <<members, notes, cache, party, idle, armed, budget, reads, cachedAt>>

-------------------------------------------------------------------------------
(* The rest of the world *)

\* The cron job of a group that is gone, or has no schedule, removes itself.
FireIfDue(g) ==
    /\ Spend("fire") /\ g \in armed /\ (~Alive(g) \/ ~groups[g].timed)
    /\ armed' = armed \ {g}
    /\ UNCHANGED <<rows, cache, party, idle, task, ghost>>

\* BlockpartyService takes in who is in no group, by the cache of this service.
PartyJoins(a) ==
    /\ Spend("party") /\ a \notin DOMAIN cache /\ a \notin party /\ party' = party \cup {a}
    /\ blame' = blame \cup IF members[a] = NoRow /\ \A t \in Task : task[t].a = a => task[t].at \notin {"found", "enroll", "insert"}
                           THEN {} ELSE {<<"crossed", a>>}
    /\ UNCHANGED <<rows, cache, idle, armed, task, reads, cachedAt>>

\* Time passes: dates, the cooldown of a rejection, the days without a share.
Age(i) ==
    /\ Spend("age") /\ ~notes[i].old /\ notes' = [notes EXCEPT ![i].old = TRUE]
    /\ UNCHANGED <<groups, members, cache, party, idle, armed, task, ghost>>

FallIdle(a) ==
    /\ Spend("idle") /\ a \notin idle /\ idle' = idle \cup {a}
    /\ UNCHANGED <<rows, cache, party, armed, task, ghost>>

\* A query of a call is refused: it throws, and the controller answers an error.
Fail(t) ==
    LET r == task[t]
        torn == \/ r.op = "transfer" /\ r.at \in {"promote", "hand"}
                \/ r.op = "dissolve" /\ r.at \in {"last", "bury"}
    IN  /\ Spend("fault") /\ r.at # "idle" /\ Done(t)
        /\ blame' = blame \cup (IF torn THEN {<<"torn", r.g>>} ELSE {})
                    \cup (IF r.op = "create" /\ r.at # "found" THEN {<<"orphan", r.g>>} ELSE {})
                    \cup (IF r.at \in {"count", "load", "store"} THEN {<<"miscount", r.g>>} ELSE {})
                    \cup (IF torn \/ r.at \in {"count", "load", "store", "read"} THEN {<<"missed", None>>} ELSE {})
        /\ UNCHANGED <<rows, cache, party, idle, armed, reads, cachedAt>>

\* A save that cannot find its place fails like a query.
Torn(t) ==
    /\ \/ At(t, "demote") /\ Clashes(task[t].from, task[t].old)
       \/ At(t, "promote") /\ Clashes(task[t].a, task[t].new)
    /\ Done(t) /\ blame' = blame \cup {<<"torn", task[t].g>>, <<"missed", None>>}
    /\ UNCHANGED <<rows, cache, party, idle, armed, budget, reads, cachedAt>>

Resume(t) ==
    \/ Found(t) \/ Enroll(t) \/ Add(t) \/ Insert(t) \/ Count(t) \/ Load(t) \/ Store(t)
    \/ Read(t) \/ Publish(t) \/ Check(t) \/ Mint(t) \/ Look(t) \/ Answer(t)
    \/ RevokeOld(t) \/ Commit(t) \/ File(t) \/ Remove(t) \/ Demote(t) \/ Promote(t)
    \/ HandOver(t) \/ Torn(t) \/ Patch(t) \/ Empty(t) \/ Last(t) \/ Bury(t) \/ Fail(t)

Call(t) ==
    \/ \E a \in Address : Create(t, a)
    \/ \E g \in Group :
        \/ \E as \in SUBSET Address \ {{}} : Invite(t, g, as)
        \/ \E b \in BOOLEAN : CreateOpen(t, g, b)
        \/ \E a \in Address : Request(t, g, a) \/ Kick(t, g, a) \/ Transfer(t, g, a)
        \/ \E patch \in {{"public"}, {"cap"}, {"timed"}} : Settings(t, g, patch)
        \/ Dissolve(t, g)
    \/ \E i \in DOMAIN notes :
        \/ Accept(t, i) \/ Decline(t, i) \/ Approve(t, i) \/ Reject(t, i)
        \/ \E a \in Address : Claim(t, i, a)

World ==
    \/ \E g \in Group : RevokeOpen(g) \/ FireIfDue(g) \/ \E a \in Address : Cancel(g, a)
    \/ \E a \in Address : PartyJoins(a) \/ FallIdle(a)
    \/ \E i \in DOMAIN notes : Age(i) \/ ClaimLapsed(i)
    \/ ExpireOld

Next == (\E t \in Task : Call(t) \/ Resume(t)) \/ World

Spec == Init /\ [][Next]_vars

-------------------------------------------------------------------------------
(* Properties *)

\* Rows have their columns, an address is in groups that exist, a task knows its group.
TypeOK ==
    /\ \A g \in Group : groups[g] = NoGroup \/ groups[g] \in Row
    /\ \A a \in Address : members[a] = NoRow \/
        (members[a] \in Seat /\ groups[members[a].group] # NoGroup)
    /\ DOMAIN cache \subseteq Address /\ party \subseteq Address /\ idle \subseteq Address
    /\ armed \subseteq {g \in Group : groups[g] # NoGroup}
    /\ \A t \in Task : At(t, "idle") => task[t] = Idle

Blamed(causes, g) == \E c \in causes : <<c, g>> \in blame
Quiet(g) == \A t \in Task : task[t].g # g

\* A group that no call works on has one creator, the one its row names, and is active
\* exactly when two members are in it (group.service.ts 396-431, 684-692): unless a copy
\* that was out of date was saved, a transfer failed half way, or the members that were
\* counted changed before the flag was saved.
GroupIsConsistent ==
    \A g \in Group :
        Alive(g) /\ Quiet(g) /\ ~Blamed({"stale", "torn", "orphan"}, g) =>
            /\ {a \in MembersOf(g) : members[a].role = "creator"} = {groups[g].creator}
            /\ Blamed({"miscount"}, g)
               \/ groups[g].active = (Cardinality(MembersOf(g)) >= MinActive)

\* More members than the cap (group.service.ts 281-290) come only from calls that
\* overlapped between the count and the insert, or a cap below what was there.
CapHolds ==
    \A g \in Group : Alive(g) /\ groups[g].cap > 0 /\ ~Blamed({"rushed", "lowered", "stale"}, g) =>
        Cardinality(MembersOf(g)) <= groups[g].cap

\* When no call is in flight the cache is what the rows say (group.service.ts 138-154),
\* unless the last refresh failed or an older one was set after it.
CacheFollowsRows ==
    (\A t \in Task : At(t, "idle")) /\ cachedAt = reads /\ <<"missed", None>> \notin blame
    /\ (\A g \in Group : ~Blamed({"stale"}, g))
        => \A a \in Address :
            IF members[a] # NoRow /\ Alive(members[a].group)
            THEN a \in DOMAIN cache /\ cache[a] = [group |-> members[a].group,
                                                  active |-> groups[members[a].group].active]
            ELSE a \notin DOMAIN cache

\* An address is in a group and in a Blockparty only if both let it in at a time, the
\* cache the Blockparty asks was out of date (group.service.ts 674-682), or a transfer
\* brought the member back that a dissolution had set free for the Blockparty.
OneModeAtATime ==
    \A a \in party : members[a] # NoRow =>
        <<"crossed", a>> \in blame \/ Blamed({"stale"}, members[a].group)

\* Nobody enters a group but its founder, who was invited there, who followed a link that
\* needs no approval, and whose own request the admin approved (pplns-group-invitation
\* .service.ts 490-499, pplns-group-join-request.service.ts 187-214); a transfer can
\* bring back a member that was removed during it.
Welcome(g, a, i) ==
    /\ notes[i].group = g
    /\ \/ notes[i].kind = "directed" /\ notes[i].addr = a
       \/ notes[i].kind = "link" /\ ~notes[i].approval
       \/ /\ notes[i].kind = "request" /\ notes[i].addr = a
          /\ \E t \in Task : task[t].op = "approve" /\ task[t].i = i

BothAgreed ==
    [][\A a \in Address, g \in Group :
        members[a].group # g /\ members'[a].group = g =>
            \/ \E t \in Task : task[t].op = "create" /\ task[t].g = g /\ task[t].a = a
            \/ \E i \in DOMAIN notes : Welcome(g, a, i)
            \/ \E t \in Task : task[t].op = "transfer" /\ <<"stale", g>> \in blame']_vars

\* A group that was dissolved stays so and keeps no members, unless a call that saves an
\* older copy, or adds to a group it found alive, overlapped (group.service.ts 648-667).
DissolvedForGood ==
    [][\A g \in Group : groups[g] # NoGroup /\ groups[g].dissolved =>
        \/ groups'[g].dissolved /\ MembersOf(g)' = {}
        \/ \E c \in {"stale", "outlived", "torn"} : <<c, g>> \in blame']_vars

\* Every link that lets people in is the one the admin is shown: "so two concurrent admin
\* clicks can't race to leave two active open invites for the same group"
\* (pplns-group-invitation.service.ts 378-380).
OneOpenLink == \A g \in Group : \A i \in Links(g) : notes[i].old \/ i \in ActiveLink(g)
===============================================================================
