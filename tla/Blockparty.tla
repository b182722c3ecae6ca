------------------------------ MODULE Blockparty ------------------------------
(***************************************************************************)
(* One Blockparty: the group row with its status, the member rows with     *)
(* splits and confirmations, the invitations, and the caches the Stratum   *)
(* layer routes by (BlockpartyService, BlockpartyInvitationService).       *)
(*                                                                         *)
(* Every round trip to the database is a step, and the handlers in Caller  *)
(* overlap.  A row is saved whole: an entity that was read before an await *)
(* overwrites what others wrote in between, and a row that was deleted     *)
(* meanwhile is inserted again.                                            *)
(*                                                                         *)
(* An operator whose name ends in _Faulty or _FaultyN is a broken variant  *)
(* of the definition below it, used by nothing: see PplnsEngine.           *)
(***************************************************************************)
EXTENDS Integers, FiniteSetsExt, Functions, SequencesExt

CONSTANTS
    Admin, Member,      \* the treasury address, the addresses invited to join
    Caller,             \* handlers in flight
    Percent, Total,     \* parts an admin may give an address, and what they are parts of
    Reward, FeePercent, \* of a block, and the pool's part of it in percent
    Threshold,          \* smallest output
    MaxRows,            \* bound: times an address is added
    Resent,             \* bound: addresses the admin resends an invitation to
    Overlap,            \* bound: handlers that write the same rows may overlap
    MaxInvites,         \* bound: invitations of an address
    None

Address == {Admin} \cup Member

ASSUME PartyAssumption ==
    /\ Admin \notin Member /\ None \notin Address
    /\ Total \in Nat \ {0} /\ Percent \in [Address -> SUBSET (1..Total)]
    /\ Resent \subseteq Address /\ Overlap \in BOOLEAN
    /\ Reward \in Nat \ {0} /\ FeePercent \in 0..100 /\ Threshold \in Nat
    /\ MaxRows \in Nat \ {0} /\ MaxInvites \in Nat

VARIABLES
    group,      \* its row: status, and whether the last share is recent
    row,        \* member rows
    invite,     \* invitation rows of an address, oldest first
    token,      \* the creator has been told the admin token
    route,      \* adminAddressCache: status the share path sees
    known,      \* addressCache
    job,        \* the party's coinbase that is being mined
    booked,     \* the last block of the party
    calls,      \* handlers
    adds,       \* rows an address has had
    past        \* ghost: whether a handler failed, and a later one repaired the caches

db    == <<group, row, invite, adds>>
cache == <<route, known>>
mine  == <<job, booked>>
vars  == <<db, token, cache, mine, calls, past>>

Status == {"none", "draft", "confirming", "ready", "active", "dissolved"}
Editable == {"draft", "confirming", "ready"}
Routable == {"ready", "active"}
Group  == [status : Status, recent : BOOLEAN]
Row    == [id : 1..MaxRows, percent : 1..Total, confirmed : BOOLEAN, token : BOOLEAN]
Invite == {"pending", "lapsed", "accepted", "declined", "expired"}
Op     == {"create", "add", "remove", "splits", "accept", "confirm", "respond",
           "resend", "transition", "dissolve", "hint", "share"}
PC     == {"admin", "insert", "promote", "group", "members", "status", "rebuild",
           "caches", "mint", "find", "delete", "edit", "save", "answer", "invites",
           "lapse", "list", "sum", "write"}
NoCall == [pc |-> "idle"]
Call   == [pc : PC, op : Op, who : Address, nr : Nat, to : Invite \cup {None},
           grp : Group \cup {None}, mem : Row \cup {None},
           splits : UNION {[S -> 1..Total] : S \in SUBSET Address}]

\* The absence of a row or of a cache entry is neither.
ASSUME NoneAssumption == None \notin Row /\ None \notin Status

Joined == {a \in Address : row[a] # None}
Splits == [a \in Joined |-> row[a].percent]
Idle(c) == calls[c].pc = "idle"

Init ==
    /\ group = [status |-> "none", recent |-> FALSE]
    /\ row = [a \in Address |-> None] /\ adds = [a \in Address |-> 0]
    /\ invite = [a \in Address |-> <<>>]
    /\ token = FALSE /\ route = None /\ known = {} /\ job = None /\ booked = None
    /\ calls = [c \in Caller |-> NoCall] /\ past = "clean"

-------------------------------------------------------------------------------
(* buildBlockpartyDistribution and the coinbase MiningJob makes of it. *)

BaseFee == (Reward * FeePercent) \div 100

Nominal(percent) == ((Reward - BaseFee) * percent) \div Total

Sats_Faulty(s, a) == Nominal(s[a])      \* dust is paid

Sats(s, a) == IF Nominal(s[a]) < Threshold THEN 0 ELSE Nominal(s[a])

\* The fee output takes the rest.  When there is no rest it is left out and the
\* first output, the admin's unless it is dust, is adjusted to the reward.
Coinbase(s) ==
    LET sats  == [a \in DOMAIN s |-> Sats(s, a)]
        fee   == Reward - SumFunction(sats)
        first == IF Admin \in DOMAIN s /\ sats[Admin] > 0 THEN Admin
                 ELSE CHOOSE a \in DOMAIN s : sats[a] > 0
    IN  IF fee >= 0 THEN [fee |-> fee, sats |-> sats]
        ELSE [fee |-> 0, sats |-> [sats EXCEPT ![first] = @ + fee]]

-------------------------------------------------------------------------------
(* Handlers: how they begin, go on and end. *)

\* Handlers that overlap without harm: shares with each other, and
\* confirmations with each other.
Tame(op1, op2) ==
    \/ op1 = "share" /\ op2 = "share"
    \/ op1 \in {"accept", "confirm"} /\ op2 \in {"accept", "confirm"}

NoSplits == [a \in {} |-> 0]

New(op, pc) == [pc |-> pc, op |-> op, who |-> Admin, nr |-> 0, to |-> None, grp |-> None,
                mem |-> None, splits |-> NoSplits]

Begin(c, call) ==
    /\ Idle(c)
    /\ calls' = [calls EXCEPT ![c] = call]
    /\ Overlap \/ {d \in Caller : ~Idle(d) /\ ~Tame(call.op, calls[d].op)} = {}
    /\ UNCHANGED past

At(c, pc) == calls[c].pc = pc
Go(c, pc) == calls' = [calls EXCEPT ![c].pc = pc]
End(c)    == calls' = [calls EXCEPT ![c] = NoCall]
Forget(c, pc) == calls' = [calls EXCEPT ![c].pc = pc, ![c].grp = None, ![c].mem = None,
                                        ![c].splits = NoSplits]

\* requireAdminToken, with assertEditable where the operation has it.
ByAdmin == token

Edited_Faulty == token      \* edits in every state

Edited  == token /\ group.status \in Editable

\* createGroup: the unique indexes on name and admin address admit one.
CreateGroup(c) ==
    /\ group.status = "none"
    /\ \E p \in Percent[Admin] :
           Begin(c, [New("create", "admin") EXCEPT !.splits = [x \in {Admin} |-> p]])
    /\ group' = [status |-> "draft", recent |-> FALSE]
    /\ UNCHANGED <<row, invite, adds, token, cache, mine>>

CreateAdmin(c) ==
    /\ At(c, "admin")
    /\ row' = [row EXCEPT ![Admin] = [id |-> 1, percent |-> calls[c].splits[Admin],
                                      confirmed |-> TRUE, token |-> FALSE]]
    /\ adds' = [adds EXCEPT ![Admin] = 1]
    /\ Forget(c, "rebuild")
    /\ UNCHANGED <<group, invite, token, cache, mine, past>>

AddMember_Faulty(c) ==      \* without assertPercentBpInRange
    /\ Edited
    /\ \E a \in Member, p \in 0..Total :
           /\ adds[a] + Cardinality({d \in Caller : At(d, "insert")}) < MaxRows
           /\ Begin(c, [New("add", "insert") EXCEPT !.who = a, !.grp = group,
                                                   !.splits = [x \in {a} |-> p]])
    /\ UNCHANGED <<db, token, cache, mine>>

AddMember(c) ==
    /\ Edited
    /\ \E a \in Member : \E p \in Percent[a] :
           /\ adds[a] + Cardinality({d \in Caller : At(d, "insert")}) < MaxRows
           /\ Begin(c, [New("add", "insert") EXCEPT !.who = a, !.grp = group,
                                                   !.splits = [x \in {a} |-> p]])
    /\ UNCHANGED <<db, token, cache, mine>>

\* The lookup before the insert adds nothing to the unique index on the address.
Insert(c) ==
    LET a == calls[c].who IN
    /\ At(c, "insert")
    /\ IF row[a] # None THEN End(c) /\ UNCHANGED <<row, adds>>
       ELSE /\ row' = [row EXCEPT ![a] = [id |-> adds[a] + 1, percent |-> calls[c].splits[a],
                                          confirmed |-> FALSE, token |-> FALSE]]
            /\ adds' = [adds EXCEPT ![a] = @ + 1]
            /\ IF calls[c].grp.status = "draft" THEN Go(c, "promote") ELSE Forget(c, "group")
    /\ UNCHANGED <<group, invite, token, cache, mine, past>>

\* Also the save of transitionToConfirming.
Promote(c) ==
    /\ At(c, "promote")
    /\ group' = [calls[c].grp EXCEPT !.status = "confirming"]
    /\ Forget(c, "group")
    /\ UNCHANGED <<row, invite, adds, token, cache, mine, past>>

-------------------------------------------------------------------------------
(* recomputeStatus and rebuildCache, the tails of most handlers. *)

Onward(c) ==
    CASE calls[c].op \in {"add", "remove"} -> Forget(c, "rebuild")
      [] calls[c].op = "accept"            -> Forget(c, "answer")
      [] calls[c].op = "resend"            -> Forget(c, "mint")
      [] OTHER                             -> End(c)

RecomputeGroup(c) ==
    /\ At(c, "group")
    /\ IF group.status \in {"confirming", "ready"}
       THEN calls' = [calls EXCEPT ![c].pc = "members", ![c].grp = group]
       ELSE Onward(c)
    /\ UNCHANGED <<db, token, cache, mine, past>>

RecomputeMembers(c) ==
    LET target == IF Joined # {} /\ \A a \in Joined : row[a].confirmed
                  THEN "ready" ELSE "confirming" IN
    /\ At(c, "members")
    /\ IF calls[c].grp.status = target THEN Onward(c)
       ELSE calls' = [calls EXCEPT ![c].pc = "status", ![c].grp.status = target]
    /\ UNCHANGED <<db, token, cache, mine, past>>

RecomputeSave_Faulty(c) ==      \* the routing cache keeps the old status
    /\ At(c, "status")
    /\ group' = calls[c].grp
    /\ Onward(c)
    /\ UNCHANGED <<row, invite, adds, token, cache, mine, past>>

RecomputeSave(c) ==
    /\ At(c, "status")
    /\ group' = calls[c].grp
    /\ route' = calls[c].grp.status
    /\ Onward(c)
    /\ UNCHANGED <<row, invite, adds, token, known, mine, past>>

RebuildGroup(c) ==
    /\ At(c, "rebuild")
    /\ calls' = [calls EXCEPT ![c].pc = "caches", ![c].grp = group]
    /\ UNCHANGED <<db, token, cache, mine, past>>

Caches(status) ==
    IF status \in {"none", "dissolved"} THEN route' = None /\ known' = {}
    ELSE route' = status /\ known' = Joined

\* The creator has the token when createGroup returns; a new member is invited.
RebuildCaches(c) ==
    /\ At(c, "caches")
    /\ Caches(calls[c].grp.status)
    /\ token' = (token \/ calls[c].op = "create")
    /\ past' = IF past = "failed" THEN "repaired" ELSE past
    /\ IF calls[c].op = "add" THEN Forget(c, "mint") ELSE End(c)
    /\ UNCHANGED <<db, mine>>

-------------------------------------------------------------------------------
(* Members, splits and confirmations. *)

RemoveMember(c) ==
    /\ Edited
    /\ \E a \in Member : Begin(c, [New("remove", "find") EXCEPT !.who = a])
    /\ UNCHANGED <<db, token, cache, mine>>

\* Invitations bound here: those an address has and those under way.
MayInvite(a) ==
    Len(invite[a]) + Cardinality({c \in Caller : ~Idle(c) /\ calls[c].who = a
                                     /\ calls[c].op \in {"add", "resend"}}) < MaxInvites

UpdateSplits(c) ==
    /\ Edited
    /\ \E S \in SUBSET Joined : \E new \in [S -> 1..Total] :
           /\ \A a \in S : new[a] \in Percent[a]
           /\ Begin(c, [New("splits", "edit") EXCEPT !.splits = new])
    /\ UNCHANGED <<db, token, cache, mine>>

Edit_Faulty(c) ==       \* members keep their confirmation
    LET new == calls[c].splits IN
    /\ At(c, "edit")
    /\ row' = [a \in Address |->
                  IF row[a] = None THEN None
                  ELSE [row[a] EXCEPT !.percent = IF a \in DOMAIN new THEN new[a] ELSE @]]
    /\ Go(c, "group")
    /\ UNCHANGED <<group, invite, adds, token, cache, mine, past>>

\* One transaction: every row is written, and all but the admin confirm anew.
Edit(c) ==
    LET new == calls[c].splits IN
    /\ At(c, "edit")
    /\ IF DOMAIN new \subseteq Joined
       THEN /\ row' = [a \in Address |->
                  IF row[a] = None THEN None
                  ELSE [row[a] EXCEPT !.percent = IF a \in DOMAIN new THEN new[a] ELSE @,
                                      !.confirmed = (a = Admin)]]
            /\ Forget(c, "group")
       ELSE End(c) /\ UNCHANGED row
    /\ UNCHANGED <<group, invite, adds, token, cache, mine, past>>

\* requirePending, then markMemberConfirmed.
Accept(c) ==
    /\ \E a \in Address : \E i \in DOMAIN invite[a] :
           /\ invite[a][i] = "pending"
           /\ Begin(c, [New("accept", "find") EXCEPT !.who = a, !.nr = i, !.to = "accepted"])
    /\ UNCHANGED <<db, token, cache, mine>>

\* requireMemberToken, then confirmAsMember.
Confirm(c) ==
    /\ \E a \in Joined :
           row[a].token /\ Begin(c, [New("confirm", "find") EXCEPT !.who = a])
    /\ UNCHANGED <<db, token, cache, mine>>

Amended_Faulty(r, op) ==    \* a resend keeps the member token
    IF op = "resend" THEN [r EXCEPT !.confirmed = FALSE]
    ELSE [r EXCEPT !.token = TRUE, !.confirmed = TRUE]

\* The row a handler is about to save; for removeMember the one it found.
Amended(r, op) ==
    CASE op = "accept"  -> [r EXCEPT !.token = TRUE, !.confirmed = TRUE]
      [] op = "confirm" -> [r EXCEPT !.confirmed = TRUE]
      [] op = "resend"  -> [r EXCEPT !.token = FALSE, !.confirmed = FALSE]
      [] OTHER          -> r

FindMember(c) ==
    LET r == row[calls[c].who]
        op == calls[c].op
    IN  /\ At(c, "find")
        /\ IF r = None
           THEN IF op = "resend" THEN Go(c, "mint") ELSE End(c)
           ELSE IF op = "resend" /\ ~r.token /\ ~r.confirmed THEN Go(c, "mint")
           ELSE IF op = "confirm" /\ r.confirmed THEN End(c)
           ELSE calls' = [calls EXCEPT ![c].pc = IF op = "remove" THEN "delete" ELSE "save",
                                       ![c].mem = Amended(r, op)]
        /\ UNCHANGED <<db, token, cache, mine, past>>

Delete_Faulty(c) ==     \* returns without recomputeStatus and rebuildCache
    /\ At(c, "delete")
    /\ row' = [row EXCEPT ![calls[c].who] = None]
    /\ End(c)
    /\ UNCHANGED <<group, invite, adds, token, cache, mine, past>>

Delete(c) ==
    LET a == calls[c].who IN
    /\ At(c, "delete")
    /\ row' = IF row[a] # None /\ row[a].id = calls[c].mem.id
              THEN [row EXCEPT ![a] = None] ELSE row
    /\ Forget(c, "group")
    /\ UNCHANGED <<group, invite, adds, token, cache, mine, past>>

\* A row deleted meanwhile comes back, unless the address was added again: its
\* unique index then refuses the insert.
SaveMember(c) ==
    LET a == calls[c].who IN
    /\ At(c, "save")
    /\ IF row[a] = None \/ row[a].id = calls[c].mem.id
       THEN row' = [row EXCEPT ![a] = calls[c].mem] /\ Forget(c, "group")
       ELSE End(c) /\ UNCHANGED row
    /\ UNCHANGED <<group, invite, adds, token, cache, mine, past>>

-------------------------------------------------------------------------------
(* Invitations. *)

\* createInvitation.  An address has one open invitation, by the partial unique
\* index on those still pending; a new token is a new row.
Mint(c) ==
    LET a == calls[c].who IN
    /\ At(c, "mint")
    /\ invite' = IF \E i \in DOMAIN invite[a] : invite[a][i] \in {"pending", "lapsed"}
                 THEN invite ELSE [invite EXCEPT ![a] = Append(@, "pending")]
    /\ End(c)
    /\ UNCHANGED <<group, row, adds, token, cache, mine, past>>

\* decline and revoke up to their save.
Respond(c) ==
    /\ \E a \in Address, to \in {"declined", "expired"} : \E i \in DOMAIN invite[a] :
           /\ invite[a][i] = "pending" \/ (invite[a][i] = "lapsed" /\ to = "expired")
           /\ Begin(c, [New("respond", "answer") EXCEPT !.who = a, !.nr = i, !.to = to])
    /\ UNCHANGED <<db, token, cache, mine>>

\* The last save of accept, decline and revoke.
Answer(c) ==
    /\ At(c, "answer")
    /\ invite' = [invite EXCEPT ![calls[c].who][calls[c].nr] = calls[c].to]
    /\ End(c)
    /\ UNCHANGED <<group, row, adds, token, cache, mine, past>>

Resend(c) ==
    /\ ByAdmin
    /\ \E a \in Resent :
           MayInvite(a) /\ Begin(c, [New("resend", "invites") EXCEPT !.who = a])
    /\ UNCHANGED <<db, token, cache, mine>>

\* An open invitation is mailed again and that is all.
FindInvite(c) ==
    LET invites == invite[calls[c].who] IN
    /\ At(c, "invites")
    /\ IF Contains(invites, "pending") THEN End(c)
       ELSE \/ \E i \in DOMAIN invites :
                   /\ invites[i] = "lapsed"
                   /\ calls' = [calls EXCEPT ![c].pc = "lapse", ![c].nr = i]
            \/ ~Contains(invites, "lapsed") /\ Go(c, "list")
    /\ UNCHANGED <<db, token, cache, mine, past>>

ExpireInvite(c) ==
    /\ At(c, "lapse")
    /\ invite' = [invite EXCEPT ![calls[c].who][calls[c].nr] = "expired"]
    /\ Go(c, "list")
    /\ UNCHANGED <<group, row, adds, token, cache, mine, past>>

ListMembers(c) ==
    /\ At(c, "list")
    /\ IF row[calls[c].who] = None THEN End(c) ELSE Go(c, "find")
    /\ UNCHANGED <<db, token, cache, mine, past>>

\* The time to live of an invitation runs out.
Lapse(a, i) ==
    /\ invite[a][i] = "pending"
    /\ invite' = [invite EXCEPT ![a][i] = "lapsed"]
    /\ UNCHANGED <<group, row, adds, token, cache, mine, calls, past>>

-------------------------------------------------------------------------------
(* The status of the party. *)

TransitionToConfirming(c) ==
    /\ ByAdmin /\ group.status \notin {"active", "dissolved"}
    /\ Begin(c, [New("transition", "sum") EXCEPT !.grp = group])
    /\ UNCHANGED <<db, token, cache, mine>>

\* assertSplitsSumValid.
SumCheck(c) ==
    /\ At(c, "sum")
    /\ IF SumFunction(Splits) = Total /\ calls[c].grp.status = "draft"
       THEN Go(c, "promote") ELSE End(c)
    /\ UNCHANGED <<db, token, cache, mine, past>>

Dissolve_Faulty(c) ==       \* without the cool-down
    /\ ByAdmin /\ group.status # "dissolved"
    /\ Begin(c, [New("dissolve", "write") EXCEPT !.grp = [group EXCEPT !.status = "dissolved"]])
    /\ UNCHANGED <<db, token, cache, mine>>

Dissolve(c) ==
    /\ ByAdmin /\ group.status # "dissolved"
    /\ ~(group.status = "active" /\ group.recent)
    /\ Begin(c, [New("dissolve", "write") EXCEPT !.grp = [group EXCEPT !.status = "dissolved"]])
    /\ UNCHANGED <<db, token, cache, mine>>

UpdateHint(c) ==
    /\ ByAdmin
    /\ Begin(c, [New("hint", "write") EXCEPT !.grp = group])
    /\ UNCHANGED <<db, token, cache, mine>>

\* onShareAccepted, when the share path routes the admin to the party.
Share(c) ==
    /\ route \in Routable /\ group.status # "dissolved"
    /\ Begin(c, [New("share", "write") EXCEPT !.grp =
                    [status |-> IF group.status = "ready" THEN "active" ELSE group.status,
                     recent |-> TRUE]])
    /\ UNCHANGED <<db, token, cache, mine>>

\* The save of the group row that ends dissolveGroup, the hint and a share.
WriteGroup(c) ==
    /\ At(c, "write")
    /\ group' = calls[c].grp
    /\ route' = IF calls[c].op = "share" THEN calls[c].grp.status ELSE route
    /\ IF calls[c].op = "dissolve" THEN Forget(c, "rebuild") ELSE End(c)
    /\ UNCHANGED <<row, invite, adds, token, known, mine, past>>

\* Seven days without a share; the jobs of that time are on an old tip.
Silence ==
    /\ group.recent /\ job = None /\ \A c \in Caller : Idle(c)
    /\ group' = [group EXCEPT !.recent = FALSE]
    /\ UNCHANGED <<row, invite, adds, token, cache, mine, calls, past>>

-------------------------------------------------------------------------------
(* The coinbase and its booking. *)

\* The party's branch of sendNewMiningJob.  The transaction cannot be written
\* with a negative output.
NewJob ==
    /\ route \in Routable /\ Joined # {}
    /\ \A a \in Joined : Coinbase(Splits).sats[a] >= 0
    /\ job' = [splits |-> Splits, live |-> route]
    /\ booked' = None
    /\ UNCHANGED <<db, token, cache, calls, past>>

\* The block-found branch asks again where the admin routes to; onBlockFound
\* then records the splits of that moment.
BlockFound ==
    /\ job # None
    /\ booked' = [live |-> job.live,
                  how |-> CASE route \notin Routable -> "not at all"
                            [] Splits = job.splits -> "as paid"
                            [] OTHER -> "otherwise"]
    /\ job' = None
    /\ UNCHANGED <<db, token, cache, calls, past>>

-------------------------------------------------------------------------------

\* A rejected await ends a handler where it is.
Fail(c) ==
    /\ ~Idle(c)
    /\ End(c) /\ past' = "failed"
    /\ UNCHANGED <<db, token, cache, mine>>

\* onModuleInit of the next process.
Restart ==
    /\ past' = IF \A c \in Caller : Idle(c) THEN past ELSE "failed"
    /\ calls' = [c \in Caller |-> NoCall]
    /\ Caches(group.status)
    /\ job' = None /\ booked' = None
    /\ UNCHANGED <<db, token>>

Begins(c) ==
    \/ CreateGroup(c) \/ AddMember(c) \/ RemoveMember(c) \/ UpdateSplits(c)
    \/ Accept(c) \/ Confirm(c) \/ Respond(c) \/ Resend(c)
    \/ TransitionToConfirming(c) \/ Dissolve(c) \/ UpdateHint(c) \/ Share(c)

Step(c) ==
    \/ CreateAdmin(c) \/ Insert(c) \/ Promote(c)
    \/ RecomputeGroup(c) \/ RecomputeMembers(c) \/ RecomputeSave(c)
    \/ RebuildGroup(c) \/ RebuildCaches(c)
    \/ Edit(c) \/ FindMember(c) \/ Delete(c) \/ SaveMember(c)
    \/ Mint(c) \/ Answer(c) \/ FindInvite(c) \/ ExpireInvite(c) \/ ListMembers(c)
    \/ SumCheck(c) \/ WriteGroup(c)

Next ==
    \/ \E c \in Caller : Begins(c) \/ Step(c) \/ Fail(c)
    \/ \E a \in Address : \E i \in DOMAIN invite[a] : Lapse(a, i)
    \/ Silence \/ NewJob \/ BlockFound \/ Restart

Spec == Init /\ [][Next]_vars

-------------------------------------------------------------------------------
(* Properties. *)

\* Every column, cache entry and handler holds a value of its type.
TypeOK ==
    /\ group \in Group /\ row \in [Address -> Row \cup {None}]
    /\ \A a \in Address : invite[a] \in Seq(Invite)
    /\ adds \in [Address -> 0..MaxRows] /\ token \in BOOLEAN
    /\ route \in Status \cup {None} /\ known \subseteq Address
    /\ \A c \in Caller : calls[c] = NoCall \/ calls[c] \in Call
    /\ past \in {"clean", "failed", "repaired"}

Settled == past # "failed" /\ \A c \in Caller : Idle(c)

\* recomputeStatus: unless handlers that write the same rows overlapped or one
\* failed, a party is ready exactly when all its members confirmed.
ReadyIsSignedOff ==
    Settled /\ group.status \in {"confirming", "ready"} =>
        (group.status = "ready" <=> \A a \in Joined : row[a].confirmed)

\* The share path, the fee route and the exclusivity checks read caches that
\* say what the rows say, whatever handler came last.
CachesFollowRows ==
    Settled /\ token =>
        /\ route \in Routable <=> group.status \in Routable
        /\ route = None <=> group.status = "dissolved"
        /\ known = IF group.status = "dissolved" THEN {} ELSE Joined

\* A member holds a member token exactly when it accepted its last invitation:
\* a new one takes the token away, and a member that declined has none.
TokenFollowsInvitation ==
    Settled /\ past = "clean" => \A a \in Joined \ {Admin} :
        row[a].token <=> invite[a] # <<>> /\ Last(invite[a]) = "accepted"

\* While a member stays confirmed its part does not change under it.
NoSilentEdit ==
    [][past' # "failed" =>
         \A a \in Joined \ {Admin} :
             row[a].confirmed /\ row'[a] # None /\ row'[a].confirmed
                 => row'[a].percent = row[a].percent]_vars

\* The first share freezes the splits: an active party keeps its members and
\* their parts, and can only be dissolved, after a week of silence.
ActiveIsFrozen ==
    [][past' # "failed" /\ group.status = "active" =>
         /\ group'.status = "active" \/ (group'.status = "dissolved" /\ ~group.recent)
         /\ \A a \in Address : (row[a] = None) = (row'[a] = None)
                /\ (row[a] # None => row'[a].percent = row[a].percent)]_vars

\* A block whose coinbase was built while the party was active is booked with
\* the splits it paid, although nothing keeps them until then.  (Dissolving the
\* party in between loses the booking.)
ActiveBlocksBooked ==
    past # "failed" /\ booked # None =>
        (booked.live = "active" /\ group.status = "active" => booked.how = "as paid")

\* Splits that add up are paid as agreed, or not at all when they are dust, and
\* the pool has its fee and all that is left.
SplitsArePaid ==
    job # None => LET cb == Coinbase(job.splits) IN
        SumFunction(job.splits) = Total =>
            /\ cb.fee >= BaseFee /\ cb.fee + SumFunction(cb.sats) = Reward
            /\ \A a \in DOMAIN cb.sats :
                   /\ cb.sats[a] = 0 \/ cb.sats[a] >= Threshold
                   /\ Nominal(job.splits[a]) >= Threshold => cb.sats[a] = Nominal(job.splits[a])

\* blockparty-member.entity.ts:12 and createGroup's comment: the parts of all
\* members add up to the whole by the time the party is paid from them.
SplitsAddUp == job # None => SumFunction(job.splits) = Total

\* The comment in getRoutableGroupIdForAdmin: a party some member of which has
\* not confirmed is not routable, however its handlers overlapped.
ReadyMeansSigned ==
    past = "clean" /\ (\A c \in Caller : Idle(c)) /\ group.status = "ready" =>
        \A a \in Joined : row[a].confirmed

\* Whatever handlers, failures and restarts come between, a party called ready has
\* every member's consent, the caches route by its rows, and an invitation opens
\* to the token last sent.
PartySound == TypeOK /\ ReadyIsSignedOff /\ CachesFollowRows /\ TokenFollowsInvitation

\* A block of an active party is booked to it, at the splits its coinbase paid.
PaidAsAgreed == ActiveBlocksBooked /\ SplitsArePaid

\* No step changes a split behind a member's back, or an active party's at all.
PartySteps == NoSilentEdit /\ ActiveIsFrozen
===============================================================================
