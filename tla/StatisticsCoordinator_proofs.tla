---------------------- MODULE StatisticsCoordinator_proofs ----------------------
(***************************************************************************)
(* Proofs about StatisticsCoordinator for every number of addresses,       *)
(* shares, failures and deletions: no share is lost or counted twice       *)
(* wherever a flush was exact, and no total goes below zero.               *)
(***************************************************************************)
EXTENDS StatisticsCoordinator, TLAPS

-------------------------------------------------------------------------------
(* The inductive invariant. *)

\* The deltas t drained are with the database.
Live(t) == at[t] \in {"sent", "applied"}

\* One key of one table: buffer b, row r, books e, what is stored and not
\* confirmed i, what was drained s, and whether that is live.  The last conjunct
\* is why confirm leaves what was counted meanwhile: the buffer never holds less
\* than the flush took from it.
Cell(b, r, e, i, s, live) ==
    /\ Plus(r, b) = Plus(e, i)
    /\ b.acc >= 0 /\ b.rej >= 0 /\ r.acc >= 0 /\ r.rej >= 0
    /\ live => 0 <= s.acc /\ s.acc <= b.acc /\ 0 <= s.rej /\ s.rej <= b.rej

CellOK(t, a) ==
    Cell(buf[t][a], row[t][a], earned[t][a], InFlight(t, a), snap[t][a], Live(t))

\* A batch that waits has not been carried out.
BatchesApart == left \cap (hot \cup ok) = {}

\* Without a flush in progress nothing is drained.
FlagGuards == ~busy => \A t \in Table : at[t] = "idle"

IInv ==
    /\ TypeOK /\ BatchesApart /\ FlagGuards
    /\ \A t \in Table, a \in Address : Exact(t, a) => CellOK(t, a)

-------------------------------------------------------------------------------
(* Amounts. *)

LEMMA AmountType ==
    /\ Zero \in Amount /\ Accepted \in Amount /\ Rejected \in Amount
    /\ \A x, y \in Amount :
           Plus(x, y) \in Amount /\ Minus(x, y) \in Amount /\ Confirmed(x, y) \in Amount
  BY DEF Amount, Zero, Accepted, Rejected, Plus, Minus, Confirmed

\* Amounts are equal when their fields are.
LEMMA AmountEqual ==
  ASSUME NEW x \in Amount, NEW y \in Amount, x.acc = y.acc, x.rej = y.rej
  PROVE  x = y
  BY DEF Amount

\* What is left of earned once what only memory held is written off, and what Seeded
\* changes is added.
LEMMA WrittenOff ==
  ASSUME NEW x \in Amount, NEW y \in Amount, NEW e \in Amount, NEW f \in Amount,
         NEW g \in Amount, Plus(x, y) = Plus(e, f)
  PROVE  Plus(Minus(e, Minus(y, f)), Minus(g, x)) = g
<1>1. /\ e.acc \in Int /\ y.acc \in Int /\ f.acc \in Int /\ x.acc \in Int /\ g.acc \in Int
      /\ x.acc + y.acc = e.acc + f.acc
  BY DEF Amount, Plus
<1>2. /\ e.rej \in Int /\ y.rej \in Int /\ f.rej \in Int /\ x.rej \in Int /\ g.rej \in Int
      /\ x.rej + y.rej = e.rej + f.rej
  BY DEF Amount, Plus
<1> DEFINE z == Plus(Minus(e, Minus(y, f)), Minus(g, x))
<1>3. /\ z.acc = (e.acc - (y.acc - f.acc)) + (g.acc - x.acc)
      /\ z.rej = (e.rej - (y.rej - f.rej)) + (g.rej - x.rej)
  BY DEF Plus, Minus
<1>4. z \in Amount
  BY AmountType
<1> HIDE DEF z
<1>5. z.acc = g.acc
  BY <1>1, <1>3
<1>6. z.rej = g.rej
  BY <1>2, <1>3
<1> QED BY <1>4, <1>5, <1>6, AmountEqual DEF z

\* The buffer never holds less than the flush took: confirm subtracts exactly.
LEMMA ConfirmedExactly ==
  ASSUME NEW x \in Amount, NEW s \in Amount, s.acc <= x.acc, s.rej <= x.rej
  PROVE  Confirmed(x, s) = Minus(x, s)
<1>1. Minus(x, s) \in Amount /\ Zero \in Amount
  BY AmountType
<1>2. Minus(x, s).acc = x.acc - s.acc /\ Minus(x, s).rej = x.rej - s.rej
  BY DEF Minus
<1>3. x.acc \in Int /\ x.rej \in Int /\ s.acc \in Int /\ s.rej \in Int
  BY DEF Amount
<1>4. CASE Minus(x, s).acc <= 0 /\ Minus(x, s).rej <= 0
  <2>1. Zero.acc = Minus(x, s).acc /\ Zero.rej = Minus(x, s).rej
    BY <1>2, <1>3, <1>4 DEF Zero
  <2> QED BY <1>1, <1>4, <2>1, AmountEqual DEF Confirmed
<1>5. CASE ~(Minus(x, s).acc <= 0 /\ Minus(x, s).rej <= 0)
  BY <1>5 DEF Confirmed
<1> QED BY <1>4, <1>5

-------------------------------------------------------------------------------
(* What happens to one key. *)

LEMMA CellAdd ==
  ASSUME NEW b \in Amount, NEW r \in Amount, NEW e \in Amount, NEW i \in Amount,
         NEW s \in Amount, NEW live \in BOOLEAN, Cell(b, r, e, i, s, live),
         NEW x \in {Accepted, Rejected}
  PROVE  Cell(Plus(b, x), r, Plus(e, x), i, s, live)
  BY DEF Cell, Plus, Amount, Accepted, Rejected

LEMMA CellDrain ==
  ASSUME NEW b \in Amount, NEW r \in Amount, NEW e \in Amount, NEW i \in Amount,
         NEW s \in Amount, NEW l1 \in BOOLEAN, Cell(b, r, e, i, s, l1), NEW l2 \in BOOLEAN
  PROVE  Cell(b, r, e, i, b, l2)
  BY DEF Cell, Amount

LEMMA CellDrop ==
  ASSUME NEW b, NEW r, NEW e, NEW i, NEW s, NEW l, Cell(b, r, e, i, s, l), NEW s2
  PROVE  Cell(b, r, e, i, s2, FALSE)
  BY DEF Cell

LEMMA CellStore ==
  ASSUME NEW b \in Amount, NEW r \in Amount, NEW e \in Amount, NEW s \in Amount,
         Cell(b, r, e, Zero, s, TRUE)
  PROVE  Cell(b, Plus(r, s), e, s, s, TRUE)
  BY DEF Cell, Plus, Amount, Zero

LEMMA CellConfirm ==
  ASSUME NEW b \in Amount, NEW r \in Amount, NEW e \in Amount, NEW s \in Amount, NEW s2,
         Cell(b, r, e, s, s, TRUE)
  PROVE  Cell(Confirmed(b, s), r, e, Zero, s2, FALSE)
<1>1. Confirmed(b, s) = Minus(b, s)
  BY ConfirmedExactly DEF Cell
<1>2. Cell(Minus(b, s), r, e, Zero, s2, FALSE)
  BY DEF Cell, Plus, Minus, Amount, Zero
<1> QED BY <1>1, <1>2

LEMMA CellEraseBuffer ==
  ASSUME NEW b \in Amount, NEW r \in Amount, NEW e \in Amount, NEW i \in Amount,
         NEW s \in Amount, NEW l \in BOOLEAN, Cell(b, r, e, i, s, l), l => s = Zero
  PROVE  Cell(Zero, r, Minus(e, b), i, s, l)
  BY DEF Cell, Plus, Minus, Amount, Zero

LEMMA CellEraseRow ==
  ASSUME NEW b \in Amount, NEW r \in Amount, NEW e \in Amount, NEW i \in Amount,
         NEW s \in Amount, NEW l \in BOOLEAN, Cell(b, r, e, i, s, l)
  PROVE  Cell(b, Zero, Minus(e, r), i, s, l)
  BY DEF Cell, Plus, Minus, Amount, Zero

LEMMA CellNew ==
  ASSUME NEW r \in Amount, r.acc >= 0, r.rej >= 0, NEW s
  PROVE  Cell(Zero, r, r, Zero, s, FALSE)
  BY DEF Cell, Plus, Amount, Zero

-------------------------------------------------------------------------------
(* Types. *)

LEMMA NothingType == Nothing \in [Address -> Amount]
  BY AmountType DEF Nothing

LEMMA InitTypeOK == Init => TypeOK
<1> SUFFICES ASSUME Init PROVE TypeOK
  OBVIOUS
<1>1. [t \in Table |-> Nothing] \in Deltas
  BY NothingType DEF Deltas
<1>2. used \in [shares : 0..MaxShares, faults : 0..MaxFaults, erasures : 0..MaxErasures]
  BY CoordinatorAssumption DEF Init
<1>3. at \in [Table -> FlushPC] /\ erase \in [Address -> ErasePC]
  BY DEF Init, FlushPC, ErasePC
<1> QED BY <1>1, <1>2, <1>3 DEF Init, TypeOK

\* One key of a table replaced.
LEMMA KeySet ==
  ASSUME NEW f \in Deltas, NEW t \in Table, NEW a \in Address, NEW x \in Amount
  PROVE  [f EXCEPT ![t][a] = x] \in Deltas
  BY DEF Deltas

LEMMA AddType ==
  ASSUME TypeOK, NEW ts \in SUBSET Table, NEW a \in Address, NEW x \in Amount, Add(ts, a, x)
  PROVE  buf' \in Deltas /\ earned' \in Deltas
<1>1. \A t \in Table : /\ [buf[t] EXCEPT ![a] = Plus(@, x)] \in [Address -> Amount]
                       /\ [earned[t] EXCEPT ![a] = Plus(@, x)] \in [Address -> Amount]
  BY AmountType DEF TypeOK, Deltas
<1> QED BY <1>1 DEF Add, TypeOK, Deltas

LEMMA BeginType ==
  ASSUME TypeOK, Begin
  PROVE  /\ busy' = TRUE /\ at' \in [Table -> FlushPC] /\ snap' \in Deltas
         /\ left' \subseteq Address /\ hot' = {} /\ ok' = {}
  BY DEF Begin, Drain, Drained, TypeOK, Deltas, FlushPC

LEMMA SeededType ==
  ASSUME TypeOK
  PROVE  Seeded \in Deltas
<1>1. [a \in Address |-> IF row["client"][a].acc > 0 THEN row["client"][a] ELSE Zero]
        \in [Address -> Amount]
  BY AmountType DEF TypeOK, Deltas, Table
<1> QED BY <1>1 DEF Seeded, TypeOK, Deltas, Table

LEMMA InMemoryType ==
  ASSUME TypeOK, NEW t \in Table, NEW a \in Address
  PROVE  InFlight(t, a) \in Amount /\ InMemory(t, a) \in Amount
<1>1. buf[t][a] \in Amount /\ snap[t][a] \in Amount /\ Zero \in Amount
  BY AmountType DEF TypeOK, Deltas
<1>2. InFlight(t, a) \in Amount
  BY <1>1 DEF InFlight
<1> QED BY <1>1, <1>2, AmountType DEF InMemory

LEMMA RestartType ==
  ASSUME TypeOK, Restart, used' \in [shares : 0..MaxShares, faults : 0..MaxFaults,
                                     erasures : 0..MaxErasures]
  PROVE  TypeOK'
<1>1. [t \in Table |-> Nothing] \in Deltas
  BY NothingType DEF Deltas
<1>2. at' \in [Table -> FlushPC] /\ erase' \in [Address -> ErasePC]
  BY DEF Restart, FlushPC, ErasePC
<1>3. spoiled' \subseteq Table \X Address
  <2>1. \A a \in Address : <<"worker", a>> \in Table \X Address
    BY DEF Table
  <2>2. spoiled' = spoiled \cup {<<"worker", a>> : a \in {b \in Address : <<"client", b>> \in spoiled}}
    BY DEF Restart
  <2>3. spoiled \subseteq Table \X Address
    BY DEF TypeOK
  <2> QED BY <2>1, <2>2, <2>3
<1>4. earned' \in Deltas
  <2>1. \A t \in Table, a \in Address : earned'[t][a] \in Amount
    <3> SUFFICES ASSUME NEW t \in Table, NEW a \in Address PROVE earned'[t][a] \in Amount
      OBVIOUS
    <3>1. /\ earned[t][a] \in Amount /\ row[t][a] \in Amount /\ Seeded[t][a] \in Amount
          /\ InMemory(t, a) \in Amount
      BY InMemoryType, SeededType DEF TypeOK, Deltas
    <3>2. earned'[t][a] = Plus(Minus(earned[t][a], InMemory(t, a)), Minus(Seeded[t][a], row[t][a]))
      BY DEF Restart
    <3> QED BY <3>1, <3>2, AmountType
  <2>2. earned' = [t \in Table |-> [a \in Address |-> earned'[t][a]]]
    BY DEF Restart
  <2> QED BY <2>1, <2>2 DEF Deltas
<1> QED BY <1>1, <1>2, <1>3, <1>4, SeededType DEF Restart, TypeOK

LEMMA FaultType ==
  ASSUME TypeOK, Fault
  PROVE  used' \in [shares : 0..MaxShares, faults : 0..MaxFaults, erasures : 0..MaxErasures]
  BY CoordinatorAssumption DEF Fault, TypeOK

LEMMA EraseRowType ==
  ASSUME TypeOK, NEW t \in Table, NEW a \in Address, EraseRow(t, a)
  PROVE  row' \in Deltas /\ earned' \in Deltas
<1>1. Minus(earned[t][a], row[t][a]) \in Amount /\ Zero \in Amount
  BY AmountType DEF TypeOK, Deltas
<1> QED BY <1>1, KeySet DEF EraseRow, TypeOK

\* The end of the client's batches.
LEMMA AnsweredType ==
  ASSUME TypeOK, NEW oks \in SUBSET Address, Answered(oks)
  PROVE  /\ ok' \subseteq Address /\ hot' = {} /\ buf' \in Deltas
         /\ at' \in [Table -> FlushPC]
<1>1. [a \in Address |-> IF a \in oks THEN Confirmed(buf["client"][a], snap["client"][a])
                                      ELSE buf["client"][a]] \in [Address -> Amount]
  BY AmountType DEF TypeOK, Deltas, Table
<1> QED BY <1>1 DEF Answered, TypeOK, Deltas, Table, FlushPC

LEMMA StepTypeOK == TypeOK /\ [Next]_vars => TypeOK'
<1> SUFFICES ASSUME TypeOK, [Next]_vars PROVE TypeOK'
  OBVIOUS
<1> USE DEF Table, Flat, batch, flush, ghost
<1>1. CASE Tick
  BY <1>1, BeginType DEF Tick, TypeOK
<1>2. CASE FlushStep
  <2>1. CASE DrainWorker
    BY <2>1 DEF DrainWorker, Drain, TypeOK, Deltas, FlushPC
  <2>2. CASE AnswerBatch
    BY <2>2, AnsweredType DEF AnswerBatch, TypeOK
  <2>3. CASE FanOut
    <3> DEFINE x == [a \in Address |-> [acc |-> 0, rej |->
                       IF a \in ok /\ snap["client"][a].rej > 0
                       THEN snap["client"][a].rej ELSE 0]]
               sum(f) == [a \in Address |-> Plus(f["worker"][a], x[a])]
    <3>1. \A a \in Address : x[a] \in Amount
      BY DEF TypeOK, Deltas, Amount
    <3>2. /\ row' = [row EXCEPT !["worker"] = sum(row)]
          /\ earned' = [earned EXCEPT !["worker"] = sum(earned)]
      BY <2>3 DEF FanOut
    <3> HIDE DEF x
    <3>3. sum(row) \in [Address -> Amount] /\ sum(earned) \in [Address -> Amount]
      BY <3>1, AmountType DEF TypeOK, Deltas
    <3> HIDE DEF sum
    <3>4. row' \in Deltas /\ earned' \in Deltas
      BY <3>2, <3>3 DEF TypeOK, Deltas
    <3> QED BY <2>3, <3>4 DEF FanOut, TypeOK, FlushPC
  <2>4. CASE Finish
    BY <2>4, NothingType DEF Finish, TypeOK, Deltas, FlushPC
  <2>5. ASSUME NEW t \in Table, Commit(t) PROVE TypeOK'
    <3> DEFINE f == [a \in Address |-> IF a \in Stored(t)
                                       THEN Plus(row[t][a], snap[t][a]) ELSE row[t][a]]
    <3>1. f \in [Address -> Amount]
      BY AmountType DEF TypeOK, Deltas
    <3>2. row' = [row EXCEPT ![t] = f]
      BY <2>5 DEF Commit
    <3> HIDE DEF f
    <3>3. row' \in Deltas
      BY <3>1, <3>2 DEF TypeOK, Deltas
    <3>4. spoiled' \subseteq Table \X Address
      BY <2>5 DEF Commit, Hit, TypeOK
    <3> QED BY <2>5, <3>3, <3>4 DEF Commit, TypeOK, FlushPC
  <2>6. ASSUME NEW t \in Table, Confirm(t) PROVE TypeOK'
    <3> DEFINE f == [a \in Address |-> Confirmed(buf[t][a], snap[t][a])]
    <3>1. f \in [Address -> Amount]
      BY AmountType DEF TypeOK, Deltas
    <3>2. buf' = [buf EXCEPT ![t] = f]
      BY <2>6 DEF Confirm
    <3> HIDE DEF f
    <3>3. buf' \in Deltas /\ snap' \in Deltas
      BY <2>6, <3>1, <3>2, NothingType DEF Confirm, TypeOK, Deltas
    <3> QED BY <2>6, <3>3 DEF Confirm, TypeOK, FlushPC
  <2>7. ASSUME NEW a \in Address, CommitBatch(a) PROVE TypeOK'
    <3>1. Plus(row["client"][a], snap["client"][a]) \in Amount
      BY AmountType DEF TypeOK, Deltas
    <3>2. row' \in Deltas
      BY <2>7, <3>1, KeySet DEF CommitBatch, TypeOK
    <3> QED BY <2>7, <3>2 DEF CommitBatch, TypeOK
  <2> QED BY <1>2, <2>1, <2>2, <2>3, <2>4, <2>5, <2>6, <2>7 DEF FlushStep
<1>3. CASE FanOutFails
  BY <1>3, FaultType DEF FanOutFails, TypeOK, FlushPC
<1>4. CASE Stop
  <2>1. since' \in Nat /\ kept' \in BOOLEAN
    BY <1>4, CoordinatorAssumption DEF Stop, TypeOK
  <2>2. CASE Begin
    BY <1>4, <2>1, <2>2, FaultType, BeginType DEF Stop, TypeOK
  <2>3. CASE UNCHANGED flush
    BY <1>4, <2>1, <2>3, FaultType DEF Stop, TypeOK
  <2> QED BY <1>4, <2>2, <2>3 DEF Stop
<1>5. CASE Exit
  BY <1>5, RestartType DEF Exit, TypeOK
<1>6. CASE Crash
  BY <1>6, RestartType, FaultType DEF Crash
<1>7. ASSUME NEW t \in Table, Refuse(t) PROVE TypeOK'
  <2>1. spoiled' \subseteq Table \X Address
    BY <1>7 DEF Refuse, Hit, TypeOK
  <2> QED BY <1>7, <2>1, FaultType, NothingType DEF Refuse, TypeOK, Deltas, FlushPC
<1>8. ASSUME NEW a \in Address, Accept(a) PROVE TypeOK'
  <2>1. buf' \in Deltas /\ earned' \in Deltas
    BY <1>8, AmountType, AddType DEF Accept
  <2> QED BY <1>8, <2>1, CoordinatorAssumption DEF Accept, Submit, TypeOK
<1>9. ASSUME NEW a \in Address, Total(a) PROVE TypeOK'
  <2>1. buf' \in Deltas /\ earned' \in Deltas
    BY <1>9, AmountType, AddType DEF Total
  <2> QED BY <1>9, <2>1 DEF Total, TypeOK
<1>10. ASSUME NEW a \in Address, TotalFails(a) PROVE TypeOK'
  BY <1>10, FaultType DEF TotalFails, TypeOK
<1>11. ASSUME NEW a \in Address, Reject(a) PROVE TypeOK'
  <2>1. buf' \in Deltas /\ earned' \in Deltas
    BY <1>11, AmountType, AddType DEF Reject
  <2> QED BY <1>11, <2>1, CoordinatorAssumption DEF Reject, Submit, TypeOK
<1>12. ASSUME NEW a \in Address, RefuseBatch(a) PROVE TypeOK'
  <2>1. spoiled' \subseteq Table \X Address
    BY <1>12 DEF RefuseBatch, Hit, TypeOK
  <2>2. /\ ok' \subseteq Address /\ hot' = {} /\ buf' \in Deltas
        /\ at' \in [Table -> FlushPC]
    BY <1>12, AnsweredType DEF RefuseBatch, TypeOK
  <2> QED BY <1>12, <2>1, <2>2, FaultType DEF RefuseBatch, TypeOK
<1>13. ASSUME NEW a \in Address, Relist(a) PROVE TypeOK'
  BY <1>13 DEF Relist, TypeOK
<1>14. ASSUME NEW a \in Address, EraseBuffers(a) PROVE TypeOK'
  <2>1. \A t \in Table : /\ [buf[t] EXCEPT ![a] = Zero] \in [Address -> Amount]
                         /\ [earned[t] EXCEPT ![a] = Minus(@, buf[t][a])] \in [Address -> Amount]
    BY AmountType DEF TypeOK, Deltas
  <2>2. buf' \in Deltas /\ earned' \in Deltas
    BY <1>14, <2>1 DEF EraseBuffers, Deltas
  <2>3. spoiled' \subseteq Table \X Address
    BY <1>14 DEF EraseBuffers, Hit, TypeOK
  <2>4. used' \in [shares : 0..MaxShares, faults : 0..MaxFaults, erasures : 0..MaxErasures]
    BY <1>14, CoordinatorAssumption DEF EraseBuffers, TypeOK
  <2> QED BY <1>14, <2>2, <2>3, <2>4 DEF EraseBuffers, TypeOK, ErasePC
<1>15. ASSUME NEW a \in Address, EraseWorker(a) PROVE TypeOK'
  BY <1>15, EraseRowType DEF EraseWorker, EraseRow, TypeOK, ErasePC
<1>16. ASSUME NEW a \in Address, EraseClient(a) PROVE TypeOK'
  BY <1>16, EraseRowType DEF EraseClient, EraseRow, TypeOK, ErasePC
<1>17. ASSUME NEW a \in Address, EraseSettings(a) PROVE TypeOK'
  BY <1>17, EraseRowType DEF EraseSettings, EraseRow, TypeOK, ErasePC
<1>18. ASSUME NEW a \in Address, EraseFails(a) PROVE TypeOK'
  BY <1>18, FaultType DEF EraseFails, TypeOK, ErasePC
<1>19. CASE UNCHANGED vars
  BY <1>19 DEF vars, TypeOK
<1> QED BY <1>1, <1>2, <1>3, <1>4, <1>5, <1>6, <1>7, <1>8, <1>9, <1>10, <1>11, <1>12,
           <1>13, <1>14, <1>15, <1>16, <1>17, <1>18, <1>19 DEF Next
-------------------------------------------------------------------------------
(* The batches and the flag. *)

LEMMA InitShape == Init => BatchesApart /\ FlagGuards
  BY DEF Init, BatchesApart, FlagGuards

LEMMA StepBatches == TypeOK /\ BatchesApart /\ [Next]_vars => BatchesApart'
<1> SUFFICES ASSUME TypeOK, BatchesApart, [Next]_vars PROVE BatchesApart'
  OBVIOUS
<1> USE DEF BatchesApart, batch, flush
<1>1. CASE UNCHANGED batch
  BY <1>1
<1>2. CASE Begin
  BY <1>2 DEF Begin
<1>3. CASE Restart
  BY <1>3 DEF Restart
<1>4. CASE AnswerBatch
  BY <1>4 DEF AnswerBatch, Answered
<1>5. CASE Finish
  BY <1>5 DEF Finish
<1>6. ASSUME NEW a \in Address, CommitBatch(a) PROVE BatchesApart'
  BY <1>6 DEF CommitBatch
<1>7. ASSUME NEW a \in Address, RefuseBatch(a) PROVE BatchesApart'
  BY <1>7 DEF RefuseBatch, Answered
<1>8. CASE FlushStep
  BY <1>1, <1>4, <1>5, <1>6, <1>8 DEF FlushStep, DrainWorker, FanOut, Commit, Confirm
<1>9. CASE Tick \/ Stop \/ Exit \/ Crash \/ FanOutFails \/ UNCHANGED vars
  BY <1>1, <1>2, <1>3, <1>9 DEF Tick, Stop, Exit, Crash, FanOutFails, vars
<1>10. ASSUME NEW t \in Table, Refuse(t) PROVE BatchesApart'
  BY <1>1, <1>10 DEF Refuse
<1>11. ASSUME NEW a \in Address, Accept(a) \/ Total(a) \/ TotalFails(a) \/ Reject(a) \/ Relist(a)
       PROVE  BatchesApart'
  BY <1>1, <1>11 DEF Accept, Total, TotalFails, Reject, Relist
<1>12. ASSUME NEW a \in Address, EraseBuffers(a) \/ EraseWorker(a) \/ EraseClient(a)
                                   \/ EraseSettings(a) \/ EraseFails(a)
       PROVE  BatchesApart'
  BY <1>1, <1>12 DEF EraseBuffers, EraseWorker, EraseClient, EraseSettings, EraseFails, EraseRow
<1> QED BY <1>7, <1>8, <1>9, <1>10, <1>11, <1>12 DEF Next

LEMMA StepFlag == TypeOK /\ FlagGuards /\ [Next]_vars => FlagGuards'
<1> SUFFICES ASSUME TypeOK, FlagGuards, [Next]_vars PROVE FlagGuards'
  OBVIOUS
<1> USE DEF FlagGuards, batch, flush, Table, Flat
<1>1. CASE UNCHANGED <<busy, at>>
  BY <1>1
<1>2. CASE busy' = TRUE
  BY <1>2
<1>3. CASE Restart
  BY <1>3 DEF Restart
<1>4. CASE Finish
  BY <1>4 DEF Finish
\* A step of a table's flush finds the flag set.
<1>5. ASSUME NEW t \in Table, at[t] # "idle", busy' = busy PROVE FlagGuards'
  BY <1>2, <1>5 DEF TypeOK
<1>6. CASE FlushStep
  BY <1>1, <1>2, <1>4, <1>5, <1>6
     DEF FlushStep, DrainWorker, FanOut, Commit, Confirm, CommitBatch, AnswerBatch, TypeOK
<1>7. CASE Tick \/ Stop \/ Exit \/ Crash \/ FanOutFails \/ UNCHANGED vars
  BY <1>1, <1>2, <1>3, <1>5, <1>7 DEF Tick, Stop, Begin, Exit, Crash, FanOutFails, vars
<1>8. ASSUME NEW t \in Table, Refuse(t) PROVE FlagGuards'
  BY <1>5, <1>8 DEF Refuse
<1>9. ASSUME NEW a \in Address, RefuseBatch(a) PROVE FlagGuards'
  BY <1>5, <1>9 DEF RefuseBatch
<1>10. ASSUME NEW a \in Address, Accept(a) \/ Total(a) \/ TotalFails(a) \/ Reject(a) \/ Relist(a)
       PROVE  FlagGuards'
  BY <1>1, <1>10 DEF Accept, Total, TotalFails, Reject, Relist
<1>11. ASSUME NEW a \in Address, EraseBuffers(a) \/ EraseWorker(a) \/ EraseClient(a)
                                   \/ EraseSettings(a) \/ EraseFails(a)
       PROVE  FlagGuards'
  BY <1>1, <1>11 DEF EraseBuffers, EraseWorker, EraseClient, EraseSettings, EraseFails, EraseRow
<1> QED BY <1>6, <1>7, <1>8, <1>9, <1>10, <1>11 DEF Next
-------------------------------------------------------------------------------
(* Every step keeps every key in order. *)

LEMMA CellType ==
  ASSUME TypeOK, NEW t \in Table, NEW a \in Address
  PROVE  /\ buf[t][a] \in Amount /\ row[t][a] \in Amount /\ earned[t][a] \in Amount
         /\ snap[t][a] \in Amount /\ InFlight(t, a) \in Amount /\ Live(t) \in BOOLEAN
  BY AmountType DEF TypeOK, Deltas, InFlight, Live

\* What is spoiled stays so.
LEMMA StepSpoiled == [Next]_vars => spoiled \subseteq spoiled'
<1> SUFFICES ASSUME [Next]_vars PROVE spoiled \subseteq spoiled'
  OBVIOUS
<1> USE DEF ghost
<1>1. CASE Tick \/ FlushStep \/ FanOutFails \/ Stop \/ UNCHANGED vars
  BY <1>1 DEF Tick, FlushStep, DrainWorker, AnswerBatch, FanOut, Finish, Commit, Confirm,
              CommitBatch, FanOutFails, Stop, vars
<1>2. CASE Exit \/ Crash \/ \E t \in Table : Refuse(t)
  BY <1>2 DEF Exit, Crash, Restart, Refuse
<1>3. ASSUME NEW a \in Address,
             Accept(a) \/ Total(a) \/ TotalFails(a) \/ Reject(a) \/ RefuseBatch(a) \/ Relist(a)
       PROVE spoiled \subseteq spoiled'
  BY <1>3 DEF Accept, Total, TotalFails, Reject, RefuseBatch, Relist
<1>4. ASSUME NEW a \in Address, EraseBuffers(a) \/ EraseWorker(a) \/ EraseClient(a)
                                   \/ EraseSettings(a) \/ EraseFails(a)
       PROVE spoiled \subseteq spoiled'
  BY <1>4 DEF EraseBuffers, EraseWorker, EraseClient, EraseSettings, EraseFails, EraseRow
<1> QED BY <1>1, <1>2, <1>3, <1>4 DEF Next

\* A step that leaves a key and its flush alone.
LEMMA CellSame ==
  ASSUME NEW t \in Table, NEW a \in Address, CellOK(t, a),
         buf'[t][a] = buf[t][a], row'[t][a] = row[t][a], earned'[t][a] = earned[t][a],
         snap'[t][a] = snap[t][a], at'[t] = at[t],
         t = "client" => (a \in hot \cup ok <=> a \in hot' \cup ok')
  PROVE  CellOK(t, a)'
<1>1. InFlight(t, a)' = InFlight(t, a)
  BY DEF InFlight, Flat
<1>2. Live(t)' = Live(t)
  BY DEF Live
<1> QED BY <1>1, <1>2 DEF CellOK

\* A table's flush that is not, or no longer, with the database.
LEMMA NotInFlight ==
  ASSUME NEW t \in Table, NEW a \in Address, at[t] \in {"idle", "fanout", "over"}
  PROVE  InFlight(t, a) = Zero /\ ~Live(t)
  BY DEF InFlight, Live

LEMMA NotInFlightNext ==
  ASSUME NEW t \in Table, NEW a \in Address, at'[t] \in {"idle", "fanout", "over"}
  PROVE  InFlight(t, a)' = Zero /\ Live(t)' = FALSE
  BY DEF InFlight, Live

\* A flush that lets go of its deltas: nothing of this key is stored.
LEMMA LetGo ==
  ASSUME NEW t \in Table, NEW a \in Address, CellOK(t, a), InFlight(t, a) = Zero,
         buf'[t][a] = buf[t][a], row'[t][a] = row[t][a], earned'[t][a] = earned[t][a],
         at'[t] \in {"idle", "fanout", "over"}
  PROVE  CellOK(t, a)'
<1>1. InFlight(t, a)' = Zero /\ Live(t)' = FALSE
  BY NotInFlightNext
<1>2. Cell(buf[t][a], row[t][a], earned[t][a], Zero, snap[t][a], Live(t))
  BY DEF CellOK
<1>3. Cell(buf[t][a], row[t][a], earned[t][a], Zero, snap'[t][a], FALSE)
  BY <1>2, CellDrop
<1> QED BY <1>1, <1>3 DEF CellOK

LEMMA AddCell ==
  ASSUME TypeOK, NEW t \in Table, NEW a \in Address, CellOK(t, a),
         NEW ts \in SUBSET Table, NEW b \in Address, NEW x \in {Accepted, Rejected},
         Add(ts, b, x), UNCHANGED <<row, at, snap, hot, ok>>
  PROVE  CellOK(t, a)'
<1>1. CASE t \in ts /\ a = b
  <2>1. buf'[t][a] = Plus(buf[t][a], x) /\ earned'[t][a] = Plus(earned[t][a], x)
    BY <1>1 DEF Add, TypeOK, Deltas
  <2>2. Cell(Plus(buf[t][a], x), row[t][a], Plus(earned[t][a], x), InFlight(t, a),
             snap[t][a], Live(t))
    BY SMTT(30), CellType, CellAdd DEF CellOK
  <2>3. InFlight(t, a)' = InFlight(t, a) /\ Live(t)' = Live(t)
    BY DEF InFlight, Live
  <2> QED BY <2>1, <2>2, <2>3 DEF CellOK
<1>2. CASE ~(t \in ts /\ a = b)
  <2>1. buf'[t][a] = buf[t][a] /\ earned'[t][a] = earned[t][a]
    BY <1>2 DEF Add, TypeOK, Deltas
  <2> QED BY <2>1, CellSame
<1> QED BY <1>1, <1>2

\* A flush begins, of the tables in ts.
LEMMA DrainCell ==
  ASSUME TypeOK, NEW t \in Table, NEW a \in Address, CellOK(t, a),
         NEW ts \in SUBSET Table, Drain(ts), t \in ts => at[t] = "idle",
         UNCHANGED <<buf, row, earned>>,
         \/ "client" \in ts /\ hot' = {} /\ ok' = {}
         \/ "client" \notin ts /\ UNCHANGED <<hot, ok>>
  PROVE  CellOK(t, a)'
<1>1. CASE t \in ts
  <2>1. snap'[t] = buf[t] /\ at'[t] \in {"over", "sent"}
    BY <1>1 DEF Drain
  <2>2. InFlight(t, a)' = Zero
    BY <1>1, <2>1 DEF InFlight, Flat
  <2>3. InFlight(t, a) = Zero
    BY <1>1, NotInFlight
  <2>4. Live(t)' \in BOOLEAN
    BY DEF Live
  <2>5. Cell(buf[t][a], row[t][a], earned[t][a], Zero, snap[t][a], Live(t))
    BY <2>3 DEF CellOK
  <2>6. /\ buf[t][a] \in Amount /\ row[t][a] \in Amount /\ earned[t][a] \in Amount
        /\ snap[t][a] \in Amount /\ Zero \in Amount /\ Live(t) \in BOOLEAN
    BY CellType, AmountType
  <2>7. \A l \in BOOLEAN : Cell(buf[t][a], row[t][a], earned[t][a], Zero, buf[t][a], l)
    BY ZenonT(60), <2>5, <2>6, CellDrain
  <2> QED BY <2>1, <2>2, <2>4, <2>7 DEF CellOK
<1>2. CASE t \notin ts
  <2>1. snap'[t] = snap[t] /\ at'[t] = at[t]
    BY <1>2 DEF Drain
  <2> QED BY <1>2, <2>1, CellSame
<1> QED BY <1>1, <1>2

\* A share of the batches is answered, those in oks were carried out.
LEMMA AnsweredCell ==
  ASSUME TypeOK, NEW t \in Table, NEW a \in Address, CellOK(t, a),
         NEW oks \in SUBSET (hot \cup ok), Answered(oks), at["client"] = "sent",
         t = "client" /\ a \in (hot \cup ok) \ oks => snap[t][a] = Zero,
         UNCHANGED <<row, earned, snap>>
  PROVE  CellOK(t, a)'
<1>1. CASE t # "client"
  <2>1. buf'[t] = buf[t] /\ at'[t] = at[t]
    BY <1>1 DEF Answered, TypeOK, Deltas
  <2> QED BY <1>1, <2>1, CellSame
<1>2. CASE t = "client" /\ a \in (hot \cup ok) \ oks
  <2>1. InFlight(t, a) = Zero
    BY <1>2 DEF InFlight
  <2>2. buf'[t][a] = buf[t][a]
    BY <1>2 DEF Answered, TypeOK, Deltas
  <2>3. CASE left' # {}
    <3>1. InFlight(t, a)' = Zero /\ Live(t)' = Live(t)
      BY <1>2, <2>3 DEF Answered, InFlight, Live, Flat
    <3> QED BY <2>1, <2>2, <3>1 DEF CellOK
  <2>4. CASE left' = {}
    <3>1. at'[t] \in {"fanout", "over"}
      BY <1>2, <2>4 DEF Answered, TypeOK
    <3> QED BY <2>1, <2>2, <3>1, LetGo
  <2> QED BY <2>3, <2>4
<1>3. CASE t = "client" /\ a \notin (hot \cup ok) \ oks /\ left' # {}
  <2>1. buf' = buf /\ at' = at /\ hot' \cup ok' = oks
    BY <1>3 DEF Answered
  <2> QED BY <1>3, <2>1, CellSame
<1>4. CASE t = "client" /\ a \notin (hot \cup ok) \ oks /\ left' = {}
  <2>1. at'[t] \in {"fanout", "over"}
    BY <1>4 DEF Answered, TypeOK
  <2>2. CASE a \in oks
    <3>1. InFlight(t, a) = snap[t][a] /\ Live(t)
      BY <1>4, <2>2 DEF InFlight, Live
    <3>2. buf'[t][a] = Confirmed(buf[t][a], snap[t][a])
      BY <1>4, <2>2 DEF Answered, TypeOK, Deltas
    <3>3. Cell(Confirmed(buf[t][a], snap[t][a]), row[t][a], earned[t][a], Zero, snap'[t][a], FALSE)
      BY <3>1, CellType, CellConfirm DEF CellOK
    <3>4. InFlight(t, a)' = Zero /\ Live(t)' = FALSE
      BY <2>1, NotInFlightNext
    <3> QED BY <3>2, <3>3, <3>4 DEF CellOK
  <2>3. CASE a \notin oks
    <3>1. InFlight(t, a) = Zero
      BY <1>4, <2>3 DEF InFlight, Flat
    <3>2. buf'[t][a] = buf[t][a]
      BY <1>4, <2>3 DEF Answered, TypeOK, Deltas
    <3> QED BY <2>1, <3>1, <3>2, LetGo
  <2> QED BY <2>2, <2>3
<1> QED BY <1>1, <1>2, <1>3, <1>4
LEMMA CommitCell ==
  ASSUME TypeOK, NEW t \in Table, NEW a \in Address, CellOK(t, a),
         NEW u \in Table, Commit(u), Exact(t, a)'
  PROVE  CellOK(t, a)'
<1> USE DEF Commit, batch
<1>1. CASE t # u
  BY <1>1, CellSame DEF TypeOK, Deltas
<1>2. CASE t = u /\ a \in Stored(t)
  <2>1. InFlight(t, a) = Zero /\ Live(t)
    BY <1>2 DEF InFlight, Live, Flat
  <2>2. Cell(buf[t][a], row[t][a], earned[t][a], Zero, snap[t][a], TRUE)
    BY <2>1, CellDrop DEF CellOK, Live
  <2>3. Cell(buf[t][a], Plus(row[t][a], snap[t][a]), earned[t][a], snap[t][a], snap[t][a], TRUE)
    BY <2>2, CellType, CellStore
  <2>4. row'[t][a] = Plus(row[t][a], snap[t][a])
    BY <1>2 DEF TypeOK, Deltas
  <2>5. InFlight(t, a)' = snap[t][a] /\ Live(t)' = TRUE
    BY <1>2 DEF InFlight, Live, TypeOK
  <2> QED BY <2>3, <2>4, <2>5 DEF CellOK
<1>3. CASE t = u /\ a \notin Stored(t)
  <2>1. snap[t][a] = Zero
    BY <1>3 DEF Exact, Hit
  <2>2. InFlight(t, a) = Zero /\ InFlight(t, a)' = Zero
    BY <1>3, <2>1 DEF InFlight
  <2>3. row'[t][a] = row[t][a]
    BY <1>3 DEF TypeOK, Deltas
  <2>4. Live(t) = TRUE /\ Live(t)' = TRUE
    BY <1>3 DEF Live, TypeOK
  <2> QED BY <2>2, <2>3, <2>4 DEF CellOK
<1> QED BY <1>1, <1>2, <1>3

LEMMA ConfirmCell ==
  ASSUME TypeOK, NEW t \in Table, NEW a \in Address, CellOK(t, a), NEW u \in Table, Confirm(u)
  PROVE  CellOK(t, a)'
<1> USE DEF Confirm, batch
<1>1. CASE t # u
  <2>1. /\ buf'[t][a] = buf[t][a] /\ snap'[t][a] = snap[t][a] /\ at'[t] = at[t]
        /\ UNCHANGED <<row, earned, hot, ok>>
    BY <1>1 DEF TypeOK, Deltas, ghost
  <2> QED BY <2>1, CellSame
<1>2. CASE t = u
  <2>1. InFlight(t, a) = snap[t][a] /\ Live(t) = TRUE
    BY <1>2 DEF InFlight, Live
  <2>2. buf'[t][a] = Confirmed(buf[t][a], snap[t][a])
    BY <1>2 DEF TypeOK, Deltas
  <2>3. Cell(buf[t][a], row[t][a], earned[t][a], snap[t][a], snap[t][a], TRUE)
    BY <2>1 DEF CellOK
  <2>4. Cell(Confirmed(buf[t][a], snap[t][a]), row[t][a], earned[t][a], Zero, snap'[t][a], FALSE)
    BY <2>3, CellType, CellConfirm
  <2>5. InFlight(t, a)' = Zero /\ Live(t)' = FALSE
    BY <1>2, NotInFlightNext DEF TypeOK
  <2>6. row' = row /\ earned' = earned
    BY DEF ghost
  <2> QED BY <2>2, <2>4, <2>5, <2>6 DEF CellOK
<1> QED BY <1>1, <1>2

LEMMA RefuseCell ==
  ASSUME TypeOK, NEW t \in Table, NEW a \in Address, CellOK(t, a),
         NEW u \in Table, Refuse(u), Exact(t, a)'
  PROVE  CellOK(t, a)'
<1> USE DEF Refuse, batch
<1>1. CASE t # u
  BY <1>1, CellSame DEF TypeOK, Deltas
<1>2. CASE t = u
  <2>1. InFlight(t, a) = Zero
    <3>1. CASE at[t] = "sent"
      BY <1>2, <3>1 DEF InFlight, Flat
    <3>2. CASE at[t] = "applied"
      <4>1. snap[t][a] = Zero
        BY <1>2, <3>2 DEF Exact, Hit
      <4> QED BY <4>1 DEF InFlight
    <3> QED BY <1>2, <3>1, <3>2
  <2> QED BY <1>2, <2>1, LetGo DEF TypeOK
<1> QED BY <1>1, <1>2

LEMMA CommitBatchCell ==
  ASSUME TypeOK, BatchesApart, NEW t \in Table, NEW a \in Address, CellOK(t, a),
         NEW b \in Address, CommitBatch(b)
  PROVE  CellOK(t, a)'
<1> USE DEF CommitBatch
<1>1. CASE t = "client" /\ a = b
  <2>1. InFlight(t, a) = Zero /\ Live(t) = TRUE
    BY <1>1 DEF InFlight, Live, Flat, BatchesApart
  <2>2. Cell(buf[t][a], row[t][a], earned[t][a], Zero, snap[t][a], TRUE)
    BY <2>1 DEF CellOK
  <2>3. Cell(buf[t][a], Plus(row[t][a], snap[t][a]), earned[t][a], snap[t][a], snap[t][a], TRUE)
    BY <2>2, CellType, CellStore
  <2>4. row'[t][a] = Plus(row[t][a], snap[t][a])
    BY <1>1 DEF TypeOK, Deltas, Table
  <2>5. InFlight(t, a)' = snap[t][a] /\ Live(t)' = TRUE
    BY <1>1 DEF InFlight, Live
  <2>6. buf' = buf /\ earned' = earned /\ snap' = snap
    BY DEF ghost
  <2> QED BY <2>3, <2>4, <2>5, <2>6 DEF CellOK
<1>2. CASE ~(t = "client" /\ a = b)
  <2>1. row'[t][a] = row[t][a]
    BY <1>2 DEF TypeOK, Deltas, Table
  <2>2. UNCHANGED <<buf, earned, snap, at>>
    BY DEF ghost
  <2>3. t = "client" => (a \in hot \cup ok <=> a \in hot' \cup ok')
    BY <1>2
  <2> QED BY <2>1, <2>2, <2>3, CellSame
<1> QED BY <1>1, <1>2

LEMMA RefuseBatchCell ==
  ASSUME TypeOK, NEW t \in Table, NEW a \in Address, CellOK(t, a),
         NEW b \in Address, RefuseBatch(b), Exact(t, a)'
  PROVE  CellOK(t, a)'
<1>1. ASSUME t = "client", a \in hot PROVE snap[t][a] = Zero
  BY <1>1 DEF RefuseBatch, Exact, Hit
<1> QED BY <1>1, AnsweredCell DEF RefuseBatch

LEMMA FanOutCell ==
  ASSUME TypeOK, NEW t \in Table, NEW a \in Address, CellOK(t, a), FanOut
  PROVE  CellOK(t, a)'
<1>1. CASE t = "client"
  <2>1. InFlight(t, a) = Zero
    BY <1>1, NotInFlight DEF FanOut
  <2>2. /\ buf'[t][a] = buf[t][a] /\ row'[t][a] = row[t][a] /\ earned'[t][a] = earned[t][a]
        /\ at'[t] = "over"
    BY <1>1 DEF FanOut, TypeOK, Deltas
  <2> QED BY <2>1, <2>2, LetGo
<1>2. CASE t = "address"
  <2>1. /\ buf'[t][a] = buf[t][a] /\ row'[t][a] = row[t][a] /\ earned'[t][a] = earned[t][a]
        /\ snap'[t][a] = snap[t][a] /\ at'[t] = at[t]
    BY <1>2 DEF FanOut, TypeOK, Deltas
  <2> QED BY <1>2, <2>1, CellSame
<1>3. CASE t = "worker"
  <2> DEFINE x == [acc |-> 0, rej |-> IF a \in ok /\ snap["client"][a].rej > 0
                                      THEN snap["client"][a].rej ELSE 0]
  <2>1. /\ row'[t][a] = Plus(row[t][a], x) /\ earned'[t][a] = Plus(earned[t][a], x)
        /\ buf'[t][a] = buf[t][a] /\ snap'[t][a] = snap[t][a] /\ at'[t] = at[t]
    BY <1>3 DEF FanOut, TypeOK, Deltas
  <2>2. x \in Amount /\ x.acc >= 0 /\ x.rej >= 0
    BY DEF Amount, TypeOK, Deltas, Table
  <2> HIDE DEF x
  <2>3. /\ buf[t][a] \in Amount /\ row[t][a] \in Amount /\ earned[t][a] \in Amount
        /\ snap[t][a] \in Amount /\ InFlight(t, a) \in Amount /\ Live(t) \in BOOLEAN
        /\ Cell(buf[t][a], row[t][a], earned[t][a], InFlight(t, a), snap[t][a], Live(t))
    BY CellType DEF CellOK
  <2>4. Cell(buf[t][a], Plus(row[t][a], x), Plus(earned[t][a], x), InFlight(t, a),
             snap[t][a], Live(t))
    BY <2>2, <2>3 DEF Cell, Plus, Amount
  <2>5. InFlight(t, a)' = InFlight(t, a) /\ Live(t)' = Live(t)
    BY <1>3, <2>1 DEF FanOut, batch, InFlight, Live
  <2> QED BY <2>1, <2>4, <2>5 DEF CellOK
<1> QED BY <1>1, <1>2, <1>3 DEF Table

LEMMA EraseBuffersCell ==
  ASSUME TypeOK, NEW t \in Table, NEW a \in Address, CellOK(t, a),
         NEW b \in Address, EraseBuffers(b), Exact(t, a)'
  PROVE  CellOK(t, a)'
<1> USE DEF EraseBuffers, flush, batch
<1>1. CASE a = b
  <2>1. Live(t) => snap[t][a] = Zero
    BY <1>1 DEF Live, Exact, Hit
  <2>2. Cell(Zero, row[t][a], Minus(earned[t][a], buf[t][a]), InFlight(t, a), snap[t][a], Live(t))
    BY SMTT(30), <2>1, CellType, CellEraseBuffer DEF CellOK
  <2>3. buf'[t][a] = Zero /\ earned'[t][a] = Minus(earned[t][a], buf[t][a])
    BY <1>1 DEF TypeOK, Deltas
  <2>4. InFlight(t, a)' = InFlight(t, a) /\ Live(t)' = Live(t)
    BY DEF InFlight, Live
  <2> QED BY <2>2, <2>3, <2>4 DEF CellOK
<1>2. CASE a # b
  <2>1. buf'[t][a] = buf[t][a] /\ earned'[t][a] = earned[t][a]
    BY <1>2 DEF TypeOK, Deltas
  <2> QED BY <2>1, CellSame
<1> QED BY <1>1, <1>2

LEMMA EraseRowCell ==
  ASSUME TypeOK, NEW t \in Table, NEW a \in Address, CellOK(t, a),
         NEW u \in Table, NEW b \in Address, EraseRow(u, b)
  PROVE  CellOK(t, a)'
<1> USE DEF EraseRow, flush, batch
<1>1. CASE t = u /\ a = b
  <2>4. /\ buf[t][a] \in Amount /\ row[t][a] \in Amount /\ earned[t][a] \in Amount
        /\ snap[t][a] \in Amount /\ InFlight(t, a) \in Amount /\ Live(t) \in BOOLEAN
        /\ Cell(buf[t][a], row[t][a], earned[t][a], InFlight(t, a), snap[t][a], Live(t))
    BY CellType DEF CellOK
  <2>1. Cell(buf[t][a], Zero, Minus(earned[t][a], row[t][a]), InFlight(t, a), snap[t][a], Live(t))
    BY <2>4, CellEraseRow
  <2>2. row'[t][a] = Zero /\ earned'[t][a] = Minus(earned[t][a], row[t][a])
    BY <1>1 DEF TypeOK, Deltas
  <2>3. InFlight(t, a)' = InFlight(t, a) /\ Live(t)' = Live(t)
    BY DEF InFlight, Live
  <2> QED BY <2>1, <2>2, <2>3 DEF CellOK
<1>2. CASE ~(t = u /\ a = b)
  <2>1. row'[t][a] = row[t][a] /\ earned'[t][a] = earned[t][a]
    BY <1>2 DEF TypeOK, Deltas
  <2> QED BY <2>1, CellSame
<1> QED BY <1>1, <1>2

LEMMA RestartCell ==
  ASSUME IInv, NEW t \in Table, NEW a \in Address, Restart, Exact(t, a)'
  PROVE  CellOK(t, a)'
<1>1. buf'[t][a] = Zero /\ row'[t][a] = Seeded[t][a] /\ at'[t] = "idle"
      /\ earned'[t][a] = Plus(Minus(earned[t][a], InMemory(t, a)), Minus(Seeded[t][a], row[t][a]))
  BY DEF Restart, Nothing
<1>2. Exact(t, a) /\ (t = "worker" => Exact("client", a))
  BY DEF Restart, Exact
<1>3. row[t][a] \in Amount /\ row["client"][a] \in Amount
  BY CellType DEF IInv, Table
<1>4. row[t][a].acc >= 0 /\ row[t][a].rej >= 0
  BY <1>2 DEF IInv, CellOK, Cell
<1>5. t = "worker" => row["client"][a].acc >= 0 /\ row["client"][a].rej >= 0
  BY <1>2 DEF IInv, CellOK, Cell, Table
<1>6. \/ Seeded[t][a] \in {row[t][a], Zero}
      \/ t = "worker" /\ Seeded[t][a] = row["client"][a]
  <2> DEFINE g == [b \in Address |-> IF row["client"][b].acc > 0 THEN row["client"][b] ELSE Zero]
  <2>1. Seeded = row \/ Seeded = [row EXCEPT !["worker"] = g]
    BY DEF Seeded
  <2>2. g[a] \in {row["client"][a], Zero}
    OBVIOUS
  <2> HIDE DEF g
  <2>3. DOMAIN row = Table
    BY DEF IInv, TypeOK, Deltas
  <2>4. CASE Seeded = row
    <3>1. Seeded[t][a] = row[t][a]
      BY <2>4
    <3> QED BY <3>1
  <2>5. CASE Seeded = [row EXCEPT !["worker"] = g]
    <3>1. Seeded[t] = IF t = "worker" THEN g ELSE row[t]
      BY <2>3, <2>5
    <3>2. CASE t = "worker"
      BY <2>2, <3>1, <3>2
    <3>3. CASE t # "worker"
      BY <3>1, <3>3
    <3> QED BY <3>2, <3>3
  <2> QED BY <2>1, <2>4, <2>5
<1>7. Seeded[t][a] \in Amount /\ Seeded[t][a].acc >= 0 /\ Seeded[t][a].rej >= 0
  BY <1>3, <1>4, <1>5, <1>6, AmountType DEF Zero
<1>8. Cell(Zero, Seeded[t][a], Seeded[t][a], Zero, snap'[t][a], FALSE)
  BY <1>7, CellNew
<1>9. InFlight(t, a)' = Zero /\ Live(t)' = FALSE
  BY <1>1, NotInFlightNext
<1>10. earned'[t][a] = Seeded[t][a]
  <2>1. /\ row[t][a] \in Amount /\ buf[t][a] \in Amount /\ earned[t][a] \in Amount
        /\ InFlight(t, a) \in Amount
    BY InMemoryType DEF IInv, TypeOK, Deltas
  <2>2. Plus(row[t][a], buf[t][a]) = Plus(earned[t][a], InFlight(t, a))
    BY <1>2 DEF IInv, CellOK, Cell
  <2> QED BY <1>1, <1>7, <2>1, <2>2, WrittenOff DEF InMemory
<1> QED BY <1>1, <1>8, <1>9, <1>10 DEF CellOK

-------------------------------------------------------------------------------
(* The invariant holds. *)

LEMMA InitCells == Init => \A t \in Table, a \in Address : CellOK(t, a)
<1> SUFFICES ASSUME Init, NEW t \in Table, NEW a \in Address PROVE CellOK(t, a)
  OBVIOUS
<1>1. buf[t][a] = Zero /\ row[t][a] = Zero /\ earned[t][a] = Zero /\ at[t] = "idle"
  BY DEF Init, Nothing
<1>2. InFlight(t, a) = Zero /\ Live(t) = FALSE
  BY <1>1, NotInFlight DEF Live
<1>3. Zero \in Amount /\ Zero.acc >= 0 /\ Zero.rej >= 0
  BY AmountType DEF Zero
<1>4. Cell(Zero, Zero, Zero, Zero, snap[t][a], FALSE)
  BY <1>3, CellNew
<1> QED BY <1>1, <1>2, <1>4 DEF CellOK

\* The flushes of a tick and of a stop.
LEMMA BeginCell ==
  ASSUME TypeOK, FlagGuards, NEW t \in Table, NEW a \in Address, CellOK(t, a),
         Begin, UNCHANGED <<buf, row, earned>>
  PROVE  CellOK(t, a)'
<1>1. at[t] = "idle" /\ {"client", "address"} \in SUBSET Table
  BY DEF Begin, FlagGuards, Table
<1>2. Drain({"client", "address"}) /\ hot' = {} /\ ok' = {}
  BY DEF Begin
<1> QED BY <1>1, <1>2, DrainCell

LEMMA StepCells == IInv /\ [Next]_vars => \A t \in Table, a \in Address : Exact(t, a)' => CellOK(t, a)'
<1> SUFFICES ASSUME IInv, [Next]_vars, NEW t \in Table, NEW a \in Address, Exact(t, a)'
             PROVE  CellOK(t, a)'
  OBVIOUS
<1>a. TypeOK /\ BatchesApart /\ FlagGuards
  BY DEF IInv
<1>b. CellOK(t, a)
  <2>1. spoiled \subseteq spoiled'
    BY StepSpoiled
  <2> QED BY <2>1 DEF IInv, Exact
<1>1. CASE Tick
  BY <1>1, <1>a, <1>b, BeginCell DEF Tick, ghost
<1>2. CASE FlushStep
  <2>1. CASE DrainWorker
    <3>1. /\ Drain({"worker"}) /\ at["worker"] = "idle" /\ UNCHANGED <<buf, row, earned>>
          /\ UNCHANGED <<hot, ok>> /\ {"worker"} \in SUBSET Table
      BY <2>1 DEF DrainWorker, batch, ghost, Table
    <3> QED BY <3>1, <1>a, <1>b, DrainCell
  <2>2. CASE AnswerBatch
    <3>1. /\ Answered(ok \cup hot) /\ at["client"] = "sent"
          /\ UNCHANGED <<row, earned, snap>>
      BY <2>2 DEF AnswerBatch, ghost
    <3> QED BY <3>1, <1>a, <1>b, AnsweredCell
  <2>3. CASE FanOut
    BY <2>3, <1>a, <1>b, FanOutCell
  <2>4. CASE Finish
    <3>1. at[t] = "over" /\ at'[t] = "idle" /\ UNCHANGED <<buf, row, earned>>
      BY <2>4 DEF Finish, ghost
    <3> QED BY <3>1, <1>b, NotInFlight, LetGo
  <2>5. ASSUME NEW u \in Table, Commit(u) \/ Confirm(u) PROVE CellOK(t, a)'
    BY <2>5, <1>a, <1>b, CommitCell, ConfirmCell
  <2>6. ASSUME NEW b \in Address, CommitBatch(b) PROVE CellOK(t, a)'
    BY <2>6, <1>a, <1>b, CommitBatchCell
  <2> QED BY <1>2, <2>1, <2>2, <2>3, <2>4, <2>5, <2>6 DEF FlushStep
<1>3. CASE FanOutFails
  <2>1. UNCHANGED <<buf, row, earned, snap, hot, ok>>
    BY <1>3 DEF FanOutFails, batch, ghost
  <2>2. CASE t = "client"
    <3>1. at[t] = "fanout" /\ at'[t] = "over"
      BY <1>3, <1>a, <2>2 DEF FanOutFails, TypeOK
    <3> QED BY <2>1, <3>1, <1>b, NotInFlight, LetGo
  <2>3. CASE t # "client"
    <3>1. at'[t] = at[t]
      BY <1>3, <1>a, <2>3 DEF FanOutFails, TypeOK
    <3> QED BY <2>1, <2>3, <3>1, <1>b, CellSame
  <2> QED BY <2>2, <2>3
<1>4. CASE Stop
  <2>1. UNCHANGED <<buf, row, earned>>
    BY <1>4 DEF Stop
  <2>2. CASE Begin
    BY <2>1, <2>2, <1>a, <1>b, BeginCell
  <2>3. CASE UNCHANGED flush
    <3>1. UNCHANGED <<snap, at, hot, ok>>
      BY <2>3 DEF flush, batch
    <3> QED BY <2>1, <3>1, <1>b, CellSame
  <2> QED BY <1>4, <2>2, <2>3 DEF Stop
<1>5. CASE Exit \/ Crash
  BY <1>5, RestartCell DEF Exit, Crash
<1>6. ASSUME NEW u \in Table, Refuse(u) PROVE CellOK(t, a)'
  BY <1>6, <1>a, <1>b, RefuseCell
<1>7. ASSUME NEW b \in Address, Accept(b) \/ Total(b) \/ Reject(b) PROVE CellOK(t, a)'
  <2>1. UNCHANGED <<row, at, snap, hot, ok>>
    BY <1>7 DEF Accept, Total, Reject, flush, batch
  <2>2. \/ Add({"client"}, b, Accepted) \/ Add(Flat, b, Accepted)
        \/ Add({"client"}, b, Rejected)
    BY <1>7 DEF Accept, Total, Reject
  <2>3. {"client"} \in SUBSET Table /\ Flat \in SUBSET Table
    BY DEF Table, Flat
  <2> QED BY <2>1, <2>2, <2>3, <1>a, <1>b, AddCell
<1>8. ASSUME NEW b \in Address, TotalFails(b) \/ Relist(b) \/ EraseFails(b)
      PROVE  CellOK(t, a)'
  <2>1. UNCHANGED <<buf, row, earned, snap, at, hot, ok>>
    BY <1>8 DEF TotalFails, Relist, EraseFails, flush, batch, ghost
  <2> QED BY <2>1, <1>b, CellSame
<1>9. ASSUME NEW b \in Address, RefuseBatch(b) PROVE CellOK(t, a)'
  BY <1>9, <1>a, <1>b, RefuseBatchCell
<1>10. ASSUME NEW b \in Address, EraseBuffers(b) PROVE CellOK(t, a)'
  BY <1>10, <1>a, <1>b, EraseBuffersCell
<1>11. ASSUME NEW b \in Address, EraseWorker(b) \/ EraseClient(b) \/ EraseSettings(b)
       PROVE  CellOK(t, a)'
  <2>1. \E u \in Table : EraseRow(u, b)
    BY <1>11 DEF EraseWorker, EraseClient, EraseSettings, Table
  <2> QED BY <2>1, <1>a, <1>b, EraseRowCell
<1>12. CASE UNCHANGED vars
  <2>1. UNCHANGED <<buf, row, earned, snap, at, hot, ok>>
    BY <1>12 DEF vars, flush, batch, ghost
  <2> QED BY <2>1, <1>b, CellSame
<1> QED BY <1>1, <1>2, <1>3, <1>4, <1>5, <1>6, <1>7, <1>8, <1>9, <1>10, <1>11, <1>12 DEF Next

LEMMA Inductive == Spec => []IInv
<1>1. Init => IInv
  BY InitTypeOK, InitShape, InitCells DEF IInv
<1>2. IInv /\ [Next]_vars => IInv'
  BY StepTypeOK, StepBatches, StepFlag, StepCells DEF IInv
<1> QED BY <1>1, <1>2, PTL DEF Spec

-------------------------------------------------------------------------------
(* The fan-out. *)

\* Rejections of a that are in its client's rows and not yet fanned out.
Pending(a) ==
    IF \/ at["client"] = "sent" /\ a \in hot \cup ok
       \/ at["client"] = "fanout" /\ a \in ok
    THEN snap["client"][a].rej ELSE 0

\* Without deletions the rows of a worker and of its client differ by what is to be
\* fanned out: the deltas of the client are not negative, those of the worker hold no
\* rejections.
Tally(a) ==
    /\ buf["client"][a].acc >= 0 /\ buf["client"][a].rej >= 0
    /\ at["client"] \in {"sent", "fanout"} =>
           snap["client"][a].acc >= 0 /\ snap["client"][a].rej >= 0
    /\ at["client"] = "sent" =>
           /\ snap["client"][a].acc <= buf["client"][a].acc
           /\ snap["client"][a].rej <= buf["client"][a].rej
    /\ row["client"][a].rej >= 0
    /\ row["worker"][a].rej + Pending(a) <= row["client"][a].rej
    /\ used.faults = 0 => row["worker"][a].rej + Pending(a) = row["client"][a].rej
    /\ buf["worker"][a].rej = 0 /\ snap["worker"][a].rej = 0

Tallied == used.erasures = 0 => \A a \in Address : erase[a] = "none" /\ Tally(a)

LEMMA FieldsAreIntegers ==
  ASSUME TypeOK, NEW t \in Table, NEW a \in Address
  PROVE  /\ buf[t][a].acc \in Int /\ buf[t][a].rej \in Int
         /\ row[t][a].acc \in Int /\ row[t][a].rej \in Int
         /\ snap[t][a].acc \in Int /\ snap[t][a].rej \in Int
<1>1. buf[t][a] \in Amount /\ row[t][a] \in Amount /\ snap[t][a] \in Amount
  BY CellType
<1> QED BY <1>1 DEF Amount

\* A step that leaves what a tally compares alone.
LEMMA TallySame ==
  ASSUME NEW a \in Address, Tally(a), buf'["client"][a] = buf["client"][a],
         snap'["client"][a] = snap["client"][a], at'["client"] = at["client"],
         row'["client"][a].rej = row["client"][a].rej,
         row'["worker"][a].rej = row["worker"][a].rej,
         a \in hot' <=> a \in hot, a \in ok' <=> a \in ok,
         buf'["worker"][a].rej = 0, snap'["worker"][a].rej = 0,
         used'.faults = 0 => used.faults = 0
  PROVE  Tally(a)'
<1>1. Pending(a)' = Pending(a)
  BY DEF Pending
<1> QED BY <1>1 DEF Tally

\* Deletions and faults are counted and never taken back.
LEMMA UsedGrows ==
  ASSUME TypeOK, [Next]_vars
  PROVE  /\ used'.erasures = 0 => used.erasures = 0
         /\ used'.erasures <= 1 => used.erasures <= 1
         /\ used'.faults = 0 => used.faults = 0
         /\ used'.shares >= used.shares
<1> USE DEF Fault, Submit, TypeOK
<1>0. /\ used.shares \in Nat /\ used.faults \in Nat /\ used.erasures \in Nat
      /\ used \in [shares : Nat, faults : Nat, erasures : Nat]
  BY CoordinatorAssumption
<1>1. CASE used' = used
  BY <1>0, <1>1
<1>2. CASE Fault
  BY <1>0, <1>2
<1>3. CASE Submit
  BY <1>0, <1>3
<1>4. CASE Tick \/ FlushStep \/ FanOutFails \/ Stop \/ Exit \/ Crash \/ UNCHANGED vars
  BY <1>1, <1>2, <1>4 DEF Tick, FlushStep, DrainWorker, AnswerBatch, FanOut, Finish, Commit,
     Confirm, CommitBatch, FanOutFails, Stop, Exit, Crash, vars
<1>5. ASSUME NEW t \in Table, Refuse(t)
      PROVE  used'.erasures = 0 => used.erasures = 0 /\ used'.faults # 0
  BY <1>0, <1>5 DEF Refuse
<1>6. CASE \E t \in Table : Refuse(t)
  BY <1>2, <1>6 DEF Refuse
<1>7. ASSUME NEW a \in Address,
             Accept(a) \/ Total(a) \/ TotalFails(a) \/ Reject(a) \/ RefuseBatch(a) \/ Relist(a)
      PROVE  Submit \/ Fault \/ used' = used
  BY <1>7 DEF Accept, Total, TotalFails, Reject, RefuseBatch, Relist
<1>8. ASSUME NEW a \in Address, EraseWorker(a) \/ EraseClient(a)
                                  \/ EraseSettings(a) \/ EraseFails(a)
      PROVE  Fault \/ used' = used
  BY <1>8 DEF EraseWorker, EraseClient, EraseSettings, EraseFails, EraseRow
<1>9. ASSUME NEW a \in Address, EraseBuffers(a)
      PROVE  used'.erasures = used.erasures + 1 /\ used'.faults = used.faults /\ used'.shares = used.shares
  BY <1>0, <1>9 DEF EraseBuffers
<1> QED BY <1>0, <1>1, <1>2, <1>3, <1>4, <1>6, <1>7, <1>8, <1>9 DEF Next

\* A flush of the clients begins.
LEMMA BeginTally ==
  ASSUME TypeOK, FlagGuards, NEW a \in Address, Tally(a), Begin, UNCHANGED <<buf, row>>,
         used'.faults = 0 => used.faults = 0
  PROVE  Tally(a)'
<1>1. at["client"] = "idle"
  BY DEF Begin, FlagGuards, Table
<1>2. /\ snap'["client"] = buf["client"] /\ snap'["worker"] = snap["worker"]
      /\ at'["client"] \in {"over", "sent"} /\ hot' = {} /\ ok' = {}
  BY DEF Begin, Drain, Table
<1>3. Pending(a) = 0 /\ Pending(a)' = 0
  BY <1>1, <1>2 DEF Pending
<1> QED BY <1>2, <1>3, FieldsAreIntegers DEF Tally, Table

\* What confirm leaves is not negative where nothing was.
LEMMA ConfirmedRejects ==
  ASSUME NEW x \in Amount, NEW s \in Amount
  PROVE  /\ x.rej = 0 /\ s.rej = 0 => Confirmed(x, s).rej = 0
         /\ s.acc <= x.acc /\ s.rej <= x.rej =>
                Confirmed(x, s).acc >= 0 /\ Confirmed(x, s).rej >= 0
  BY DEF Confirmed, Minus, Zero, Amount

\* The batches in oks have succeeded; the others are not in the rows, or may be.
LEMMA AnsweredTally ==
  ASSUME TypeOK, NEW a \in Address, Tally(a), at["client"] = "sent",
         NEW oks \in SUBSET Address, Answered(oks), ok \subseteq oks, oks \subseteq hot \cup ok,
         UNCHANGED <<row, snap>>, oks = hot \cup ok \/ used'.faults # 0,
         used'.faults = 0 => used.faults = 0
  PROVE  Tally(a)'
<1> DEFINE s == snap["client"][a]
<1>0. /\ s.acc >= 0 /\ s.rej >= 0 /\ s.acc \in Int /\ s.rej \in Int
      /\ s.acc <= buf["client"][a].acc /\ s.rej <= buf["client"][a].rej
  BY FieldsAreIntegers DEF Tally, Table
<1>1. Pending(a) = IF a \in hot \cup ok THEN s.rej ELSE 0
  BY DEF Pending
<1>2. CASE left' # {}
  <2>1. /\ buf' = buf /\ at' = at /\ hot' = {} /\ ok' = oks
    BY <1>2 DEF Answered
  <2>2. Pending(a)' = IF a \in oks THEN s.rej ELSE 0
    BY <2>1 DEF Pending
  <2> QED BY <1>0, <1>1, <2>1, <2>2, FieldsAreIntegers DEF Tally, Table
<1>3. CASE left' = {}
  <2>1. hot' = {} /\ ok' = oks /\ buf'["worker"] = buf["worker"]
    BY <1>3 DEF Answered, TypeOK, Deltas, Table
  <2>2. buf'["client"][a] \in {buf["client"][a], Confirmed(buf["client"][a], s)}
    BY <1>3 DEF Answered, TypeOK, Deltas, Table
  <2>3. buf'["client"][a].acc >= 0 /\ buf'["client"][a].rej >= 0
    BY <1>0, <2>2, ConfirmedRejects, CellType DEF Tally, Table
  <2>4. \/ at'["client"] = "fanout"
        \/ at'["client"] = "over" /\ (a \in oks => ~(s.rej > 0))
    BY <1>3 DEF Answered, TypeOK, Table
  <2>5. Pending(a)' = IF a \in oks THEN s.rej ELSE 0
    BY <1>0, <2>1, <2>4 DEF Pending
  <2> QED BY <1>0, <1>1, <2>1, <2>3, <2>4, <2>5, FieldsAreIntegers DEF Tally, Table
<1> QED BY <1>2, <1>3

LEMMA CommitBatchTally ==
  ASSUME TypeOK, BatchesApart, NEW a \in Address, Tally(a), NEW b \in Address, CommitBatch(b)
  PROVE  Tally(a)'
<1>1. /\ UNCHANGED <<buf, snap, at, ok, used>> /\ row'["worker"] = row["worker"]
      /\ hot = {} /\ hot' = {b} /\ at["client"] = "sent"
      /\ row'["client"][a] = IF a = b THEN Plus(row["client"][a], snap["client"][a])
                                      ELSE row["client"][a]
  BY DEF CommitBatch, TypeOK, Deltas, Table
<1>2. CASE a = b
  <2>1. Pending(a) = 0 /\ Pending(a)' = snap["client"][a].rej
    BY <1>1, <1>2 DEF Pending, CommitBatch, BatchesApart
  <2>2. row'["client"][a].rej = row["client"][a].rej + snap["client"][a].rej
    BY <1>1, <1>2 DEF Plus
  <2> QED BY <1>1, <2>1, <2>2, FieldsAreIntegers DEF Tally, Table
<1>3. CASE a # b
  BY <1>1, <1>3, TallySame DEF Tally
<1> QED BY <1>2, <1>3

LEMMA FanOutTally ==
  ASSUME TypeOK, NEW a \in Address, Tally(a), FanOut
  PROVE  Tally(a)'
<1> DEFINE n == IF a \in ok /\ snap["client"][a].rej > 0 THEN snap["client"][a].rej ELSE 0
<1>1. /\ UNCHANGED <<buf, snap, ok, hot, used>> /\ row'["client"] = row["client"]
      /\ at["client"] = "fanout" /\ at'["client"] = "over"
      /\ row'["worker"][a] = Plus(row["worker"][a], [acc |-> 0, rej |-> n])
  BY DEF FanOut, TypeOK, Deltas, Table, batch
<1>2. row'["worker"][a].rej = row["worker"][a].rej + n
  BY <1>1 DEF Plus
<1>3. Pending(a)' = 0 /\ n = Pending(a)
  BY <1>1, FieldsAreIntegers DEF Pending, Tally, Table
<1> QED BY <1>1, <1>2, <1>3, FieldsAreIntegers DEF Tally, Table
-------------------------------------------------------------------------------
(* The stop. *)

Shares(x) == x.acc + x.rej

\* The flush of a stop leaves no more in a client's buffer than has come since: while
\* its batches are with the database that is what the buffer holds more than the copy.
Saved(a) ==
    /\ at["client"] = "sent" =>
           /\ Shares(buf["client"][a]) - Shares(snap["client"][a]) <= used.shares - since
           /\ a \notin left \cup hot \cup ok => snap["client"][a] = Zero
    /\ at["client"] # "sent" => Shares(buf["client"][a]) <= used.shares - since

Stopping ==
    phase # "up" =>
        /\ used.faults # 0 /\ since \in Nat /\ since <= used.shares
        /\ kept => \A a \in Address : Deleted(a) \/ Saved(a)
        /\ kept /\ phase = "closing" => ~busy

\* The workers' rows that a start finds empty are filled from the clients'.
LEMMA SeededRejects ==
  ASSUME TypeOK, NEW a \in Address, row["worker"][a].rej <= row["client"][a].rej,
         row["client"][a].rej >= 0
  PROVE  /\ Seeded["client"][a].rej = row["client"][a].rej
         /\ Seeded["worker"][a].rej <= row["client"][a].rej
<1> DEFINE g == [b \in Address |-> IF row["client"][b].acc > 0 THEN row["client"][b] ELSE Zero]
<1>1. Seeded = row \/ Seeded = [row EXCEPT !["worker"] = g]
  BY DEF Seeded
<1>2. g[a] \in {row["client"][a], Zero}
  OBVIOUS
<1>3. Zero.rej = 0
  BY DEF Zero
<1> HIDE DEF g
<1>4. "client" \in DOMAIN row /\ "worker" \in DOMAIN row
  BY DEF TypeOK, Deltas, Table
<1>5. row["client"][a].rej \in Int
  BY FieldsAreIntegers DEF Table
<1>6. CASE Seeded = row
  BY <1>6
<1>7. CASE Seeded = [row EXCEPT !["worker"] = g]
  <2>1. Seeded["client"] = row["client"] /\ Seeded["worker"] = g
    BY <1>4, <1>7
  <2> QED BY <1>2, <1>3, <1>5, <2>1
<1> QED BY <1>1, <1>6, <1>7

LEMMA RestartTally ==
  ASSUME TypeOK, NEW a \in Address, Tally(a), Restart, used'.faults # 0
  PROVE  Tally(a)'
<1>1. /\ buf'["client"][a] = Zero /\ buf'["worker"][a] = Zero /\ snap'["worker"][a] = Zero
      /\ at'["client"] = "idle" /\ row' = Seeded
  BY DEF Restart, Nothing, Table
<1>2. Pending(a)' = 0
  BY <1>1 DEF Pending
<1>3. Pending(a) >= 0 /\ Pending(a) \in Int
  BY FieldsAreIntegers DEF Pending, Tally, Table
<1>4. row["worker"][a].rej <= row["client"][a].rej /\ row["client"][a].rej >= 0
  BY <1>3, FieldsAreIntegers DEF Tally, Table
<1>5. Zero.acc = 0 /\ Zero.rej = 0
  BY DEF Zero
<1>6. /\ row'["client"][a].rej >= 0 /\ row'["worker"][a].rej <= row'["client"][a].rej
      /\ row'["worker"][a].rej \in Int
  <2>1. Seeded["worker"][a].rej \in Int
    BY SeededType DEF Deltas, Amount, Table
  <2> QED BY <1>1, <1>4, <2>1, SeededRejects
<1> QED BY <1>1, <1>2, <1>5, <1>6 DEF Tally

\* Tables other than the clients', and the workers' deltas.
LEMMA FlatTally ==
  ASSUME TypeOK, NEW a \in Address, Tally(a), NEW t \in Table,
         Commit(t) \/ Confirm(t) \/ Refuse(t), used'.faults = 0 => used.faults = 0
  PROVE  Tally(a)'
<1> USE DEF Table, Flat
<1>1. /\ t \in {"address", "worker"} /\ UNCHANGED batch
      /\ at'["client"] = at["client"] /\ buf'["client"] = buf["client"]
      /\ snap'["client"] = snap["client"] /\ row'["client"] = row["client"]
  BY DEF Commit, Confirm, Refuse, TypeOK, Deltas
<1>2. buf["worker"][a].rej = 0 /\ snap["worker"][a].rej = 0 /\ Zero.rej = 0
  BY DEF Tally, Zero
<1>3. snap'["worker"][a] \in {snap["worker"][a], Zero}
  BY DEF Commit, Confirm, Refuse, TypeOK, Deltas, Nothing
<1>4. buf'["worker"][a].rej = 0
  <2>1. buf'["worker"][a] \in {buf["worker"][a], Confirmed(buf["worker"][a], snap["worker"][a])}
    BY DEF Commit, Confirm, Refuse, TypeOK, Deltas
  <2> QED BY <1>2, <2>1, ConfirmedRejects, CellType
<1>5. row'["worker"][a].rej = row["worker"][a].rej
  <2>1. row'["worker"][a] \in {row["worker"][a], Plus(row["worker"][a], snap["worker"][a])}
    BY DEF Commit, Confirm, Refuse, TypeOK, Deltas
  <2>2. Plus(row["worker"][a], snap["worker"][a]).rej = row["worker"][a].rej
    BY <1>2, FieldsAreIntegers DEF Plus
  <2> QED BY <2>1, <2>2
<1> QED BY <1>1, <1>2, <1>3, <1>4, <1>5, TallySame DEF batch

LEMMA AddTally ==
  ASSUME TypeOK, NEW a \in Address, Tally(a), NEW b \in Address,
         Accept(b) \/ Total(b) \/ Reject(b), used'.faults = 0 => used.faults = 0
  PROVE  Tally(a)'
<1>1. UNCHANGED <<row, at, snap, left, hot, ok>>
  BY DEF Accept, Total, Reject, flush, batch
<1>2. Pending(a)' = Pending(a)
  BY <1>1 DEF Pending
<1>3. \/ \E x \in {Accepted, Rejected} : Add({"client"}, b, x)
      \/ Add(Flat, b, Accepted)
  BY DEF Accept, Total, Reject
<1>4. CASE \E x \in {Accepted, Rejected} : Add({"client"}, b, x)
  <2>1. PICK x \in {Accepted, Rejected} : Add({"client"}, b, x)
    BY <1>4
  <2>2. /\ buf'["worker"] = buf["worker"]
        /\ buf'["client"][a] \in {buf["client"][a], Plus(buf["client"][a], x)}
    BY <2>1 DEF Add, TypeOK, Deltas, Table
  <2>3. /\ buf'["client"][a].acc >= buf["client"][a].acc
        /\ buf'["client"][a].rej >= buf["client"][a].rej
        /\ buf'["client"][a].acc \in Int /\ buf'["client"][a].rej \in Int
    BY <2>2, FieldsAreIntegers DEF Plus, Accepted, Rejected, Table
  <2> QED BY <1>1, <1>2, <2>2, <2>3, FieldsAreIntegers DEF Tally, Table
<1>5. CASE Add(Flat, b, Accepted)
  <2>1. /\ buf'["client"] = buf["client"]
        /\ buf'["worker"][a] \in {buf["worker"][a], Plus(buf["worker"][a], Accepted)}
    BY <1>5 DEF Add, TypeOK, Deltas, Table, Flat
  <2>2. buf'["worker"][a].rej = 0
    BY <2>1 DEF Tally, Plus, Accepted
  <2> QED BY <1>1, <2>1, <2>2, TallySame DEF Tally
<1> QED BY <1>3, <1>4, <1>5

LEMMA StepTallied == IInv /\ Tallied /\ Stopping /\ [Next]_vars => Tallied'
<1> SUFFICES ASSUME IInv, Tallied, Stopping, [Next]_vars, used'.erasures = 0, NEW a \in Address
             PROVE  erase'[a] = "none" /\ Tally(a)'
  BY DEF Tallied
<1>0. /\ TypeOK /\ BatchesApart /\ FlagGuards /\ used.erasures = 0
      /\ \A b \in Address : erase[b] = "none"
      /\ Tally(a) /\ (used'.faults = 0 => used.faults = 0)
  BY UsedGrows DEF IInv, Tallied
<1>1. CASE Tick \/ Stop
  <2>1. UNCHANGED <<buf, row, erase>> /\ (Begin \/ UNCHANGED flush)
    BY <1>1 DEF Tick, Stop
  <2>2. CASE Begin
    BY <1>0, <2>1, <2>2, BeginTally
  <2>3. CASE UNCHANGED flush
    BY <1>0, <2>1, <2>3, TallySame DEF Tally, flush, batch
  <2> QED BY <1>0, <2>1, <2>2, <2>3
<1>2. CASE FlushStep
  <2>1. CASE DrainWorker
    <3>1. /\ UNCHANGED <<buf, row, erase, hot, ok>> /\ at'["client"] = at["client"]
          /\ snap'["client"] = snap["client"] /\ snap'["worker"] = buf["worker"]
      BY <2>1 DEF DrainWorker, Drain, batch, Table
    <3> QED BY <1>0, <3>1, TallySame DEF Tally
  <2>2. CASE AnswerBatch
    <3>1. UNCHANGED <<row, snap, erase>> /\ Answered(hot \cup ok) /\ at["client"] = "sent"
      BY <2>2 DEF AnswerBatch
    <3>2. hot \cup ok \in SUBSET Address
      BY <1>0 DEF TypeOK
    <3> QED BY <1>0, <3>1, <3>2, AnsweredTally
  <2>3. CASE FanOut
    BY <1>0, <2>3, FanOutTally DEF FanOut
  <2>4. CASE Finish
    <3>1. /\ UNCHANGED <<buf, row, erase>> /\ at["client"] = "over" /\ at'["client"] = "idle"
          /\ snap'["worker"][a] = Zero
      BY <2>4 DEF Finish, Table, Nothing
    <3>2. Pending(a) = 0 /\ Pending(a)' = 0
      BY <3>1 DEF Pending
    <3> QED BY <1>0, <3>1, <3>2 DEF Tally, Zero
  <2>5. ASSUME NEW t \in Table, Commit(t) \/ Confirm(t) PROVE erase'[a] = "none" /\ Tally(a)'
    BY <1>0, <2>5, FlatTally DEF Commit, Confirm
  <2>6. ASSUME NEW b \in Address, CommitBatch(b) PROVE erase'[a] = "none" /\ Tally(a)'
    BY <1>0, <2>6, CommitBatchTally DEF CommitBatch
  <2> QED BY <1>2, <2>1, <2>2, <2>3, <2>4, <2>5, <2>6 DEF FlushStep
<1>3. CASE FanOutFails
  <2>1. /\ UNCHANGED <<buf, row, erase, snap, hot, ok>>
        /\ at["client"] = "fanout" /\ at'["client"] = "over" /\ used'.faults # 0
    BY <1>0, <1>3, CoordinatorAssumption DEF FanOutFails, batch, Fault, TypeOK, Table
  <2>2. Pending(a)' = 0 /\ Pending(a) >= 0 /\ Pending(a) \in Int
    BY <1>0, <2>1, FieldsAreIntegers DEF Pending, Tally, Table
  <2> QED BY <1>0, <2>1, <2>2, FieldsAreIntegers DEF Tally, Table
<1>4. CASE Exit \/ Crash
  <2>1. Restart /\ used'.faults # 0
    BY <1>0, <1>4, CoordinatorAssumption DEF Exit, Crash, Stopping, Fault, TypeOK
  <2> QED BY <1>0, <2>1, RestartTally DEF Restart
<1>5. ASSUME NEW t \in Table, Refuse(t) PROVE erase'[a] = "none" /\ Tally(a)'
  BY <1>0, <1>5, FlatTally DEF Refuse
<1>6. ASSUME NEW b \in Address, Accept(b) \/ Total(b) \/ Reject(b)
      PROVE  erase'[a] = "none" /\ Tally(a)'
  BY <1>0, <1>6, AddTally DEF Accept, Total, Reject
<1>7. ASSUME NEW b \in Address, TotalFails(b) \/ Relist(b)
      PROVE  erase'[a] = "none" /\ Tally(a)'
  <2>1. UNCHANGED <<buf, row, snap, at, hot, ok, erase>>
    BY <1>7 DEF TotalFails, Relist, flush, batch
  <2> QED BY <1>0, <2>1, TallySame DEF Tally
<1>8. ASSUME NEW b \in Address, RefuseBatch(b) PROVE erase'[a] = "none" /\ Tally(a)'
  <2>1. /\ UNCHANGED <<row, snap, erase>> /\ Answered(ok) /\ at["client"] = "sent"
        /\ used'.faults # 0
    BY <1>0, <1>8, CoordinatorAssumption DEF RefuseBatch, Fault, TypeOK
  <2>2. ok \in SUBSET Address
    BY <1>0 DEF TypeOK
  <2> QED BY <1>0, <2>1, <2>2, AnsweredTally
<1>9. ASSUME NEW b \in Address, EraseBuffers(b) \/ EraseWorker(b) \/ EraseClient(b)
                                   \/ EraseSettings(b) \/ EraseFails(b)
      PROVE  FALSE
  <2>1. ~EraseBuffers(b)
    BY <1>0, CoordinatorAssumption DEF EraseBuffers, TypeOK
  <2> QED BY <1>0, <1>9, <2>1 DEF EraseWorker, EraseClient, EraseSettings, EraseFails
<1>10. CASE UNCHANGED vars
  <2>1. UNCHANGED <<buf, row, snap, at, hot, ok, erase>>
    BY <1>10 DEF vars, flush, batch
  <2> QED BY <1>0, <2>1, TallySame DEF Tally
<1> QED BY <1>1, <1>2, <1>3, <1>4, <1>5, <1>6, <1>7, <1>8, <1>9, <1>10 DEF Next
\* A step that puts no more into a client's buffer than shares were submitted.
LEMMA SavedSame ==
  ASSUME TypeOK, NEW a \in Address, Saved(a), since \in Nat, since' = since,
         used.shares \in Nat, used'.shares \in Nat, Shares(buf'["client"][a]) \in Int,
         Shares(buf'["client"][a]) - Shares(buf["client"][a]) <= used'.shares - used.shares,
         \/ at["client"] # "sent" /\ at'["client"] # "sent"
         \/ /\ at'["client"] = at["client"] /\ snap'["client"][a] = snap["client"][a]
            /\ a \in left' \cup hot' \cup ok' <=> a \in left \cup hot \cup ok
  PROVE  Saved(a)'
<1>1. Shares(buf["client"][a]) \in Int /\ Shares(snap["client"][a]) \in Int
  BY FieldsAreIntegers DEF Shares, Table
<1> HIDE DEF Shares
<1> QED BY <1>1 DEF Saved

LEMMA ConfirmedShares ==
  ASSUME NEW x \in Amount, NEW s \in Amount, NEW n \in Nat, Shares(x) - Shares(s) <= n
  PROVE  Shares(Confirmed(x, s)) <= n
  BY DEF Shares, Confirmed, Minus, Zero, Amount

LEMMA AnswerSaved ==
  ASSUME TypeOK, NEW a \in Address, Saved(a), AnswerBatch, since \in Nat,
         since <= used.shares
  PROVE  Saved(a)'
<1>1. /\ at["client"] = "sent" /\ Answered(ok \cup hot) /\ left' = left
      /\ UNCHANGED <<snap, used, since>>
  BY DEF AnswerBatch, ghost
<1>2. used.shares \in Nat
  BY CoordinatorAssumption DEF TypeOK
<1>3. CASE left # {}
  <2>1. buf' = buf /\ at' = at /\ hot' = {} /\ ok' = ok \cup hot
    BY <1>1, <1>3 DEF Answered
  <2> QED BY <1>1, <2>1 DEF Saved
<1>4. CASE left = {}
  <2>1. at'["client"] # "sent"
    BY <1>1, <1>4 DEF Answered, TypeOK, Table
  <2>2. buf'["client"][a] = IF a \in ok \cup hot THEN Confirmed(buf["client"][a], snap["client"][a])
                                                 ELSE buf["client"][a]
    BY <1>1, <1>4 DEF Answered, TypeOK, Deltas, Table
  <2>3. Shares(buf["client"][a]) - Shares(snap["client"][a]) <= used.shares - since
    BY <1>1 DEF Saved
  <2>4. used.shares - since \in Nat
    BY <1>2
  <2>5. CASE a \in ok \cup hot
    BY <1>1, <2>1, <2>2, <2>3, <2>4, <2>5, ConfirmedShares, CellType DEF Saved, Table
  <2>6. CASE a \notin ok \cup hot
    <3>1. snap["client"][a] = Zero /\ buf'["client"][a] = buf["client"][a]
      BY <1>1, <1>4, <2>2, <2>6 DEF Saved
    <3>2. Shares(snap["client"][a]) = 0
      BY <3>1 DEF Shares, Zero
    <3>3. Shares(buf["client"][a]) \in Int
      BY FieldsAreIntegers DEF Shares, Table
    <3> HIDE DEF Shares
    <3> QED BY <1>1, <2>1, <2>3, <2>4, <3>1, <3>2, <3>3 DEF Saved
  <2> QED BY <2>5, <2>6
<1> QED BY <1>3, <1>4

\* A deletion empties the buffer: a copy that is with the database is not negative but
\* for an earlier deletion.
LEMMA EraseSaved ==
  ASSUME IInv, Tallied, NEW a \in Address, Saved(a), NEW b \in Address, EraseBuffers(b),
         since \in Nat, since <= used.shares, ~Deleted(a)'
  PROVE  Saved(a)'
<1>0. TypeOK
  BY DEF IInv
<1>1. /\ UNCHANGED <<snap, at, left, hot, ok, since>> /\ used'.shares = used.shares
      /\ used.shares \in Nat /\ used'.erasures = used.erasures + 1 /\ used.erasures \in Nat
  BY <1>0, CoordinatorAssumption DEF EraseBuffers, flush, batch, TypeOK
<1>2. CASE a # b
  <2>1. buf'["client"][a] = buf["client"][a]
    BY <1>0, <1>2 DEF EraseBuffers, TypeOK, Deltas, Table
  <2> QED BY <1>1, <2>1 DEF Saved
<1>3. CASE a = b
  <2>1. buf'["client"][a] = Zero /\ Shares(Zero) = 0
    BY <1>0, <1>3 DEF EraseBuffers, TypeOK, Deltas, Table, Shares, Zero
  <2>2. at["client"] = "sent" => Shares(snap["client"][a]) >= 0
    <3>1. CASE used.erasures = 0
      BY <1>0, <3>1, FieldsAreIntegers DEF Tallied, Tally, Shares, Table
    <3>2. CASE used.erasures # 0
      <4>1. <<"client", a>> \notin spoiled'
        BY <1>1, <3>2 DEF Deleted, Exact
      <4>2. at["client"] = "sent" => snap["client"][a] = Zero
        BY <1>3, <4>1 DEF EraseBuffers, Hit, Table
      <4> QED BY <4>2 DEF Shares, Zero
    <3> QED BY <3>1, <3>2
  <2>3. Shares(snap["client"][a]) \in Int
    BY <1>0, FieldsAreIntegers DEF Shares, Table
  <2> HIDE DEF Shares
  <2> QED BY <1>1, <2>1, <2>2, <2>3 DEF Saved
<1> QED BY <1>2, <1>3

\* The flush of the stop begins, or there is nothing to flush.
LEMMA StopStops ==
  ASSUME TypeOK, FlagGuards, Stop
  PROVE  /\ used'.faults # 0 /\ since' \in Nat /\ since' <= used'.shares
         /\ kept' => \A a \in Address : Saved(a)'
         /\ kept' /\ phase' = "closing" => ~busy'
<1>1. /\ since' = used.shares /\ used'.shares = used.shares /\ used.shares \in Nat
      /\ used'.faults # 0 /\ kept' = ~busy /\ buf' = buf
  BY CoordinatorAssumption DEF Stop, Fault, TypeOK
<1>2. ASSUME NEW a \in Address, ~busy PROVE Saved(a)'
  <2>1. CASE Begin
    <3>1. /\ snap'["client"] = buf["client"] /\ left' = Drained("client")
          /\ at'["client"] = IF Drained("client") = {} THEN "over" ELSE "sent"
      BY <2>1 DEF Begin, Drain, Table
    <3>2. a \notin Drained("client") => buf["client"][a] = Zero
      BY DEF Drained
    <3>3. Shares(buf["client"][a]) \in Int /\ Shares(Zero) = 0
      BY FieldsAreIntegers DEF Shares, Zero, Table
    <3> HIDE DEF Shares
    <3> QED BY <1>1, <3>1, <3>2, <3>3 DEF Saved
  <2>2. CASE ~Begin
    <3>1. at'["client"] = "idle" /\ buf["client"][a] = Zero
      BY <1>2, <2>2 DEF Stop, Drained, flush, FlagGuards, Table
    <3>2. Shares(Zero) = 0
      BY DEF Shares, Zero
    <3> HIDE DEF Shares
    <3> QED BY <1>1, <3>1, <3>2 DEF Saved
  <2> QED BY <2>1, <2>2
<1>3. kept' => ~busy
  BY Zenon DEF Stop
<1>4. kept' /\ phase' = "closing" => ~busy'
  <2>1. phase' = "flushing" \/ UNCHANGED flush
    BY DEF Stop
  <2>2. UNCHANGED flush => (busy' <=> busy)
    BY DEF flush
  <2>3. CASE phase' = "flushing"
    BY <2>3
  <2>4. CASE UNCHANGED flush
    BY Zenon, <1>3, <2>2, <2>4
  <2> QED BY <2>1, <2>3, <2>4
<1> QED BY <1>1, <1>2, <1>3, <1>4

LEMMA StepStopping == IInv /\ Tallied /\ Stopping /\ [Next]_vars => Stopping'
<1> SUFFICES ASSUME IInv, Tallied, Stopping, [Next]_vars, phase' # "up"
             PROVE  /\ used'.faults # 0 /\ since' \in Nat /\ since' <= used'.shares
                    /\ kept' => \A a \in Address : Deleted(a)' \/ Saved(a)'
                    /\ kept' /\ phase' = "closing" => ~busy'
  BY DEF Stopping
<1>0. /\ TypeOK /\ BatchesApart /\ FlagGuards /\ TypeOK'
      /\ used.shares \in Nat /\ used'.shares \in Nat /\ used'.shares >= used.shares
      /\ used'.erasures = 0 => used.erasures = 0
      /\ used'.faults = 0 => used.faults = 0
  BY UsedGrows, StepTypeOK, CoordinatorAssumption DEF IInv, TypeOK
<1>1. CASE Stop
  BY <1>0, <1>1, StopStops
<1>2. CASE Exit \/ Crash
  BY <1>2 DEF Exit, Crash, Restart
<1>3. CASE ~Stop /\ ~Exit /\ ~Crash
  <2>0. used'.erasures <= 1 => used.erasures <= 1
    BY <1>0, UsedGrows
  <2>1. /\ phase # "up" /\ since' = since /\ (kept' => kept)
        /\ busy' = FALSE \/ (phase' = phase /\ busy' = busy)
    <3> USE DEF ghost
    <3>1. CASE Tick \/ FanOutFails \/ (\E t \in Table : Refuse(t)) \/ UNCHANGED vars
      BY <3>1 DEF Tick, FanOutFails, Refuse, vars, flush
    <3>4. CASE Finish
      BY <3>4 DEF Finish
    <3>5. CASE FlushStep /\ ~Finish
      <4>1. UNCHANGED <<phase, since, kept, busy>>
        BY <3>5 DEF FlushStep, DrainWorker, AnswerBatch, FanOut, Commit, Confirm, CommitBatch
      <4> QED BY <4>1
    <3>2. ASSUME NEW b \in Address,
                 Accept(b) \/ Total(b) \/ TotalFails(b) \/ Reject(b) \/ RefuseBatch(b) \/ Relist(b)
          PROVE  phase' = phase /\ since' = since /\ (kept' => kept) /\ busy' = busy
      BY <3>2 DEF Accept, Total, TotalFails, Reject, RefuseBatch, Relist, flush
    <3>3. ASSUME NEW b \in Address, EraseBuffers(b) \/ EraseWorker(b) \/ EraseClient(b)
                                       \/ EraseSettings(b) \/ EraseFails(b)
          PROVE  phase' = phase /\ since' = since /\ (kept' => kept) /\ busy' = busy
      BY <3>3 DEF EraseBuffers, EraseWorker, EraseClient, EraseSettings, EraseFails, EraseRow, flush
    <3> QED BY <1>3, <3>1, <3>2, <3>3, <3>4, <3>5 DEF Next
  <2>2. /\ used'.faults # 0 /\ since' \in Nat /\ since' <= used'.shares
        /\ kept' /\ phase' = "closing" => ~busy'
    BY <1>0, <2>1 DEF Stopping
  <2>3. ASSUME NEW a \in Address, kept', ~Deleted(a)' PROVE Saved(a)'
    <3>0. Saved(a) /\ since \in Nat /\ since <= used.shares
      <4>1. ~Deleted(a)
        <5>1. used.erasures \in Nat /\ used'.erasures \in Nat
          BY <1>0, CoordinatorAssumption DEF TypeOK
        <5> QED BY <2>3, <2>0, <5>1, StepSpoiled DEF Deleted, Exact
      <4> QED BY <2>1, <2>3, <4>1 DEF Stopping
    <3>a. Shares(buf["client"][a]) \in Int /\ Shares(buf'["client"][a]) \in Int
      <4>1. buf["client"][a] \in Amount /\ buf'["client"][a] \in Amount
        BY <1>0 DEF TypeOK, Deltas, Table
      <4> QED BY <4>1 DEF Shares, Amount
    <3>b. ASSUME buf'["client"][a] = buf["client"][a],
                 \/ at["client"] # "sent" /\ at'["client"] # "sent"
                 \/ /\ at'["client"] = at["client"] /\ snap'["client"] = snap["client"]
                    /\ a \in left' \cup hot' \cup ok' <=> a \in left \cup hot \cup ok
          PROVE  Saved(a)'
      BY <1>0, <2>1, <3>0, <3>a, <3>b, SavedSame
    <3>1. CASE FlushStep
      <4>1. CASE DrainWorker
        BY <3>b, <4>1 DEF DrainWorker, Drain, batch, Table
      <4>2. CASE AnswerBatch
        BY <1>0, <3>0, <4>2, AnswerSaved
      <4>3. CASE FanOut \/ Finish
        BY <1>0, <3>b, <4>3 DEF FanOut, Finish, TypeOK, Table
      <4>4. ASSUME NEW t \in Table, Commit(t) \/ Confirm(t) PROVE Saved(a)'
        BY <1>0, <3>b, <4>4 DEF Commit, Confirm, batch, TypeOK, Deltas, Table, Flat
      <4>5. ASSUME NEW b \in Address, CommitBatch(b) PROVE Saved(a)'
        <5>1. UNCHANGED <<buf, at, snap, ok>> /\ hot = {} /\ hot' = {b} /\ left' = left \ {b}
              /\ b \in left
          BY <4>5 DEF CommitBatch
        <5> QED BY <3>b, <5>1
      <4> QED BY <3>1, <4>1, <4>2, <4>3, <4>4, <4>5 DEF FlushStep
    <3>2. CASE Tick \/ (\E t \in Table : Refuse(t)) \/ \E b \in Address : RefuseBatch(b)
      BY <2>1, <2>3, <3>2 DEF Tick, Refuse, RefuseBatch
    <3>3. CASE FanOutFails
      BY <1>0, <3>b, <3>3 DEF FanOutFails, TypeOK, Table
    <3>4. ASSUME NEW b \in Address, Accept(b) \/ Reject(b) PROVE Saved(a)'
      <4>1. UNCHANGED <<at, snap, left, hot, ok>> /\ used'.shares = used.shares + 1
        BY <1>0, <3>4 DEF Accept, Reject, Submit, flush, batch, TypeOK
      <4>2. \E x \in {Accepted, Rejected} : buf'["client"][a] \in {buf["client"][a], Plus(buf["client"][a], x)}
        BY <1>0, <3>4 DEF Accept, Reject, Add, TypeOK, Deltas, Table
      <4>3. Shares(buf'["client"][a]) - Shares(buf["client"][a]) <= 1
        BY <1>0, <4>2, FieldsAreIntegers DEF Shares, Plus, Accepted, Rejected, Table
      <4> HIDE DEF Shares
      <4> QED BY <1>0, <2>1, <3>0, <3>a, <4>1, <4>3, SavedSame
    <3>5. ASSUME NEW b \in Address, Total(b) PROVE Saved(a)'
      BY <3>5, <3>b DEF Total, Add, Flat, Table, flush, batch
    <3>6. ASSUME NEW b \in Address, TotalFails(b) \/ Relist(b) \/ EraseWorker(b)
                          \/ EraseClient(b) \/ EraseSettings(b) \/ EraseFails(b)
          PROVE  Saved(a)'
      BY <3>6, <3>b DEF TotalFails, Relist, EraseWorker, EraseClient, EraseSettings,
         EraseFails, EraseRow, flush, batch
    <3>7. ASSUME NEW b \in Address, EraseBuffers(b) PROVE Saved(a)'
      BY <2>3, <3>0, <3>7, EraseSaved
    <3>8. CASE UNCHANGED vars
      BY <3>b, <3>8 DEF vars, flush, batch
    <3> QED BY <1>3, <3>1, <3>2, <3>3, <3>4, <3>5, <3>6, <3>7, <3>8 DEF Next
  <2> QED BY <2>2, <2>3
<1> QED BY <1>1, <1>2, <1>3

LEMMA InitTallied == Init => Tallied /\ Stopping
<1> SUFFICES ASSUME Init, NEW a \in Address PROVE erase[a] = "none" /\ Tally(a) /\ Stopping
  BY DEF Tallied, Init, Stopping
<1>1. /\ buf["client"][a] = Zero /\ buf["worker"][a] = Zero /\ snap["worker"][a] = Zero
      /\ row["client"][a] = Zero /\ row["worker"][a] = Zero /\ at["client"] = "idle"
  BY DEF Init, Nothing, Table
<1>2. Pending(a) = 0
  BY <1>1 DEF Pending
<1>3. Zero.acc = 0 /\ Zero.rej = 0
  BY DEF Zero
<1> QED BY <1>1, <1>2, <1>3 DEF Tally, Init, Stopping

LEMMA FlushesAreExact == Spec => [](IInv /\ Tallied /\ Stopping)
<1>1. Init => IInv /\ Tallied /\ Stopping
  BY InitTypeOK, InitShape, InitCells, InitTallied DEF IInv
<1>2. IInv /\ Tallied /\ Stopping /\ [Next]_vars => (IInv /\ Tallied /\ Stopping)'
  BY StepTypeOK, StepBatches, StepFlag, StepCells, StepTallied, StepStopping DEF IInv
<1> QED BY <1>1, <1>2, PTL DEF Spec

-------------------------------------------------------------------------------
(* The theorems. *)

\* The buffers, the drained copies and the rows are amounts per table and
\* address at every point of a flush, a deletion and a restart.
THEOREM TypesHold == Spec => []TypeOK
<1>1. IInv => TypeOK
  BY DEF IInv
<1> QED BY <1>1, Inductive, PTL

\* drain, upsert and confirm (utils/buffers.ts and the flushers): shares that
\* are counted during a flush survive it, no drained delta is taken out of the
\* buffer twice, and the end of a process costs what only its memory held and no
\* more, for any number of addresses, shares, failures, deletions and restarts.
THEOREM NothingLost == Spec => []Conserved
<1>1. IInv => Conserved
  BY DEF IInv, Conserved, CellOK, Cell
<1> QED BY <1>1, Inductive, PTL

\* confirm never leaves a delta below zero behind, and the next upsert so never
\* takes anything out of a row.
THEOREM TotalsStayPositive == Spec => []NothingNegative
<1>1. IInv => NothingNegative
  BY DEF IInv, NothingNegative, CellOK, Cell
<1> QED BY <1>1, Inductive, PTL

\* A flush keeps the books through everything that meets it: counted shares are in
\* the buffer or in the rows, and none below zero, wherever the flush was exact,
\* but for those that only the memory of a process that ended had.
THEOREM BooksStayBalanced == Spec => []BooksBalance
  BY TypesHold, NothingLost, TotalsStayPositive, PTL DEF BooksBalance

\* The rejections of a client's rows reach its worker's rows once, and a stop whose
\* flush ran without a failure leaves no share in memory that was counted before it,
\* for any number of addresses and shares, wherever failures, deletions, stops and
\* crashes fall.
THEOREM FlushesAreComplete == Spec => []FlushesComplete
<1>1. TypeOK /\ Tallied => FannedOutOnce
  <2> SUFFICES ASSUME TypeOK, Tallied, used.erasures = 0, NEW a \in Address
               PROVE  /\ row["worker"][a].rej <= row["client"][a].rej
                      /\ used.faults = 0 /\ at["client"] \in {"idle", "over"} =>
                             row["worker"][a].rej = row["client"][a].rej
    BY DEF FannedOutOnce
  <2>1. Pending(a) >= 0 /\ Pending(a) \in Int /\ (at["client"] \in {"idle", "over"} => Pending(a) = 0)
    BY FieldsAreIntegers DEF Pending, Tallied, Tally, Table
  <2> QED BY <2>1, FieldsAreIntegers DEF Tallied, Tally, Table
<1>2. IInv /\ Stopping => StopSaves
  <2> SUFFICES ASSUME IInv, Stopping, phase = "closing", kept, NEW a \in Address, ~Deleted(a)
               PROVE  ~Unsaved(a)
    BY DEF StopSaves
  <2>1. at["client"] # "sent"
    BY DEF Stopping, IInv, FlagGuards, Table
  <2>2. Saved(a)
    BY DEF Stopping
  <2>3. /\ buf["client"][a].acc \in Int /\ buf["client"][a].rej \in Int
        /\ used.shares \in Nat /\ since \in Nat
    BY FieldsAreIntegers, CoordinatorAssumption DEF Stopping, IInv, TypeOK, Table
  <2> QED BY <2>1, <2>2, <2>3 DEF Saved, Unsaved, Shares
<1>3. IInv /\ Tallied /\ Stopping => FlushesComplete
  BY <1>1, <1>2 DEF IInv, FlushesComplete
<1> QED BY <1>3, FlushesAreExact, PTL

===============================================================================
