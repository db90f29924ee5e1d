--------------------------- MODULE LeaseSlotsProofs ---------------------------
(***************************************************************************)
(* What the table knows of a slot, what its node serves, and what is on    *)
(* its way between them, as long as no pool is resized.  From the          *)
(* invariant that ties the four together follow the properties that a      *)
(* device or an administrator would notice.  Then what a lease is to its   *)
(* holder: it ends when it says, it is cut off after a revocation, and the *)
(* pool implements the exclusive grant of whole groups of credentials.     *)
(***************************************************************************)
EXTENDS LeasePoolProofs

-----------------------------------------------------------------------------
(* One slot: its row, the agent's entry, a late report and an open answer.   *)
(* The definitions speak of values, so that one lemma serves every node.     *)

\* The generation the node serves is leased, or was and is revoked.
Taken(row, loc) == row.generation = loc.generation /\ InUse(row)

\* The row is never ahead of the node.  A row that can be leased ends with the slot; if the
\* node has rotated the slot since, the row has too little time left to be leased.
RowFits(row, loc, t) ==
    /\ row.generation <= loc.generation
    /\ row.state = "active" =>
          IF row.generation = loc.generation THEN row.validUntil = loc.validUntil
          ELSE row.validUntil < t + MinRemaining

\* A reason to rotate is true of the row.
FlagFits(n, row, loc, t) ==
    /\ loc.validUntil <= t + Life[n]
    /\ loc.flag = "unsent" => row.generation < loc.generation
    /\ loc.flag \in {"revoked", "urgent"} =>
          row.generation = loc.generation /\ row.state = "revoked"
    /\ loc.flag = "unleased" => ~Taken(row, loc) /\ loc.validUntil < t + MinRemaining

\* A report that is still on its way does no harm whenever it arrives.
ItemFits(item, row, loc, t) ==
    /\ item.generation <= loc.generation
    /\ item.generation = loc.generation =>
          loc.flag # "unsent" /\ (~Taken(row, loc) => item.validUntil = loc.validUntil)
    /\ item.generation < loc.generation =>
          \/ item.generation < row.generation
          \/ item.generation = row.generation /\ InUse(row)
          \/ item.validUntil < t + MinRemaining

\* What an answer says of the served generation is still true when the agent reads it,
\* except that the slot may have been leased or revoked since.
AnswerFits(asOf, v, row, loc, t) ==
    /\ asOf <= t
    /\ v.generation <= row.generation
    /\ v.generation = loc.generation =>
          /\ InUse(v) => InUse(row)
          /\ v.state = "revoked" => row.state = "revoked"
          /\ v.extendTo <= row.extendTo
          /\ v.state = "active" /\ InUse(row) => loc.validUntil >= asOf + MinRemaining

SlotFits(n, s) ==
    /\ RowFits(slots[n][s], local[n][s], now)
    /\ FlagFits(n, slots[n][s], local[n][s], now)
    /\ answer[n].open =>
          AnswerFits(answer[n].asOf, answer[n].view[s], slots[n][s], local[n][s], now)
    /\ \A rep \in late : rep.node = n => ItemFits(rep.items[s], slots[n][s], local[n][s], now)

SlotInv == \A n \in Nodes, s \in Slots : SlotFits(n, s)

LEMMA RemainingType == MinRemaining \in Nat /\ MinRemaining > 0
BY Parameters

\* How the transactions of devices change a row: they take it when it has time left, or
\* revoke or extend a row that is taken.
RowMoves(row, new, t) ==
    /\ new.generation = row.generation /\ new.validUntil = row.validUntil
    /\ new.extendTo >= row.extendTo
    /\ \/ new.state = row.state
       \/ row.state = "active" /\ row.validUntil >= t + MinRemaining /\ new.state = "leased"
       \/ row.state = "leased" /\ new.state = "revoked"

LEMMA MovedFits ==
    ASSUME NEW n \in Nodes, NEW row \in Row, NEW new \in Row, NEW loc \in Local, NEW t \in Nat,
           RowMoves(row, new, t), RowFits(row, loc, t), FlagFits(n, row, loc, t)
    PROVE  RowFits(new, loc, t) /\ FlagFits(n, new, loc, t)
<1>1. /\ row.generation \in Nat /\ loc.generation \in Nat /\ row.validUntil \in Nat
      /\ loc.validUntil \in Nat
  BY DEF Row, Local
<1>2. QED
  BY <1>1, RemainingType DEF RowMoves, RowFits, FlagFits, Taken, InUse

LEMMA MovedItem ==
    ASSUME NEW item \in Item, NEW row \in Row, NEW new \in Row, NEW loc \in Local, NEW t \in Nat,
           RowMoves(row, new, t), ItemFits(item, row, loc, t)
    PROVE  ItemFits(item, new, loc, t)
BY DEF RowMoves, ItemFits, Taken, InUse

LEMMA MovedAnswer ==
    ASSUME NEW asOf \in Nat, NEW v \in RowView, NEW row \in Row, NEW new \in Row,
           NEW loc \in Local, NEW t \in Nat,
           RowMoves(row, new, t), RowFits(row, loc, t), AnswerFits(asOf, v, row, loc, t)
    PROVE  AnswerFits(asOf, v, new, loc, t)
<1>1. /\ row.generation \in Nat /\ loc.generation \in Nat /\ row.validUntil \in Nat
      /\ loc.validUntil \in Nat /\ row.extendTo \in Nat /\ new.extendTo \in Nat
      /\ v.generation \in Nat /\ v.extendTo \in Nat
  BY DEF Row, Local, RowView
<1>2. QED
  BY <1>1, RemainingType DEF RowMoves, RowFits, AnswerFits, InUse

\* How a report changes a row: it may be stored anew as active, of a later generation.
LEMMA SyncedMoves ==
    ASSUME NEW row \in Row, NEW item \in Item, NEW secrets \in BOOLEAN, item.generation > 0
    PROVE  LET new == SyncedRow(row, item, secrets)
           IN \/ new = row /\ item.generation # row.generation
              \/ /\ item.generation = row.generation /\ new.generation = row.generation
                 /\ new.state = row.state /\ new.extendTo = row.extendTo
                 /\ new.validUntil \in {row.validUntil, item.validUntil}
              \/ /\ item.generation > row.generation /\ new.generation = item.generation
                 /\ new.state = "active" /\ new.validUntil = item.validUntil
<1>1. row.generation \in Nat /\ item.generation \in Nat /\ item.generation # 0
  BY DEF Row, Item
<1>2. row.validUntil \in Nat /\ item.validUntil \in Nat
  BY DEF Row, Item
<1>3. ASSUME NEW v
      PROVE  /\ [row EXCEPT !.validUntil = v].generation = row.generation
             /\ [row EXCEPT !.validUntil = v].state = row.state
             /\ [row EXCEPT !.validUntil = v].extendTo = row.extendTo
             /\ [row EXCEPT !.validUntil = v].validUntil = v
  BY DEF Row
<1>4. CASE item.generation = row.generation
  <2> DEFINE v == Max({row.validUntil, item.validUntil})
  <2>1. v \in {row.validUntil, item.validUntil}
    BY <1>2, MaxOfTwo
  <2>2. SyncedRow(row, item, secrets) = [row EXCEPT !.validUntil = v]
    BY <1>1, <1>4 DEF SyncedRow
  <2> HIDE DEF v
  <2>3. QED
    BY <1>3, <1>4, <2>1, <2>2
<1>5. CASE item.generation # row.generation /\ (item.generation < row.generation \/ ~secrets)
  BY <1>1, <1>5 DEF SyncedRow
<1>6. CASE item.generation > row.generation /\ secrets
  <2>1. SyncedRow(row, item, secrets) = Fresh(item)
    BY <1>1, <1>6 DEF SyncedRow
  <2>2. /\ Fresh(item).generation = item.generation /\ Fresh(item).state = "active"
        /\ Fresh(item).validUntil = item.validUntil
    BY DEF Fresh
  <2>3. QED
    BY <1>6, <2>1, <2>2
<1>7. QED
  BY <1>1, <1>4, <1>5, <1>6

LEMMA SyncedFits ==
    ASSUME NEW n \in Nodes, NEW row \in Row, NEW loc \in Local, NEW t \in Nat,
           NEW item \in Item, NEW secrets \in BOOLEAN, item.generation > 0,
           RowFits(row, loc, t), FlagFits(n, row, loc, t), ItemFits(item, row, loc, t)
    PROVE  LET new == SyncedRow(row, item, secrets)
           IN RowFits(new, loc, t) /\ FlagFits(n, new, loc, t)
<1>1. /\ row.generation \in Nat /\ loc.generation \in Nat /\ row.validUntil \in Nat
      /\ loc.validUntil \in Nat /\ item.validUntil \in Nat /\ item.generation \in Nat
  BY DEF Row, Local, Item
<1> DEFINE new == SyncedRow(row, item, secrets)
<1>2. \/ new = row
      \/ /\ item.generation = row.generation /\ new.generation = row.generation
         /\ new.state = row.state
         /\ new.validUntil \in {row.validUntil, item.validUntil}
      \/ /\ item.generation > row.generation /\ new.generation = item.generation
         /\ new.state = "active" /\ new.validUntil = item.validUntil
  BY SyncedMoves
<1> HIDE DEF new
<1>3. RowFits(new, loc, t)
  BY <1>1, <1>2, RemainingType DEF RowFits, ItemFits, Taken, InUse
<1>4. FlagFits(n, new, loc, t)
  BY <1>1, <1>2 DEF RowFits, FlagFits, ItemFits, Taken, InUse
<1>5. QED
  BY <1>3, <1>4 DEF new

LEMMA SyncedItem ==
    ASSUME NEW row \in Row, NEW loc \in Local, NEW t \in Nat,
           NEW item \in Item, NEW secrets \in BOOLEAN, item.generation > 0,
           NEW other \in Item, RowFits(row, loc, t),
           ItemFits(item, row, loc, t), ItemFits(other, row, loc, t)
    PROVE  ItemFits(other, SyncedRow(row, item, secrets), loc, t)
<1>1. /\ row.generation \in Nat /\ loc.generation \in Nat /\ item.generation \in Nat
      /\ other.generation \in Nat /\ item.validUntil \in Nat /\ other.validUntil \in Nat
  BY DEF Row, Local, Item
<1> DEFINE new == SyncedRow(row, item, secrets)
<1>2. \/ new = row
      \/ new.generation = row.generation /\ new.state = row.state
      \/ /\ item.generation > row.generation /\ new.generation = item.generation
         /\ new.state = "active"
  BY SyncedMoves
<1> HIDE DEF new
<1>3. ItemFits(other, new, loc, t)
  BY <1>1, <1>2 DEF RowFits, ItemFits, Taken, InUse
<1>4. QED
  BY <1>3 DEF new

LEMMA SyncedAnswer ==
    ASSUME NEW row \in Row, NEW loc \in Local, NEW t \in Nat,
           NEW item \in Item, NEW secrets \in BOOLEAN, item.generation > 0,
           NEW asOf \in Nat, NEW v \in RowView, RowFits(row, loc, t),
           ItemFits(item, row, loc, t), AnswerFits(asOf, v, row, loc, t)
    PROVE  AnswerFits(asOf, v, SyncedRow(row, item, secrets), loc, t)
<1>1. /\ row.generation \in Nat /\ loc.generation \in Nat /\ item.generation \in Nat
      /\ v.generation \in Nat /\ v.extendTo \in Nat /\ row.extendTo \in Nat
  BY DEF Row, Local, Item, RowView
<1> DEFINE new == SyncedRow(row, item, secrets)
<1>2. \/ new = row
      \/ new.generation = row.generation /\ new.state = row.state /\ new.extendTo = row.extendTo
      \/ /\ item.generation > row.generation /\ new.generation = item.generation
         /\ new.state = "active"
  BY SyncedMoves
<1> HIDE DEF new
<1>3. AnswerFits(asOf, v, new, loc, t)
  BY <1>1, <1>2 DEF RowFits, ItemFits, AnswerFits, InUse
<1>4. QED
  BY <1>3 DEF new
\* The agent has reported the slot: an unsent generation becomes a sent one.
LEMMA ReportedFits ==
    ASSUME NEW n \in Nodes, NEW row \in Row, NEW loc \in Local, NEW new \in Local, NEW t \in Nat,
           new.generation = loc.generation, new.validUntil = loc.validUntil,
           new.flag = IF loc.flag = "unsent" THEN "sent" ELSE loc.flag,
           RowFits(row, loc, t), FlagFits(n, row, loc, t)
    PROVE  /\ RowFits(row, new, t) /\ FlagFits(n, row, new, t)
           /\ \A item \in Item : ItemFits(item, row, loc, t) => ItemFits(item, row, new, t)
           /\ \A item \in Item :
                 item.generation = loc.generation /\ item.validUntil = loc.validUntil
                    => ItemFits(item, row, new, t)
           /\ \A asOf \in Nat, v \in RowView :
                 AnswerFits(asOf, v, row, loc, t) => AnswerFits(asOf, v, row, new, t)
<1>1. /\ row.generation \in Nat /\ loc.generation \in Nat /\ loc.validUntil \in Nat
  BY DEF Row, Local
<1>2. RowFits(row, new, t) /\ FlagFits(n, row, new, t)
  BY DEF RowFits, FlagFits, Taken
<1>3. \A item \in Item : ItemFits(item, row, loc, t) => ItemFits(item, row, new, t)
  BY DEF ItemFits, Taken
<1>4. \A item \in Item :
         item.generation = loc.generation /\ item.validUntil = loc.validUntil
            => ItemFits(item, row, new, t)
  BY <1>1 DEF ItemFits
<1>5. \A asOf \in Nat, v \in RowView :
         AnswerFits(asOf, v, row, loc, t) => AnswerFits(asOf, v, row, new, t)
  BY DEF AnswerFits
<1>6. QED
  BY <1>2, <1>3, <1>4, <1>5

\* The answer to a report is the row as it is then.
LEMMA ViewFits ==
    ASSUME NEW row \in Row, NEW loc \in Local, NEW t \in Nat, NEW v \in RowView,
           v.generation = row.generation, v.state = row.state, v.extendTo = row.extendTo,
           RowFits(row, loc, t)
    PROVE  AnswerFits(t, v, row, loc, t)
<1>1. row.generation \in Nat /\ row.extendTo \in Nat
  BY DEF Row
<1>2. QED
  BY <1>1 DEF RowFits, AnswerFits, InUse

LEMMA FloorBound ==
    ASSUME NEW t \in Nat, NEW g \in Nat \ {0}
    PROVE  FloorTo(t, g) <= t
<1>1. t \div g \in Nat /\ t = g * (t \div g) + (t % g) /\ t % g \in 0..(g - 1)
  OBVIOUS
<1>2. (t \div g) * g = g * (t \div g)
  BY <1>1
<1>3. QED
  BY <1>1, <1>2 DEF FloorTo

LEMMA MintedBound ==
    ASSUME NEW n \in Nodes, NEW t \in Nat
    PROVE  MintedUntil(n, t) <= t + Life[n]
<1>1. Life[n] \in Nat /\ Grid[n] \in Nat \ {0}
  BY Parameters
<1>2. QED
  BY <1>1, FloorBound DEF MintedUntil

\* An extension is adopted from a leased row only, within the lifetime and the row's offer.
LEMMA AdoptedBound ==
    ASSUME TypeOK, NEW n \in Nodes, NEW mine \in Local, NEW row \in RowView
    PROVE  \/ Adopted(n, mine, row) = mine.validUntil
           \/ /\ row.state = "leased" /\ Adopted(n, mine, row) <= now + Life[n]
              /\ Adopted(n, mine, row) <= row.extendTo
<1>1. mine.validUntil \in Nat /\ row.extendTo \in Nat /\ now \in Nat /\ Life[n] \in Nat
  BY Parameters DEF Local, RowView, TypeOK
<1> DEFINE f == FloorTo(row.extendTo, Grid[n])
           g == MintedUntil(n, now)
           m == Min({f, g})
<1>2. f \in Nat /\ f <= row.extendTo
  BY <1>1, FloorType, FloorBound, Parameters
<1>3. g \in Nat /\ g <= now + Life[n]
  BY <1>1, MintedType, MintedBound
<1> HIDE DEF f, g
<1>4. m \in Nat /\ m <= row.extendTo /\ m <= now + Life[n]
  <2>1. m \in {f, g} /\ m <= f /\ m <= g
    BY <1>2, <1>3, MinOfTwo
  <2> HIDE DEF m
  <2>2. QED
    BY <1>1, <1>2, <1>3, <2>1
<1> HIDE DEF m
<1>5. Max({mine.validUntil, m}) \in {mine.validUntil, m}
  BY <1>1, <1>4, MaxOfTwo
<1>6. QED
  BY <1>4, <1>5 DEF Adopted, f, g, m

\* The agent takes over what an answer says of the generation it serves.
LEMMA ReadFits ==
    ASSUME NEW n \in Nodes, NEW row \in Row, NEW loc \in Local, NEW new \in Local, NEW t \in Nat,
           NEW asOf \in Nat, NEW v \in RowView, v.generation = loc.generation,
           AnswerFits(asOf, v, row, loc, t), RowFits(row, loc, t), FlagFits(n, row, loc, t),
           new.generation = loc.generation,
           \/ new.validUntil = loc.validUntil
           \/ v.state = "leased" /\ new.validUntil <= t + Life[n],
           new.flag = Verdict(loc, v, asOf)
    PROVE  /\ RowFits(row, new, t) /\ FlagFits(n, row, new, t)
           /\ \A item \in Item : ItemFits(item, row, loc, t) => ItemFits(item, row, new, t)
<1>1. /\ row.generation \in Nat /\ loc.generation \in Nat /\ loc.validUntil \in Nat
      /\ v.generation \in Nat /\ new.validUntil \in Nat /\ Life[n] \in Nat
      /\ v.state \in {"absent", "active", "leased", "revoked"} /\ v.urgent \in BOOLEAN
  BY Parameters DEF Row, Local, RowView
<1>2. row.generation = loc.generation
  BY <1>1 DEF AnswerFits, RowFits
<1>3. loc.flag # "unsent"
  BY <1>1, <1>2 DEF FlagFits
<1>4. /\ v.state = "leased" => InUse(row)
      /\ v.state = "revoked" => row.state = "revoked"
      /\ v.state = "active" /\ InUse(row) => loc.validUntil >= asOf + MinRemaining
      /\ asOf <= t
  BY DEF AnswerFits, InUse
<1>5. \/ new.flag \in {"urgent", "revoked"} /\ v.state = "revoked"
      \/ new.flag = "unleased" /\ v.state = "active" /\ loc.validUntil < asOf + MinRemaining
      \/ new.flag = loc.flag
  BY <1>1 DEF Verdict
<1>6. RowFits(row, new, t)
  BY <1>1, <1>2, <1>4 DEF RowFits, InUse
<1>7. FlagFits(n, row, new, t)
  <2>1. new.validUntil <= t + Life[n]
    BY DEF FlagFits
  <2>2. CASE new.flag \in {"urgent", "revoked"} /\ v.state = "revoked"
    BY <1>2, <1>4, <2>1, <2>2 DEF FlagFits
  <2>3. CASE new.flag = "unleased" /\ v.state = "active" /\ loc.validUntil < asOf + MinRemaining
    <3>1. ~InUse(row) /\ new.validUntil = loc.validUntil
      BY <1>1, <1>4, <2>3, RemainingType
    <3>2. new.validUntil < t + MinRemaining
      BY <1>1, <1>4, <2>3, <3>1, RemainingType
    <3>3. QED
      BY <2>1, <2>3, <3>1, <3>2 DEF FlagFits, Taken
  <2>4. CASE new.flag = loc.flag
    BY <1>2, <1>4, <2>1, <2>4 DEF FlagFits, Taken
  <2>5. QED
    BY <1>5, <2>2, <2>3, <2>4
<1>8. ASSUME NEW item \in Item, ItemFits(item, row, loc, t)
      PROVE  ItemFits(item, row, new, t)
  <2>1. new.flag # "unsent"
    BY <1>3, <1>5
  <2>2. QED
    BY <1>2, <1>4, <1>8, <2>1 DEF ItemFits, Taken
<1>9. QED
  BY <1>6, <1>7, <1>8

\* What is rotated has ended, or nobody can use it any more.
LEMMA MintFits ==
    ASSUME NEW n \in Nodes, NEW row \in Row, NEW loc \in Local, NEW new \in Local, NEW t \in Nat,
           RowFits(row, loc, t), FlagFits(n, row, loc, t),
           \/ loc.validUntil <= t
           \/ loc.flag \in {"urgent", "revoked", "unleased"}
           \/ loc.flag = "unsent" /\ loc.validUntil < t + MinRemaining,
           new.generation = loc.generation + 1, new.validUntil <= t + Life[n],
           new.flag = "unsent"
    PROVE  /\ RowFits(row, new, t) /\ FlagFits(n, row, new, t)
           /\ \A item \in Item : ItemFits(item, row, loc, t) => ItemFits(item, row, new, t)
<1>1. /\ row.generation \in Nat /\ loc.generation \in Nat /\ row.validUntil \in Nat
      /\ loc.validUntil \in Nat
  BY DEF Row, Local
<1>2. RowFits(row, new, t)
  BY <1>1, RemainingType DEF RowFits, FlagFits, Taken, InUse
<1>3. FlagFits(n, row, new, t)
  BY <1>1 DEF RowFits, FlagFits
<1>4. ASSUME NEW item \in Item, ItemFits(item, row, loc, t)
      PROVE  ItemFits(item, row, new, t)
  <2>1. item.generation \in Nat /\ item.validUntil \in Nat
    BY DEF Item
  <2>2. item.generation < new.generation
    BY <1>1, <1>4, <2>1 DEF ItemFits
  <2>3. CASE item.generation < loc.generation
    BY <1>4, <2>1, <2>2, <2>3, <1>1 DEF ItemFits
  <2>4. CASE item.generation = loc.generation
    BY <1>1, <1>4, <2>1, <2>2, <2>4, RemainingType DEF ItemFits, FlagFits, Taken, InUse
  <2>5. QED
    BY <1>1, <1>4, <2>1, <2>3, <2>4 DEF ItemFits
<1>5. QED
  BY <1>2, <1>3, <1>4

\* Time passes.
LEMMA LaterFits ==
    ASSUME NEW n \in Nodes, NEW row \in Row, NEW loc \in Local, NEW t \in Nat,
           RowFits(row, loc, t), FlagFits(n, row, loc, t)
    PROVE  /\ RowFits(row, loc, t + 1) /\ FlagFits(n, row, loc, t + 1)
           /\ \A item \in Item : ItemFits(item, row, loc, t) => ItemFits(item, row, loc, t + 1)
           /\ \A asOf \in Nat, v \in RowView :
                 AnswerFits(asOf, v, row, loc, t) => AnswerFits(asOf, v, row, loc, t + 1)
<1>1. /\ row.validUntil \in Nat /\ loc.validUntil \in Nat /\ Life[n] \in Nat
  BY Parameters DEF Row, Local
<1>2. RowFits(row, loc, t + 1) /\ FlagFits(n, row, loc, t + 1)
  BY <1>1, RemainingType DEF RowFits, FlagFits
<1>3. ASSUME NEW item \in Item, ItemFits(item, row, loc, t)
      PROVE  ItemFits(item, row, loc, t + 1)
  <2>1. item.validUntil \in Nat
    BY DEF Item
  <2>2. QED
    BY <1>3, <2>1, RemainingType DEF ItemFits
<1>4. \A asOf \in Nat, v \in RowView :
         AnswerFits(asOf, v, row, loc, t) => AnswerFits(asOf, v, row, loc, t + 1)
  BY DEF AnswerFits
<1>5. QED
  BY <1>2, <1>3, <1>4
-----------------------------------------------------------------------------
(* Every slot: one lemma per kind of step.                                   *)

LEMMA SlotTypes ==
    ASSUME TypeOK, NEW n \in Nodes, NEW s \in Slots
    PROVE  /\ slots[n][s] \in Row /\ local[n][s] \in Local /\ now \in Nat
           /\ answer[n] \in Answer /\ answer[n].asOf \in Nat /\ answer[n].view[s] \in RowView
           /\ \A rep \in late : rep.node \in Nodes /\ rep.items[s] \in Item
BY DEF TypeOK, Answer, Report

LEMMA SlotInit == MaxResizes = 0 /\ Init => SlotInv
<1> SUFFICES ASSUME MaxResizes = 0, Init, NEW n \in Nodes, NEW s \in Slots PROVE SlotFits(n, s)
  BY DEF SlotInv
<1>1. pool[n] = Slots
  BY DEF Init
<1>2. /\ slots[n][s].generation = 0 /\ slots[n][s].state = "absent"
      /\ local[n][s].generation = 1 /\ local[n][s].flag = "unsent"
      /\ local[n][s].validUntil = MintedUntil(n, 0)
  BY <1>1 DEF Init, NoRow
<1>3. ~answer[n].open /\ late = {} /\ now = 0
  BY DEF Init, NoAnswer
<1>4. RowFits(slots[n][s], local[n][s], now) /\ FlagFits(n, slots[n][s], local[n][s], now)
  BY <1>2, <1>3, MintedBound DEF RowFits, FlagFits
<1>5. QED
  BY <1>3, <1>4 DEF SlotFits

\* A transaction on the tables, at one time.
LEMMA SlotMoved ==
    ASSUME TypeOK, TypeOK', SlotInv, UNCHANGED <<now, local, answer, late>>,
           \A n \in Nodes, s \in Slots : RowMoves(slots[n][s], slots'[n][s], now)
    PROVE  SlotInv'
<1> SUFFICES ASSUME NEW n \in Nodes, NEW s \in Slots PROVE SlotFits(n, s)'
  BY DEF SlotInv
<1> DEFINE row == slots[n][s]
           new == slots'[n][s]
           loc == local[n][s]
<1>1. /\ row \in Row /\ loc \in Local /\ now \in Nat
      /\ answer[n].asOf \in Nat /\ answer[n].view[s] \in RowView
      /\ \A rep \in late : rep.items[s] \in Item
  BY SlotTypes
<1>2. new \in Row
  BY DEF TypeOK
<1>3. RowMoves(row, new, now)
  OBVIOUS
<1>4. /\ RowFits(row, loc, now) /\ FlagFits(n, row, loc, now)
      /\ answer[n].open => AnswerFits(answer[n].asOf, answer[n].view[s], row, loc, now)
      /\ \A rep \in late : rep.node = n => ItemFits(rep.items[s], row, loc, now)
  BY DEF SlotInv, SlotFits
<1> HIDE DEF row, new, loc
<1>5. RowFits(new, loc, now) /\ FlagFits(n, new, loc, now)
  BY <1>1, <1>2, <1>3, <1>4, MovedFits
<1>6. answer[n].open => AnswerFits(answer[n].asOf, answer[n].view[s], new, loc, now)
  BY <1>1, <1>2, <1>3, <1>4, MovedAnswer
<1>7. \A rep \in late : rep.node = n => ItemFits(rep.items[s], new, loc, now)
  BY <1>1, <1>2, <1>3, <1>4, MovedItem
<1>8. QED
  BY <1>5, <1>6, <1>7 DEF SlotFits, new, loc

LEMMA SlotRenew ==
    ASSUME TypeOK, TypeOK', TablesInv, SlotInv,
           NEW d \in Devices, NEW r \in Routes, NEW k \in Keys \cup {NoKey}, Renew(d, r, k)
    PROVE  SlotInv'
<1>1. PICK i \in DOMAIN leases, target \in Nat : Renewable(i, d, r) /\ Extends(i, target)
  BY Renewed
<1>2. ASSUME NEW n \in Nodes, NEW s \in Slots
      PROVE  RowMoves(slots[n][s], slots'[n][s], now)
  <2>1. /\ slots'[n][s].generation = slots[n][s].generation
        /\ slots'[n][s].validUntil = slots[n][s].validUntil
        /\ slots'[n][s].state = slots[n][s].state
        /\ slots[n][s].extendTo \in Nat
    BY <1>1, RowType DEF Extends, Row
  <2>2. CASE slots'[n][s].extendTo = slots[n][s].extendTo
    BY <2>1, <2>2 DEF RowMoves
  <2>3. CASE /\ target > leases[i].expires /\ slots'[n][s].extendTo = target
             /\ \E j \in DOMAIN leases[i].hops :
                   leases[i].hops[j].node = n /\ leases[i].hops[j].slot = s
    <3>1. slots[n][s].state = "leased" /\ slots[n][s].lease = i
      BY <1>1, <2>3 DEF Renewable, Intact, HopHeld
    <3>2. slots[n][s].extendTo <= leases[i].expires
      BY <3>1 DEF TablesInv, RowAgrees, InUse
    <3>3. leases[i].expires \in Nat
      BY LeasesFunction DEF Lease
    <3>4. QED
      BY <2>1, <2>3, <3>2, <3>3 DEF RowMoves
  <2>4. QED
    BY <1>1, <2>2, <2>3 DEF Extends
<1>3. UNCHANGED <<now, local, answer, late>>
  BY DEF Renew, agentVars
<1>4. QED
  BY <1>2, <1>3, SlotMoved

LEMMA SlotFinish ==
    ASSUME TypeOK, TypeOK', SlotInv, NEW t \in txns, FinishLease(t)
    PROVE  SlotInv'
<1>1. PICK N \in Nat, Picked \in SUBSET (Nodes \X Slots), new \in Lease :
        TakesSlots(t, N, Picked, new)
  BY Granted
<1>2. ASSUME NEW n \in Nodes, NEW s \in Slots
      PROVE  RowMoves(slots[n][s], slots'[n][s], now)
  <2>1. slots[n][s] \in Row /\ slots[n][s].extendTo \in Nat
    BY RowType DEF Row
  <2>2. CASE <<n, s>> \in Picked
    <3>1. /\ slots[n][s].state = "active" /\ slots[n][s].validUntil >= now + MinRemaining
          /\ slots'[n][s] = [slots[n][s] EXCEPT !.state = "leased", !.lease = N]
      BY <1>1, <2>2 DEF TakesSlots, Leasable
    <3>2. QED
      BY <2>1, <3>1 DEF RowMoves, Row
  <2>3. CASE <<n, s>> \notin Picked
    <3>1. slots'[n][s] = slots[n][s]
      BY <1>1, <2>3 DEF TakesSlots
    <3>2. QED
      BY <2>1, <3>1 DEF RowMoves
  <2>4. QED
    BY <2>2, <2>3
<1>3. UNCHANGED <<now, local, answer, late>>
  BY DEF FinishLease, agentVars
<1>4. QED
  BY <1>2, <1>3, SlotMoved

LEMMA SlotPurge ==
    ASSUME TypeOK, TypeOK', SlotInv, NEW d \in Devices, NEW urgent \in BOOLEAN,
           RevokeLeases(d, urgent)
    PROVE  SlotInv'
<1>1. ASSUME NEW n \in Nodes, NEW s \in Slots
      PROVE  RowMoves(slots[n][s], slots'[n][s], now)
  <2>1. slots[n][s] \in Row /\ slots[n][s].extendTo \in Nat
    BY RowType DEF Row
  <2>2. CASE slots[n][s].state = "leased" /\ slots[n][s].lease \in LiveLeases(d)
    <3>1. slots'[n][s] = [slots[n][s] EXCEPT !.state = "revoked", !.urgent = urgent]
      BY <2>2 DEF RevokeLeases
    <3>2. QED
      BY <2>1, <2>2, <3>1 DEF RowMoves, Row
  <2>3. CASE ~(slots[n][s].state = "leased" /\ slots[n][s].lease \in LiveLeases(d))
    <3>1. slots'[n][s] = slots[n][s]
      BY <2>3 DEF RevokeLeases
    <3>2. QED
      BY <2>1, <3>1 DEF RowMoves
  <2>4. QED
    BY <2>2, <2>3
<1>2. UNCHANGED <<now, local, answer, late>>
  BY DEF RevokeLeases, agentVars
<1>3. QED
  BY <1>1, <1>2, SlotMoved

\* What the agent reports of a slot that is in its pool, and what it remembers of that.
LEMMA ReportedSlot ==
    ASSUME TypeOK, HolderInv, NEW n \in Nodes, NEW s \in Slots
    PROVE  /\ Items(n)[s].generation = local[n][s].generation
           /\ Items(n)[s].validUntil = local[n][s].validUntil
           /\ Reported(n)[n][s].generation = local[n][s].generation
           /\ Reported(n)[n][s].validUntil = local[n][s].validUntil
           /\ Reported(n)[n][s].flag = IF local[n][s].flag = "unsent" THEN "sent"
                                       ELSE local[n][s].flag
           /\ \A m \in Nodes : m # n => Reported(n)[m] = local[m]
<1>1. s \in pool[n] /\ local[n][s] \in Local /\ local \in [Nodes -> [Slots -> Local]]
  BY DEF HolderInv, TypeOK
<1>2. Items(n)[s].generation = local[n][s].generation
      /\ Items(n)[s].validUntil = local[n][s].validUntil
  BY <1>1 DEF Items
<1>3. Reported(n)[n][s] = IF local[n][s].flag = "unsent"
                          THEN [local[n][s] EXCEPT !.flag = "sent"] ELSE local[n][s]
  BY <1>1 DEF Reported
<1>4. /\ Reported(n)[n][s].generation = local[n][s].generation
      /\ Reported(n)[n][s].validUntil = local[n][s].validUntil
      /\ Reported(n)[n][s].flag = IF local[n][s].flag = "unsent" THEN "sent"
                                  ELSE local[n][s].flag
  BY <1>1, <1>3 DEF Local
<1>5. \A m \in Nodes : m # n => Reported(n)[m] = local[m]
  BY <1>1 DEF Reported
<1>6. QED
  BY <1>2, <1>4, <1>5

LEMMA SlotTimeOut ==
    ASSUME TypeOK, TypeOK', HolderInv, SlotInv, NEW n \in Nodes, TimeOut(n)
    PROVE  SlotInv'
<1> SUFFICES ASSUME NEW m \in Nodes, NEW s \in Slots PROVE SlotFits(m, s)'
  BY DEF SlotInv
<1> DEFINE row == slots[m][s]
           loc == local[m][s]
           new == local'[m][s]
           rep == [node |-> n, items |-> Items(n)]
<1>1. /\ row \in Row /\ loc \in Local /\ now \in Nat
      /\ answer[m].asOf \in Nat /\ answer[m].view[s] \in RowView
      /\ \A r \in late : r.items[s] \in Item
      /\ new \in Local
  BY SlotTypes DEF TypeOK
<1>2. /\ RowFits(row, loc, now) /\ FlagFits(m, row, loc, now)
      /\ answer[m].open => AnswerFits(answer[m].asOf, answer[m].view[s], row, loc, now)
      /\ \A r \in late : r.node = m => ItemFits(r.items[s], row, loc, now)
  BY DEF SlotInv, SlotFits
<1>3. /\ late' = late \cup {rep} /\ local' = Reported(n)
      /\ now' = now /\ slots' = slots /\ answer' = answer
  BY DEF TimeOut, dbVars
<1>4. rep.node = n /\ rep.items = Items(n)
  OBVIOUS
<1> HIDE DEF rep
<1>5. CASE m = n
  <2>1. /\ new.generation = loc.generation /\ new.validUntil = loc.validUntil
        /\ new.flag = IF loc.flag = "unsent" THEN "sent" ELSE loc.flag
    BY <1>3, <1>5, ReportedSlot
  <2>2. /\ Items(n)[s] \in Item
        /\ Items(n)[s].generation = loc.generation /\ Items(n)[s].validUntil = loc.validUntil
    BY <1>5, ReportedSlot, ItemsType
  <2> HIDE DEF row, loc, new
  <2>3. /\ RowFits(row, new, now) /\ FlagFits(m, row, new, now)
        /\ ItemFits(Items(n)[s], row, new, now)
        /\ \A r \in late : r.node = m => ItemFits(r.items[s], row, new, now)
        /\ answer[m].open => AnswerFits(answer[m].asOf, answer[m].view[s], row, new, now)
    BY <1>1, <1>2, <2>1, <2>2, ReportedFits
  <2>4. QED
    BY <1>3, <1>4, <2>3 DEF SlotFits, row, new
<1>6. CASE m # n
  <2>1. new = loc
    BY <1>3, <1>6, ReportedSlot
  <2>2. QED
    BY <1>2, <1>3, <1>4, <1>6, <2>1 DEF SlotFits
<1>7. QED
  BY <1>5, <1>6

\* A report arrives at its node's rows, whatever the agent has done since.
LEMMA SlotLateSync ==
    ASSUME TypeOK, TypeOK', HolderInv, SlotInv,
           NEW rep \in late, NEW secrets \in BOOLEAN, LateSync(rep, secrets)
    PROVE  SlotInv'
<1> SUFFICES ASSUME NEW m \in Nodes, NEW s \in Slots PROVE SlotFits(m, s)'
  BY DEF SlotInv
<1> DEFINE row == slots[m][s]
           loc == local[m][s]
           new == slots'[m][s]
           item == rep.items[s]
<1>1. /\ row \in Row /\ loc \in Local /\ now \in Nat
      /\ answer[m].asOf \in Nat /\ answer[m].view[s] \in RowView
      /\ \A r \in late : r.items[s] \in Item
  BY SlotTypes
<1>2. /\ RowFits(row, loc, now) /\ FlagFits(m, row, loc, now)
      /\ answer[m].open => AnswerFits(answer[m].asOf, answer[m].view[s], row, loc, now)
      /\ \A r \in late : r.node = m => ItemFits(r.items[s], row, loc, now)
  BY DEF SlotInv, SlotFits
<1>3. /\ late' \subseteq late /\ local' = local /\ now' = now /\ answer' = answer
      /\ slots' = SyncedSlots(rep.node, rep.items, secrets)
      /\ rep.node \in Nodes /\ rep.items \in [Slots -> Item]
  BY DEF LateSync, TypeOK, Report
<1>4. CASE m = rep.node
  <2>1. new = SyncedRow(row, item, secrets)
    BY <1>3, <1>4, SyncedSlotsType
  <2>2. item \in Item /\ item.generation > 0 /\ ItemFits(item, row, loc, now)
    BY <1>1, <1>2, <1>4 DEF HolderInv
  <2> HIDE DEF row, loc, new, item
  <2>3. RowFits(new, loc, now) /\ FlagFits(m, new, loc, now)
    BY <1>1, <1>2, <2>1, <2>2, SyncedFits
  <2>4. \A r \in late : r.node = m => ItemFits(r.items[s], new, loc, now)
    BY <1>1, <1>2, <2>1, <2>2, SyncedItem
  <2>5. answer[m].open => AnswerFits(answer[m].asOf, answer[m].view[s], new, loc, now)
    BY <1>1, <1>2, <2>1, <2>2, SyncedAnswer
  <2>6. QED
    BY <1>3, <2>3, <2>4, <2>5 DEF SlotFits, new, loc
<1>5. CASE m # rep.node
  <2>1. new = row
    BY <1>3, <1>5, SyncedSlotsType
  <2>2. QED
    BY <1>2, <1>3, <2>1 DEF SlotFits
<1>6. QED
  BY <1>4, <1>5
\* The agent's own report arrives at once, and the answer shows what it made of the rows.
LEMMA SlotSync ==
    ASSUME TypeOK, TypeOK', HolderInv, SlotInv, NEW n \in Nodes, NEW secrets \in BOOLEAN,
           Sync(n, secrets)
    PROVE  SlotInv'
<1> SUFFICES ASSUME NEW m \in Nodes, NEW s \in Slots PROVE SlotFits(m, s)'
  BY DEF SlotInv
<1> DEFINE row == slots[m][s]
           loc == local[m][s]
           new == slots'[m][s]
           then == local'[m][s]
           item == Items(n)[s]
<1>1. /\ row \in Row /\ loc \in Local /\ now \in Nat /\ new \in Row /\ then \in Local
      /\ \A r \in late : r.items[s] \in Item
      /\ answer'[m].view[s] \in RowView
  BY SlotTypes DEF TypeOK, Answer
<1>2. /\ RowFits(row, loc, now) /\ FlagFits(m, row, loc, now)
      /\ answer[m].open => AnswerFits(answer[m].asOf, answer[m].view[s], row, loc, now)
      /\ \A r \in late : r.node = m => ItemFits(r.items[s], row, loc, now)
  BY DEF SlotInv, SlotFits
<1>3. /\ late' = late /\ local' = Reported(n) /\ now' = now
      /\ slots' = SyncedSlots(n, Items(n), secrets) /\ Items(n) \in [Slots -> Item]
  BY ItemsType DEF Sync
<1>4. CASE m = n
  <2>1. new = SyncedRow(row, item, secrets)
    BY <1>3, <1>4, SyncedSlotsType
  <2>2. /\ then.generation = loc.generation /\ then.validUntil = loc.validUntil
        /\ then.flag = IF loc.flag = "unsent" THEN "sent" ELSE loc.flag
        /\ item \in Item /\ item.generation > 0
        /\ item.generation = loc.generation /\ item.validUntil = loc.validUntil
    BY <1>3, <1>4, ReportedSlot, FullItems
  <2>3. answer'[m].asOf = now
        /\ answer'[m].view[s] = [generation |-> new.generation, state |-> new.state,
                                 extendTo |-> new.extendTo, urgent |-> new.urgent]
    BY <1>4 DEF Sync, TypeOK
  <2>4. /\ answer'[m].view[s].generation = new.generation
        /\ answer'[m].view[s].state = new.state /\ answer'[m].view[s].extendTo = new.extendTo
    BY <2>3
  <2> HIDE DEF row, loc, new, then, item
  <2>5. /\ RowFits(row, then, now) /\ FlagFits(m, row, then, now)
        /\ ItemFits(item, row, then, now)
        /\ \A r \in late : r.node = m => ItemFits(r.items[s], row, then, now)
    BY <1>1, <1>2, <2>2, ReportedFits
  <2>6. RowFits(new, then, now) /\ FlagFits(m, new, then, now)
    BY <1>1, <2>1, <2>2, <2>5, SyncedFits
  <2>7. \A r \in late : r.node = m => ItemFits(r.items[s], new, then, now)
    BY <1>1, <2>1, <2>2, <2>5, SyncedItem
  <2>8. AnswerFits(now, answer'[m].view[s], new, then, now)
    BY <1>1, <2>4, <2>6, ViewFits
  <2>9. QED
    BY <1>3, <2>3, <2>6, <2>7, <2>8 DEF SlotFits, new, then
<1>5. CASE m # n
  <2>1. new = row
    BY <1>3, <1>5, SyncedSlotsType
  <2>2. then = loc
    BY <1>3, <1>5, ReportedSlot
  <2>3. answer'[m] = answer[m]
    BY <1>5 DEF Sync, TypeOK
  <2>4. QED
    BY <1>2, <1>3, <2>1, <2>2, <2>3 DEF SlotFits
<1>6. QED
  BY <1>4, <1>5

\* What ReadAnswer makes of one slot.
LEMMA ReadSlot ==
    ASSUME TypeOK, TypeOK', HolderInv, NEW n \in Nodes, ReadAnswer(n), NEW s \in Slots,
           answer[n].view[s].generation = local[n][s].generation
    PROVE  LET v == answer[n].view[s]
               loc == local[n][s]
               new == local'[n][s]
           IN /\ new.generation = loc.generation
              /\ new.validUntil = Adopted(n, loc, v)
              /\ new.flag = Verdict(loc, v, answer[n].asOf)
<1> DEFINE v == Adopted(n, local[n][s], answer[n].view[s])
           f == Verdict(local[n][s], answer[n].view[s], answer[n].asOf)
<1>1. s \in pool[n] /\ local[n][s] \in Local /\ local \in [Nodes -> [Slots -> Local]]
  BY DEF HolderInv, TypeOK
<1>2. local'[n][s] = [local[n][s] EXCEPT !.validUntil = v, !.flag = f]
  BY <1>1 DEF ReadAnswer
<1> HIDE DEF v, f
<1>3. QED
  BY <1>1, <1>2 DEF Local, v, f

LEMMA SlotRead ==
    ASSUME TypeOK, TypeOK', HolderInv, SlotInv, NEW n \in Nodes, ReadAnswer(n)
    PROVE  SlotInv'
<1> SUFFICES ASSUME NEW m \in Nodes, NEW s \in Slots PROVE SlotFits(m, s)'
  BY DEF SlotInv
<1> DEFINE row == slots[m][s]
           loc == local[m][s]
           new == local'[m][s]
           v == answer[m].view[s]
<1>1. /\ row \in Row /\ loc \in Local /\ now \in Nat /\ new \in Local
      /\ answer[m].asOf \in Nat /\ v \in RowView
      /\ \A r \in late : r.items[s] \in Item
  BY SlotTypes DEF TypeOK
<1>2. /\ RowFits(row, loc, now) /\ FlagFits(m, row, loc, now)
      /\ answer[m].open => AnswerFits(answer[m].asOf, v, row, loc, now)
      /\ \A r \in late : r.node = m => ItemFits(r.items[s], row, loc, now)
  BY DEF SlotInv, SlotFits
<1>3. /\ answer[n].open /\ late' = late /\ now' = now /\ slots' = slots
      /\ answer' = [answer EXCEPT ![n] = NoAnswer] /\ local \in [Nodes -> [Slots -> Local]]
  BY DEF ReadAnswer, dbVars, TypeOK
<1>4. answer' = [answer EXCEPT ![n] = NoAnswer] /\ ~NoAnswer.open /\ answer \in [Nodes -> Answer]
  BY <1>3 DEF NoAnswer, TypeOK
<1>5. CASE m = n /\ v.generation = loc.generation
  <2>1. /\ new.generation = loc.generation /\ new.validUntil = Adopted(m, loc, v)
        /\ new.flag = Verdict(loc, v, answer[m].asOf)
    BY <1>5, ReadSlot
  <2>2. \/ new.validUntil = loc.validUntil
        \/ v.state = "leased" /\ new.validUntil <= now + Life[m]
    BY <1>1, <2>1, AdoptedBound
  <2>3. AnswerFits(answer[m].asOf, v, row, loc, now)
    BY <1>2, <1>3, <1>5
  <2> HIDE DEF row, loc, new, v
  <2>4. /\ RowFits(row, new, now) /\ FlagFits(m, row, new, now)
        /\ \A item \in Item : ItemFits(item, row, loc, now) => ItemFits(item, row, new, now)
    BY <1>1, <1>2, <1>5, <2>1, <2>2, <2>3, ReadFits
  <2>5. ~answer'[m].open
    BY <1>4, <1>5
  <2>6. QED
    BY <1>1, <1>2, <1>3, <2>4, <2>5 DEF SlotFits, row, new
<1>6. CASE ~(m = n /\ v.generation = loc.generation)
  <2>1. new = loc
    BY <1>3, <1>6 DEF ReadAnswer
  <2>2. answer'[m] = answer[m] \/ ~answer'[m].open
    BY <1>4
  <2>3. QED
    BY <1>2, <1>3, <2>1, <2>2 DEF SlotFits
<1>7. QED
  BY <1>5, <1>6

LEMMA SlotSweep ==
    ASSUME TypeOK, TypeOK', SlotInv, NEW n \in Nodes, Sweep(n)
    PROVE  SlotInv'
<1> SUFFICES ASSUME NEW m \in Nodes, NEW s \in Slots PROVE SlotFits(m, s)'
  BY DEF SlotInv
<1> DEFINE row == slots[m][s]
           loc == local[m][s]
           new == local'[m][s]
<1>1. /\ row \in Row /\ loc \in Local /\ now \in Nat /\ new \in Local
      /\ \A r \in late : r.items[s] \in Item
  BY SlotTypes DEF TypeOK
<1>2. /\ RowFits(row, loc, now) /\ FlagFits(m, row, loc, now)
      /\ answer[m].open => AnswerFits(answer[m].asOf, answer[m].view[s], row, loc, now)
      /\ \A r \in late : r.node = m => ItemFits(r.items[s], row, loc, now)
  BY DEF SlotInv, SlotFits
<1>3. /\ ~answer[n].open /\ late' = late /\ now' = now /\ slots' = slots /\ answer' = answer
      /\ local \in [Nodes -> [Slots -> Local]]
  BY DEF Sweep, dbVars, TypeOK
<1>4. CASE m = n /\ s \in Immediate(n) \cup Deferred(n)
  <2>1. new = [generation |-> loc.generation + 1, validUntil |-> MintedUntil(n, now),
               flag |-> "unsent"]
    BY <1>3, <1>4 DEF Sweep
  <2>2. new.generation = loc.generation + 1 /\ new.flag = "unsent"
        /\ new.validUntil <= now + Life[m]
    BY <1>1, <1>4, <2>1, MintedBound
  <2>3. \/ loc.validUntil <= now
        \/ loc.flag \in {"urgent", "revoked", "unleased"}
        \/ loc.flag = "unsent" /\ loc.validUntil < now + MinRemaining
    BY <1>4 DEF Immediate, Deferred, Expired
  <2> HIDE DEF row, loc, new
  <2>4. /\ RowFits(row, new, now) /\ FlagFits(m, row, new, now)
        /\ \A item \in Item : ItemFits(item, row, loc, now) => ItemFits(item, row, new, now)
    BY <1>1, <1>2, <2>2, <2>3, MintFits
  <2>5. QED
    BY <1>1, <1>2, <1>3, <1>4, <2>4 DEF SlotFits, row, new
<1>5. CASE ~(m = n /\ s \in Immediate(n) \cup Deferred(n))
  <2>1. new = loc
    BY <1>3, <1>5 DEF Sweep
  <2>2. QED
    BY <1>2, <1>3, <2>1 DEF SlotFits
<1>6. QED
  BY <1>4, <1>5

LEMMA SlotTick ==
    ASSUME TypeOK, SlotInv, Tick
    PROVE  SlotInv'
<1> SUFFICES ASSUME NEW n \in Nodes, NEW s \in Slots PROVE SlotFits(n, s)'
  BY DEF SlotInv
<1>1. /\ slots[n][s] \in Row /\ local[n][s] \in Local /\ now \in Nat
      /\ answer[n].asOf \in Nat /\ answer[n].view[s] \in RowView
      /\ \A r \in late : r.items[s] \in Item
  BY SlotTypes
<1>2. SlotFits(n, s)
  BY DEF SlotInv
<1>3. now' = now + 1 /\ UNCHANGED <<slots, local, answer, late>>
  BY DEF Tick, dbVars, agentVars
<1>4. QED
  BY <1>1, <1>2, <1>3, LaterFits DEF SlotFits

LEMMA SlotNext ==
    ASSUME MaxResizes = 0
    PROVE  TypeOK /\ TypeOK' /\ HolderInv /\ TablesInv /\ SlotInv /\ [Next]_vars => SlotInv'
<1> SUFFICES ASSUME TypeOK, TypeOK', HolderInv, TablesInv, SlotInv, [Next]_vars PROVE SlotInv'
  OBVIOUS
<1>1. ASSUME NEW d \in Devices, NEW r \in Routes, NEW k \in Keys \cup {NoKey}, Renew(d, r, k)
      PROVE  SlotInv'
  BY <1>1, SlotRenew
<1>2. ASSUME NEW t \in txns, FinishLease(t)
      PROVE  SlotInv'
  BY <1>2, SlotFinish
<1>3. ASSUME NEW d \in Devices, NEW urgent \in BOOLEAN, RevokeLeases(d, urgent)
      PROVE  SlotInv'
  BY <1>3, SlotPurge
<1>4. ASSUME NEW n \in Nodes, NEW secrets \in BOOLEAN, Sync(n, secrets)
      PROVE  SlotInv'
  BY <1>4, SlotSync
<1>5. ASSUME NEW n \in Nodes, TimeOut(n) \/ ReadAnswer(n) \/ Sweep(n)
      PROVE  SlotInv'
  BY <1>5, SlotTimeOut, SlotRead, SlotSweep
<1>6. ASSUME NEW rep \in late, NEW secrets \in BOOLEAN, LateSync(rep, secrets)
      PROVE  SlotInv'
  BY <1>6, SlotLateSync
<1>7. ASSUME NEW n \in Nodes, LoseAnswer(n)
      PROVE  SlotInv'
  <2>1. /\ answer' = [answer EXCEPT ![n] = NoAnswer] /\ ~NoAnswer.open
        /\ answer \in [Nodes -> Answer]
    BY <1>7 DEF LoseAnswer, NoAnswer, TypeOK
  <2>2. \A m \in Nodes : answer'[m] = answer[m] \/ ~answer'[m].open
    BY <2>1
  <2>3. UNCHANGED <<now, slots, local, late>>
    BY <1>7 DEF LoseAnswer, dbVars
  <2>4. QED
    BY <2>2, <2>3 DEF SlotInv, SlotFits
\* The pool has the size it began with.
<1>8. ASSUME NEW n \in Nodes, NEW P \in SUBSET Slots, Resize(n, P)
      PROVE  FALSE
  BY <1>8 DEF Resize, TypeOK
<1>9. CASE Tick
  BY <1>9, SlotTick
<1>10. CASE UNCHANGED <<now, slots, local, answer, late>>
  BY <1>10 DEF SlotInv, SlotFits
<1>11. ASSUME \/ \E d \in Devices, r \in Routes, k \in Keys \cup {NoKey} : StartLease(d, r, k)
              \/ \E t \in txns : Exhausted(t)
              \/ \E d \in Devices : RevokeDevice(d)
              \/ UNCHANGED vars
       PROVE  UNCHANGED <<now, slots, local, answer, late>>
  BY <1>11 DEF StartLease, Exhausted, RevokeDevice, vars, dbVars, agentVars
<1>12. QED
  BY <1>1, <1>2, <1>3, <1>4, <1>5, <1>6, <1>7, <1>8, <1>9, <1>10, <1>11 DEF Next, Authorize

\* The invariant that the theorems below rest on.
PoolInv == TypeOK /\ HolderInv /\ TablesInv /\ SlotInv

LEMMA PoolInvCorrect == ASSUME MaxResizes = 0 PROVE Spec => []PoolInv
<1>1. Init => PoolInv
  BY TypeInit, HolderInit, TablesInit, SlotInit DEF PoolInv
<1>2. PoolInv /\ [Next]_vars => PoolInv'
  BY TypeNext, HolderNext, TablesNext, SlotNext DEF PoolInv
<1>3. QED
  BY <1>1, <1>2, PTL DEF Spec

\* What authorize may hand out is served by its node, for any number of late, lost or repeated
\* sync requests: the row of a slot that the node has rotated has too little time left.
THEOREM LeasableIsLiveCorrect == ASSUME MaxResizes = 0 PROVE Spec => []LeasableIsLive
<1>1. ASSUME PoolInv, NEW n \in Nodes, NEW s \in Slots, Leasable(n, s)
      PROVE  Accepts([node |-> n, slot |-> s, generation |-> slots[n][s].generation])
  <2> DEFINE h == [node |-> n, slot |-> s, generation |-> slots[n][s].generation]
  <2>1. /\ slots[n][s].generation \in Nat /\ local[n][s].generation \in Nat
        /\ slots[n][s].validUntil \in Nat /\ now \in Nat
    BY <1>1, SlotTypes DEF PoolInv, Row, Local
  <2>2. RowFits(slots[n][s], local[n][s], now)
    BY <1>1 DEF PoolInv, SlotInv, SlotFits
  <2>3. slots[n][s].generation = local[n][s].generation
    BY <1>1, <2>1, <2>2, RemainingType DEF RowFits, Leasable
  <2>4. h.node = n /\ h.slot = s /\ h.generation = local[n][s].generation /\ s \in pool[n]
    BY <1>1, <2>3 DEF PoolInv, HolderInv
  <2>5. QED
    BY <2>4 DEF Accepts
<1>2. PoolInv => LeasableIsLive
  BY <1>1 DEF LeasableIsLive
<1>3. QED
  BY <1>2, PoolInvCorrect, PTL

\* The generation a lease names is still the row's if the node serves it.
LEMMA ServedHop ==
    ASSUME PoolInv, NEW i \in DOMAIN leases, NEW a \in DOMAIN leases[i].hops,
           NEW n \in Nodes, NEW s \in Slots,
           leases[i].hops[a].node = n, leases[i].hops[a].slot = s
    PROVE  /\ leases[i].hops[a].generation <= local[n][s].generation
           /\ leases[i].hops[a].generation = local[n][s].generation =>
                 Taken(slots[n][s], local[n][s]) /\ slots[n][s].lease = i
<1>1. /\ slots[n][s].generation \in Nat /\ local[n][s].generation \in Nat
  BY SlotTypes DEF PoolInv, Row, Local
<1>2. leases[i].hops[a].generation \in Nat
  BY HopType DEF Credential, PoolInv
<1>3. Spent(i, leases[i].hops[a]) /\ RowFits(slots[n][s], local[n][s], now)
  BY DEF PoolInv, HolderInv, SlotInv, SlotFits
<1>4. QED
  BY <1>1, <1>2, <1>3 DEF Spent, RowFits, Taken, InUse

\* What a sweep rotates has ended, or is not under a lease that holds.
LEMMA SweptIsOver ==
    ASSUME PoolInv, NEW n \in Nodes, NEW s \in Immediate(n) \cup Deferred(n),
           NEW i \in DOMAIN leases, ~leases[i].revoked,
           [node |-> n, slot |-> s, generation |-> local[n][s].generation]
              \in {leases[i].hops[j] : j \in DOMAIN leases[i].hops}
    PROVE  local[n][s].validUntil <= now
<1>1. n \in Nodes /\ s \in Slots
  BY DEF Immediate, Deferred, PoolInv, TypeOK
<1>2. PICK a \in DOMAIN leases[i].hops :
        leases[i].hops[a] = [node |-> n, slot |-> s, generation |-> local[n][s].generation]
  OBVIOUS
<1>3. /\ leases[i].hops[a].node = n /\ leases[i].hops[a].slot = s
      /\ leases[i].hops[a].generation = local[n][s].generation
  BY <1>2
<1>4. Taken(slots[n][s], local[n][s]) /\ slots[n][s].lease = i
  BY <1>1, <1>3, ServedHop
<1>5. slots[n][s].state # "revoked"
  BY <1>1, <1>4 DEF PoolInv, TablesInv, RowAgrees, Taken
<1>6. FlagFits(n, slots[n][s], local[n][s], now)
  BY <1>1 DEF PoolInv, SlotInv, SlotFits
<1>7. local[n][s].flag \notin {"urgent", "revoked", "unleased"}
  BY <1>4, <1>5, <1>6 DEF FlagFits
<1>8. local[n][s].flag # "unsent"
  <2>1. slots[n][s].generation \in Nat /\ slots[n][s].generation = local[n][s].generation
    BY <1>1, <1>4, SlotTypes DEF PoolInv, Row, Taken
  <2>2. QED
    BY <1>6, <2>1 DEF FlagFits
<1>9. QED
  BY <1>7, <1>8 DEF Immediate, Deferred, Expired

\* The steps that are not an agent's leave the agents' tables alone.
LEMMA OtherStepsKeepLocal ==
    ASSUME \/ \E d \in Devices, r \in Routes, k \in Keys \cup {NoKey} : Authorize(d, r, k)
           \/ \E t \in txns : FinishLease(t) \/ Exhausted(t)
           \/ \E d \in Devices : RevokeDevice(d)
           \/ \E d \in Devices, urgent \in BOOLEAN : RevokeLeases(d, urgent)
           \/ \E n \in Nodes : LoseAnswer(n)
           \/ \E rep \in late, secrets \in BOOLEAN : LateSync(rep, secrets)
           \/ Tick \/ UNCHANGED vars
    PROVE  local' = local
<1>1. ASSUME NEW d \in Devices, NEW r \in Routes, NEW k \in Keys \cup {NoKey},
             Authorize(d, r, k)
      PROVE  local' = local
  BY <1>1 DEF Authorize, Renew, StartLease, agentVars
<1>2. ASSUME NEW t \in txns, FinishLease(t) \/ Exhausted(t)
      PROVE  local' = local
  BY <1>2 DEF FinishLease, Exhausted, agentVars
<1>3. ASSUME NEW d \in Devices, NEW urgent \in BOOLEAN, RevokeDevice(d) \/ RevokeLeases(d, urgent)
      PROVE  local' = local
  BY <1>3 DEF RevokeDevice, RevokeLeases, agentVars
<1>4. ASSUME NEW n \in Nodes, LoseAnswer(n)
      PROVE  local' = local
  BY <1>4 DEF LoseAnswer
<1>5. ASSUME NEW rep \in late, NEW secrets \in BOOLEAN, LateSync(rep, secrets)
      PROVE  local' = local
  BY <1>5 DEF LateSync
<1>6. Tick \/ UNCHANGED vars => local' = local
  BY DEF Tick, vars, agentVars
<1>7. QED
  BY <1>1, <1>2, <1>3, <1>4, <1>5, <1>6

\* No credential is rotated under a lease that holds, before the end the node was told for it:
\* "never leased" is concluded from an answer only when no lease can have come since.
THEOREM NoEarlyRotationCorrect == ASSUME MaxResizes = 0 PROVE Spec => NoEarlyRotation
<1> DEFINE Kept == \A n \in Nodes : \A s \in pool[n] :
                      local'[n][s].generation # local[n][s].generation =>
                         \A i \in DOMAIN leases :
                            ([node |-> n, slot |-> s, generation |-> local[n][s].generation]
                                \in {leases[i].hops[j] : j \in DOMAIN leases[i].hops}
                             /\ ~leases[i].revoked) => local[n][s].validUntil <= now
<1>1. ASSUME PoolInv, NEW n \in Nodes, Sweep(n)
      PROVE  Kept
  <2> SUFFICES ASSUME NEW m \in Nodes, NEW s \in pool[m],
                      local'[m][s].generation # local[m][s].generation,
                      NEW i \in DOMAIN leases, ~leases[i].revoked,
                      [node |-> m, slot |-> s, generation |-> local[m][s].generation]
                         \in {leases[i].hops[j] : j \in DOMAIN leases[i].hops}
               PROVE  local[m][s].validUntil <= now
    OBVIOUS
  <2>1. m = n /\ s \in Immediate(n) \cup Deferred(n)
    BY <1>1 DEF Sweep, PoolInv, TypeOK
  <2>2. QED
    BY <1>1, <2>1, SweptIsOver
<1>2. ASSUME \A n \in Nodes, s \in Slots : local'[n][s].generation = local[n][s].generation,
             TypeOK
      PROVE  Kept
  BY <1>2 DEF TypeOK
<1>3. ASSUME PoolInv, NEW n \in Nodes, NEW secrets \in BOOLEAN, Sync(n, secrets) \/ TimeOut(n)
      PROVE  \A m \in Nodes, s \in Slots : local'[m][s].generation = local[m][s].generation
  BY <1>3, ReportedSlot DEF Sync, TimeOut, PoolInv
<1>4. ASSUME PoolInv, PoolInv', NEW n \in Nodes, ReadAnswer(n)
      PROVE  \A m \in Nodes, s \in Slots : local'[m][s].generation = local[m][s].generation
  <2>1. ASSUME NEW m \in Nodes, NEW s \in Slots
        PROVE  local'[m][s].generation = local[m][s].generation
    <3>1. CASE m = n /\ answer[n].view[s].generation = local[n][s].generation
      BY <1>4, <3>1, ReadSlot DEF PoolInv
    <3>2. CASE ~(m = n /\ answer[n].view[s].generation = local[n][s].generation)
      BY <1>4, <3>2 DEF ReadAnswer, PoolInv, TypeOK
    <3>3. QED
      BY <3>1, <3>2
  <2>2. QED
    BY <2>1
<1>5. ASSUME PoolInv, NEW n \in Nodes, NEW P \in SUBSET Slots, Resize(n, P)
      PROVE  FALSE
  BY <1>5 DEF Resize, PoolInv, TypeOK
<1> HIDE DEF Kept
<1>6. PoolInv /\ PoolInv' /\ [Next]_vars => (Kept \/ local' = local)
  BY <1>1, <1>2, <1>3, <1>4, <1>5, OtherStepsKeepLocal DEF Next, PoolInv
<1>7. PoolInv /\ PoolInv' /\ [Next]_vars => [Kept]_local
  BY <1>6
<1>8. Spec => [][Kept]_local
  BY <1>7, PoolInvCorrect, PTL DEF Spec
<1>9. QED
  BY <1>8 DEF NoEarlyRotation, Kept

-----------------------------------------------------------------------------
(* What a step may do to an agent's entry                                    *)

\* It stays, or a new generation takes its place, or its end is moved to one that its row offers.
EntryMoves(n, s) ==
    \/ /\ local'[n][s].generation = local[n][s].generation
       /\ local'[n][s].validUntil = local[n][s].validUntil
    \/ local'[n][s].generation > local[n][s].generation
    \/ /\ local'[n][s].generation = local[n][s].generation
       /\ local'[n][s].validUntil <= slots[n][s].extendTo

LEMMA EntryRead ==
    ASSUME PoolInv, TypeOK', NEW n \in Nodes, ReadAnswer(n), NEW m \in Nodes, NEW s \in Slots
    PROVE  EntryMoves(m, s)
<1>1. CASE m = n /\ answer[n].view[s].generation = local[n][s].generation
  <2>1. /\ slots[n][s].extendTo \in Nat /\ answer[n].view[s] \in RowView
        /\ answer[n].view[s].extendTo \in Nat /\ local[n][s] \in Local
    BY SlotTypes DEF PoolInv, Row, RowView
  <2>2. local'[n][s].generation = local[n][s].generation
        /\ local'[n][s].validUntil = Adopted(n, local[n][s], answer[n].view[s])
    BY <1>1, ReadSlot DEF PoolInv
  <2>3. \/ local'[n][s].validUntil = local[n][s].validUntil
        \/ local'[n][s].validUntil <= answer[n].view[s].extendTo
    BY <2>1, <2>2, AdoptedBound DEF PoolInv
  <2>4. answer[n].view[s].extendTo <= slots[n][s].extendTo
    BY <1>1 DEF ReadAnswer, PoolInv, SlotInv, SlotFits, AnswerFits
  <2>5. local'[n][s].validUntil \in Nat
    BY DEF TypeOK, Local
  <2>6. QED
    BY <1>1, <2>1, <2>2, <2>3, <2>4, <2>5 DEF EntryMoves
<1>2. CASE ~(m = n /\ answer[n].view[s].generation = local[n][s].generation)
  BY <1>2 DEF ReadAnswer, PoolInv, TypeOK, EntryMoves
<1>3. QED
  BY <1>1, <1>2

LEMMA EntryNext ==
    ASSUME MaxResizes = 0, PoolInv, TypeOK', [Next]_vars, NEW n \in Nodes, NEW s \in Slots
    PROVE  EntryMoves(n, s)
<1>1. ASSUME NEW m \in Nodes, NEW secrets \in BOOLEAN, Sync(m, secrets) \/ TimeOut(m)
      PROVE  EntryMoves(n, s)
  BY <1>1, ReportedSlot DEF Sync, TimeOut, PoolInv, EntryMoves
<1>2. ASSUME NEW m \in Nodes, ReadAnswer(m)
      PROVE  EntryMoves(n, s)
  BY <1>2, EntryRead
<1>3. ASSUME NEW m \in Nodes, Sweep(m)
      PROVE  EntryMoves(n, s)
  <2>1. local[n][s].generation \in Nat /\ local \in [Nodes -> [Slots -> Local]]
    BY SlotTypes DEF PoolInv, TypeOK, Local
  <2>2. QED
    BY <1>3, <2>1 DEF Sweep, EntryMoves
<1>4. ASSUME NEW m \in Nodes, NEW P \in SUBSET Slots, Resize(m, P)
      PROVE  FALSE
  BY <1>4 DEF Resize, PoolInv, TypeOK
<1>5. CASE local' = local
  BY <1>5 DEF EntryMoves
<1>6. QED
  BY <1>1, <1>2, <1>3, <1>4, <1>5, OtherStepsKeepLocal DEF Next

-----------------------------------------------------------------------------
(* The end of a route                                                        *)

\* The node of hop a enforces no later end than the lease has.
Bounded(i, a) ==
    LET h == leases[i].hops[a]
    IN local[h.node][h.slot].generation = h.generation
          => local[h.node][h.slot].validUntil <= leases[i].expires

EndInv == \A i \in DOMAIN leases : \E a \in DOMAIN leases[i].hops : Bounded(i, a)

LEMMA BoundedKept ==
    ASSUME MaxResizes = 0, PoolInv, TypeOK', [Next]_vars,
           NEW i \in DOMAIN leases, NEW a \in DOMAIN leases[i].hops, Bounded(i, a),
           leases'[i].hops = leases[i].hops, leases'[i].expires >= leases[i].expires,
           leases'[i].expires \in Nat
    PROVE  Bounded(i, a)'
<1>1. PICK h \in Credential : h = leases[i].hops[a]
  BY HopType DEF PoolInv
<1>2. PICK n \in Nodes, s \in Slots : h.node = n /\ h.slot = s
  BY DEF Credential
<1>3. EntryMoves(n, s)
  BY EntryNext
<1>4. /\ local[n][s].generation \in Nat /\ local'[n][s].generation \in Nat
      /\ local[n][s].validUntil \in Nat /\ local'[n][s].validUntil \in Nat
      /\ slots[n][s].extendTo \in Nat /\ leases[i].expires \in Nat /\ h.generation \in Nat
  <2>1. /\ slots[n][s] \in Row /\ local[n][s] \in Local /\ local'[n][s] \in Local
        /\ leases[i] \in Lease
    BY SlotTypes, LeasesFunction DEF PoolInv, TypeOK
  <2>2. QED
    BY <2>1 DEF Row, Local, Lease, Credential
<1>5. /\ h.generation <= local[n][s].generation
      /\ h.generation = local[n][s].generation =>
            InUse(slots[n][s]) /\ slots[n][s].lease = i
  BY <1>1, <1>2, ServedHop DEF Taken
<1>6. h.generation = local[n][s].generation => slots[n][s].extendTo <= leases[i].expires
  BY <1>5 DEF PoolInv, TablesInv, RowAgrees
<1>7. local[n][s].generation = h.generation => local[n][s].validUntil <= leases[i].expires
  BY <1>1, <1>2 DEF Bounded
<1>8. local'[n][s].generation = h.generation => local'[n][s].validUntil <= leases'[i].expires
  BY <1>3, <1>4, <1>5, <1>6, <1>7 DEF EntryMoves
<1>9. leases'[i].hops[a] = h
  BY <1>1
<1>10. QED
  BY <1>2, <1>8, <1>9 DEF Bounded

\* The steps that are not a call of a device or a revocation leave the leases alone.
LEMMA OtherStepsKeepLeases ==
    ASSUME \/ \E t \in txns : Exhausted(t)
           \/ \E d \in Devices : RevokeDevice(d)
           \/ \E n \in Nodes, secrets \in BOOLEAN : Sync(n, secrets)
           \/ \E n \in Nodes : TimeOut(n) \/ LoseAnswer(n) \/ ReadAnswer(n) \/ Sweep(n)
           \/ \E rep \in late, secrets \in BOOLEAN : LateSync(rep, secrets)
           \/ \E n \in Nodes, P \in SUBSET Slots : Resize(n, P)
           \/ Tick \/ UNCHANGED vars
    PROVE  leases' = leases
<1>1. ASSUME NEW n \in Nodes, NEW secrets \in BOOLEAN, Sync(n, secrets)
      PROVE  leases' = leases
  BY <1>1 DEF Sync
<1>2. ASSUME NEW n \in Nodes, TimeOut(n) \/ LoseAnswer(n) \/ ReadAnswer(n) \/ Sweep(n)
      PROVE  leases' = leases
  BY <1>2 DEF TimeOut, LoseAnswer, ReadAnswer, Sweep, dbVars
<1>3. ASSUME NEW rep \in late, NEW secrets \in BOOLEAN, LateSync(rep, secrets)
      PROVE  leases' = leases
  BY <1>3 DEF LateSync
<1>4. ASSUME NEW n \in Nodes, NEW P \in SUBSET Slots, Resize(n, P)
      PROVE  leases' = leases
  BY <1>4 DEF Resize, dbVars
<1>5. ASSUME NEW t \in txns, Exhausted(t)
      PROVE  leases' = leases
  BY <1>5 DEF Exhausted
<1>6. ASSUME NEW d \in Devices, RevokeDevice(d)
      PROVE  leases' = leases
  BY <1>6 DEF RevokeDevice
<1>7. Tick \/ UNCHANGED vars => leases' = leases
  BY DEF Tick, vars, dbVars
<1>8. QED
  BY <1>1, <1>2, <1>3, <1>4, <1>5, <1>6, <1>7

\* A lease keeps its holder and its hops, and ends no earlier; only FinishLease adds one.
LEMMA OldLeases ==
    ASSUME TypeOK, [Next]_vars
    PROVE  /\ \A i \in DOMAIN leases :
                 /\ i \in DOMAIN leases'
                 /\ leases'[i].device = leases[i].device /\ leases'[i].hops = leases[i].hops
                 /\ leases'[i].expires \in Nat /\ leases'[i].expires >= leases[i].expires
           /\ (\A t \in txns : ~FinishLease(t)) => DOMAIN leases' = DOMAIN leases
<1>1. \A i \in DOMAIN leases : leases[i].expires \in Nat
  BY LeasesFunction DEF Lease
<1>2. CASE /\ DOMAIN leases' = DOMAIN leases
           /\ \A i \in DOMAIN leases :
                 /\ leases'[i].device = leases[i].device /\ leases'[i].hops = leases[i].hops
                 /\ leases'[i].expires \in Nat /\ leases'[i].expires >= leases[i].expires
  BY <1>2
<1>3. ASSUME NEW d \in Devices, NEW r \in Routes, NEW k \in Keys \cup {NoKey}, Renew(d, r, k)
      PROVE  /\ DOMAIN leases' = DOMAIN leases
             /\ \A i \in DOMAIN leases :
                   /\ leases'[i].device = leases[i].device /\ leases'[i].hops = leases[i].hops
                   /\ leases'[i].expires \in Nat /\ leases'[i].expires >= leases[i].expires
  <2>1. PICK i \in DOMAIN leases, target \in Nat : Extends(i, target)
    BY <1>3, Renewed
  <2>2. QED
    BY <1>1, <2>1 DEF Extends
<1>4. ASSUME NEW d \in Devices, NEW r \in Routes, NEW k \in Keys \cup {NoKey}, StartLease(d, r, k)
      PROVE  /\ DOMAIN leases' = DOMAIN leases
             /\ \A i \in DOMAIN leases :
                   /\ leases'[i].device = leases[i].device /\ leases'[i].hops = leases[i].hops
                   /\ leases'[i].expires \in Nat /\ leases'[i].expires >= leases[i].expires
  BY <1>1, <1>4, ReleaseKeyType DEF StartLease
<1>5. ASSUME NEW t \in txns, FinishLease(t)
      PROVE  \A i \in DOMAIN leases : i \in DOMAIN leases' /\ leases'[i] = leases[i]
  BY <1>5, Granted DEF TakesSlots
<1>6. ASSUME NEW d \in Devices, NEW urgent \in BOOLEAN, RevokeLeases(d, urgent)
      PROVE  /\ DOMAIN leases' = DOMAIN leases
             /\ \A i \in DOMAIN leases :
                   /\ leases'[i].device = leases[i].device /\ leases'[i].hops = leases[i].hops
                   /\ leases'[i].expires \in Nat /\ leases'[i].expires >= leases[i].expires
  <2>1. /\ DOMAIN leases' = DOMAIN leases
        /\ \A i \in DOMAIN leases :
              /\ leases'[i].device = leases[i].device /\ leases'[i].hops = leases[i].hops
              /\ leases'[i].expires = leases[i].expires
    BY <1>6, RevokedLeases
  <2>2. QED
    BY <1>1, <2>1
<1>7. CASE leases' = leases
  BY <1>1, <1>7
<1>8. QED
  BY <1>1, <1>2, <1>3, <1>4, <1>5, <1>6, <1>7, OtherStepsKeepLeases DEF Next, Authorize

LEMMA EndFinish ==
    ASSUME PoolInv, NEW t \in txns, FinishLease(t)
    PROVE  \A i \in DOMAIN leases' :
              i \in DOMAIN leases \/ \E a \in DOMAIN leases'[i].hops : Bounded(i, a)'
<1>1. PICK N \in Nat, Picked \in SUBSET (Nodes \X Slots), new \in Lease :
        TakesSlots(t, N, Picked, new)
  BY Granted DEF PoolInv
<1>2. PICK n \in Nodes, s \in Slots :
        <<n, s>> \in Picked /\ new.expires = slots[n][s].validUntil
  BY <1>1 DEF TakesSlots
<1>3. PICK a \in DOMAIN new.hops : new.hops[a] = At(n, s)
  BY <1>1, <1>2 DEF TakesSlots
<1>4. slots[n][s].state = "active"
  BY <1>1, <1>2 DEF TakesSlots, Leasable
<1>5. /\ new.hops[a].node = n /\ new.hops[a].slot = s
      /\ new.hops[a].generation = slots[n][s].generation
  BY <1>3 DEF At
<1>6. local' = local
  BY DEF FinishLease, agentVars
<1>7. slots[n][s].generation = local[n][s].generation
         => slots[n][s].validUntil = local[n][s].validUntil
  BY <1>4 DEF PoolInv, SlotInv, SlotFits, RowFits
<1>8. slots[n][s].validUntil \in Nat
  BY RowType DEF PoolInv, Row
<1>9. leases'[N] = new /\ \A i \in DOMAIN leases' : i = N \/ i \in DOMAIN leases
  BY <1>1 DEF TakesSlots
<1>10. Bounded(N, a)'
  BY <1>2, <1>5, <1>6, <1>7, <1>8, <1>9 DEF Bounded
<1>11. QED
  BY <1>3, <1>9, <1>10

LEMMA EndNext ==
    ASSUME MaxResizes = 0
    PROVE  PoolInv /\ PoolInv' /\ EndInv /\ [Next]_vars => EndInv'
<1> SUFFICES ASSUME PoolInv, PoolInv', EndInv, [Next]_vars, NEW i \in DOMAIN leases'
             PROVE  \E a \in DOMAIN leases'[i].hops : Bounded(i, a)'
  BY DEF EndInv
<1>1. CASE i \in DOMAIN leases
  <2>1. PICK a \in DOMAIN leases[i].hops : Bounded(i, a)
    BY <1>1 DEF EndInv
  <2>2. /\ leases'[i].hops = leases[i].hops
        /\ leases'[i].expires \in Nat /\ leases'[i].expires >= leases[i].expires
    BY <1>1, OldLeases DEF PoolInv
  <2>3. Bounded(i, a)'
    BY <1>1, <2>1, <2>2, BoundedKept DEF PoolInv
  <2>4. QED
    BY <2>2, <2>3
<1>2. CASE i \notin DOMAIN leases
  <2>1. PICK t \in txns : FinishLease(t)
    BY <1>2, OldLeases DEF PoolInv
  <2>2. QED
    BY <1>2, <2>1, EndFinish
<1>3. QED
  BY <1>1, <1>2

\* expires_at is a real end: at some hop the node enforces no later one, whatever renewals the
\* table has recorded and whichever of them the nodes have heard of.
THEOREM RouteEndsCorrect == ASSUME MaxResizes = 0 PROVE Spec => []RouteEndsByExpiry
<1>1. Init => EndInv
  BY DEF Init, EndInv
<1>2. EndInv => RouteEndsByExpiry
  BY DEF EndInv, Bounded, RouteEndsByExpiry, Accepts
<1>3. QED
  BY <1>1, <1>2, PoolInvCorrect, EndNext, PTL DEF Spec

-----------------------------------------------------------------------------
(* A revoked device                                                          *)

LEMMA TargetBound ==
    ASSUME NEW r \in Routes, NEW t \in Nat
    PROVE  RenewalTarget(r, t) <= t + RenewLength
<1>1. ASSUME NEW n \in Nodes
      PROVE  HopTarget(n, t) \in Nat /\ HopTarget(n, t) <= t + RenewLength
  <2>1. PolicyGrid(n) \in Nat \ {0} /\ PolicyLife(n) \in Nat /\ RenewLength \in Nat
    BY Parameters DEF PolicyGrid, PolicyLife
  <2> DEFINE m == Min({RenewLength, PolicyLife(n)})
  <2>2. m \in Nat /\ m <= RenewLength
    BY <2>1, MinOfTwo
  <2>3. HopTarget(n, t) = FloorTo(t + m, PolicyGrid(n))
    BY DEF HopTarget
  <2> HIDE DEF m
  <2>4. FloorTo(t + m, PolicyGrid(n)) \in Nat /\ FloorTo(t + m, PolicyGrid(n)) <= t + m
    BY <2>1, <2>2, FloorType, FloorBound
  <2>5. QED
    BY <2>1, <2>2, <2>3, <2>4
<1> DEFINE f == [i \in DOMAIN Hops[r] |-> HopTarget(Hops[r][i], t)]
<1>2. \A i \in DOMAIN Hops[r] : Hops[r][i] \in Nodes
  BY Parameters
<1>3. \A i \in DOMAIN Hops[r] : f[i] \in Nat /\ f[i] <= t + RenewLength
  BY <1>1, <1>2
<1>4. {f[i] : i \in DOMAIN Hops[r]} = {HopTarget(Hops[r][i], t) : i \in DOMAIN Hops[r]}
  OBVIOUS
<1> HIDE DEF f
<1>5. \E i \in DOMAIN Hops[r] : Min({f[j] : j \in DOMAIN Hops[r]}) = f[i]
  BY <1>3, LeastOverHops
<1>6. QED
  BY <1>3, <1>4, <1>5 DEF RenewalTarget

\* A revocation bounds what the rows of the device's leases still offer, and the clock waits
\* for the device's call that was under way.
CutRow(n, s) ==
    LET row == slots[n][s]
        d   == leases[row.lease].device
    IN /\ row.extendTo <= now + RenewLength
       /\ InUse(row) /\ status[d] = "REVOKED" => row.extendTo <= revokedAt[d] + RenewLength

CutHop(i, a) ==
    LET h == leases[i].hops[a]
        d == leases[i].device
    IN status[d] = "REVOKED" /\ local[h.node][h.slot].generation = h.generation
          => \/ local[h.node][h.slot].validUntil <= revokedAt[d] + Life[h.node]
             \/ local[h.node][h.slot].validUntil <= revokedAt[d] + RenewLength

CutInv ==
    /\ \A t \in txns : status[t.device] = "REVOKED" => revokedAt[t.device] = now
    /\ \A n \in Nodes, s \in Slots : CutRow(n, s)
    /\ \A i \in DOMAIN leases : \A a \in DOMAIN leases[i].hops : CutHop(i, a)

LEMMA CutImplied == PoolInv /\ CutInv => CutOffAfterRevocation
<1> SUFFICES ASSUME PoolInv, CutInv, NEW i \in DOMAIN leases, NEW j \in DOMAIN leases[i].hops,
                    status[leases[i].device] = "REVOKED", Accepts(leases[i].hops[j])
             PROVE  local[leases[i].hops[j].node][leases[i].hops[j].slot].validUntil
                       <= revokedAt[leases[i].device]
                             + Max({Life[leases[i].hops[j].node], RenewLength})
  BY DEF CutOffAfterRevocation
<1>1. PICK h \in Credential : h = leases[i].hops[j]
  BY HopType DEF PoolInv
<1>2. h.node \in Nodes /\ h.slot \in Slots /\ leases[i].device \in Devices
  BY LeasesFunction DEF Credential, PoolInv, Lease
<1>3. /\ Life[h.node] \in Nat /\ RenewLength \in Nat /\ revokedAt[leases[i].device] \in Nat
      /\ local[h.node][h.slot].validUntil \in Nat
  <2>1. local[h.node][h.slot] \in Local
    BY <1>2, SlotTypes DEF PoolInv
  <2>2. QED
    BY <1>2, <2>1, Parameters DEF PoolInv, TypeOK, Local
<1> DEFINE m == Max({Life[h.node], RenewLength})
<1>4. m \in Nat /\ m >= Life[h.node] /\ m >= RenewLength
  <2>1. m \in {Life[h.node], RenewLength} /\ m >= Life[h.node] /\ m >= RenewLength
    BY <1>3, MaxOfTwo
  <2> HIDE DEF m
  <2>2. QED
    BY <1>3, <2>1
<1> HIDE DEF m
<1>5. \/ local[h.node][h.slot].validUntil <= revokedAt[leases[i].device] + Life[h.node]
      \/ local[h.node][h.slot].validUntil <= revokedAt[leases[i].device] + RenewLength
  <2>1. CutHop(i, j)
    BY DEF CutInv
  <2>2. QED
    BY <1>1, <2>1 DEF CutHop, Accepts
<1>6. local[h.node][h.slot].validUntil <= revokedAt[leases[i].device] + m
  BY <1>3, <1>4, <1>5
<1>7. QED
  BY <1>1, <1>6 DEF m

\* A hop of an old lease of a device that is already revoked.
LEMMA CutHopKept ==
    ASSUME MaxResizes = 0, PoolInv, PoolInv', [Next]_vars, NEW i \in DOMAIN leases,
           NEW a \in DOMAIN leases[i].hops, CutHop(i, a),
           \A n \in Nodes, s \in Slots : CutRow(n, s),
           leases'[i].hops = leases[i].hops, leases'[i].device = leases[i].device,
           status[leases[i].device] = "REVOKED",
           revokedAt'[leases[i].device] = revokedAt[leases[i].device]
    PROVE  CutHop(i, a)'
<1>1. PICK h \in Credential : h = leases[i].hops[a]
  BY HopType DEF PoolInv
<1>2. PICK n \in Nodes, s \in Slots : h.node = n /\ h.slot = s
  BY DEF Credential
<1>3. PICK d \in Devices : d = leases[i].device
  BY LeasesFunction DEF PoolInv, Lease
<1>4. EntryMoves(n, s)
  BY EntryNext DEF PoolInv
<1>5. /\ local[n][s].generation \in Nat /\ local'[n][s].generation \in Nat
      /\ local[n][s].validUntil \in Nat /\ local'[n][s].validUntil \in Nat
      /\ slots[n][s].extendTo \in Nat /\ h.generation \in Nat /\ revokedAt[d] \in Nat
      /\ Life[n] \in Nat /\ RenewLength \in Nat
  <2>1. /\ slots[n][s] \in Row /\ local[n][s] \in Local /\ local'[n][s] \in Local
        /\ revokedAt[d] \in Nat
    BY SlotTypes DEF PoolInv, TypeOK
  <2>2. QED
    BY <2>1, Parameters DEF Row, Local, Credential
<1>6. /\ h.generation <= local[n][s].generation
      /\ h.generation = local[n][s].generation =>
            InUse(slots[n][s]) /\ slots[n][s].lease = i
  BY <1>1, <1>2, ServedHop DEF Taken
<1>7. h.generation = local[n][s].generation
         => slots[n][s].extendTo <= revokedAt[d] + RenewLength
  BY <1>3, <1>6 DEF CutRow
<1>8. local[n][s].generation = h.generation =>
         \/ local[n][s].validUntil <= revokedAt[d] + Life[n]
         \/ local[n][s].validUntil <= revokedAt[d] + RenewLength
  BY <1>1, <1>2, <1>3 DEF CutHop
<1>9. local'[n][s].generation = h.generation =>
         \/ local'[n][s].validUntil <= revokedAt[d] + Life[n]
         \/ local'[n][s].validUntil <= revokedAt[d] + RenewLength
  BY <1>4, <1>5, <1>6, <1>7, <1>8 DEF EntryMoves
<1>10. leases'[i].hops[a] = h /\ leases'[i].device = d /\ revokedAt'[d] = revokedAt[d]
  BY <1>1, <1>3
<1>11. QED
  BY <1>2, <1>9, <1>10 DEF CutHop

\* A hop of a device that is revoked just now, or that gets its lease at that very time.
LEMMA CutHopNew ==
    ASSUME PoolInv', NEW i \in DOMAIN leases', NEW a \in DOMAIN leases'[i].hops,
           revokedAt'[leases'[i].device] = now'
    PROVE  CutHop(i, a)'
<1>1. leases'[i].hops[a] \in Credential
  <2>1. leases' \in Seq(Lease)
    BY DEF PoolInv, TypeOK
  <2>2. leases'[i] \in Lease
    BY <2>1
  <2>3. QED
    BY <2>2 DEF Lease
<1>2. PICK n \in Nodes, s \in Slots : leases'[i].hops[a].node = n /\ leases'[i].hops[a].slot = s
  BY <1>1 DEF Credential
<1>3. local'[n][s].validUntil <= now' + Life[n]
  BY DEF PoolInv, SlotInv, SlotFits, FlagFits
<1>4. QED
  BY <1>2, <1>3 DEF CutHop

\* The status of a device, and the time of its revocation, over one step.
LEMMA StatusNext ==
    ASSUME TypeOK, [Next]_vars
    PROVE  /\ now' \in {now, now + 1}
           /\ \A d \in Devices : status'[d] = "REVOKED" =>
                 \/ status[d] = "REVOKED" /\ revokedAt'[d] = revokedAt[d]
                 \/ revokedAt'[d] = now /\ now' = now
<1>1. ASSUME NEW e \in Devices, RevokeDevice(e)
      PROVE  /\ now' = now
             /\ \A d \in Devices : status'[d] = "REVOKED" =>
                   \/ status[d] = "REVOKED" /\ revokedAt'[d] = revokedAt[d]
                   \/ revokedAt'[d] = now /\ now' = now
  BY <1>1 DEF RevokeDevice, TypeOK
<1>2. CASE now' = now /\ status' = status /\ revokedAt' = revokedAt
  BY <1>2
<1>3. CASE Tick
  BY <1>3 DEF Tick, dbVars
<1>4. ASSUME NEW d \in Devices, NEW r \in Routes, NEW k \in Keys \cup {NoKey},
             Authorize(d, r, k)
      PROVE  now' = now /\ status' = status /\ revokedAt' = revokedAt
  BY <1>4 DEF Authorize, Renew, StartLease
<1>5. ASSUME NEW t \in txns, FinishLease(t) \/ Exhausted(t)
      PROVE  now' = now /\ status' = status /\ revokedAt' = revokedAt
  BY <1>5 DEF FinishLease, Exhausted
<1>6. ASSUME NEW d \in Devices, NEW urgent \in BOOLEAN, RevokeLeases(d, urgent)
      PROVE  now' = now /\ status' = status /\ revokedAt' = revokedAt
  BY <1>6 DEF RevokeLeases
<1>7. ASSUME NEW n \in Nodes, NEW secrets \in BOOLEAN, Sync(n, secrets)
      PROVE  now' = now /\ status' = status /\ revokedAt' = revokedAt
  BY <1>7 DEF Sync
<1>8. ASSUME NEW n \in Nodes, TimeOut(n) \/ LoseAnswer(n) \/ ReadAnswer(n) \/ Sweep(n)
      PROVE  now' = now /\ status' = status /\ revokedAt' = revokedAt
  BY <1>8 DEF TimeOut, LoseAnswer, ReadAnswer, Sweep, dbVars
<1>9. ASSUME NEW rep \in late, NEW secrets \in BOOLEAN, LateSync(rep, secrets)
      PROVE  now' = now /\ status' = status /\ revokedAt' = revokedAt
  BY <1>9 DEF LateSync
<1>10. ASSUME NEW n \in Nodes, NEW P \in SUBSET Slots, Resize(n, P)
       PROVE  now' = now /\ status' = status /\ revokedAt' = revokedAt
  BY <1>10 DEF Resize, dbVars
<1>11. CASE UNCHANGED vars
  BY <1>2, <1>11 DEF vars, dbVars
<1>12. QED
  BY <1>1, <1>2, <1>3, <1>4, <1>5, <1>6, <1>7, <1>8, <1>9, <1>10, <1>11 DEF Next

\* What a step may do to the offer of a row: keep it, drop it, or renew it for a device that
\* is not revoked.
OfferMoves(n, s) ==
    \/ slots'[n][s].extendTo = 0
    \/ /\ slots'[n][s].extendTo = slots[n][s].extendTo /\ slots'[n][s].lease = slots[n][s].lease
       /\ InUse(slots'[n][s]) => InUse(slots[n][s])
    \/ /\ slots'[n][s].extendTo <= now + RenewLength /\ now' = now
       /\ status'[leases'[slots'[n][s].lease].device] # "REVOKED"

LEMMA SumOfNats ==
    ASSUME NEW a \in Nat, NEW b \in Nat
    PROVE  0 <= a + b
OBVIOUS

LEMMA CutRowKept ==
    ASSUME PoolInv, PoolInv', [Next]_vars, NEW n \in Nodes, NEW s \in Slots,
           CutRow(n, s), OfferMoves(n, s)
    PROVE  CutRow(n, s)'
<1>1. /\ now \in Nat /\ now' \in Nat /\ now' >= now /\ RenewLength \in Nat
      /\ slots[n][s].extendTo \in Nat /\ slots'[n][s].extendTo \in Nat
  <2>1. slots[n][s] \in Row /\ slots'[n][s] \in Row /\ now \in Nat /\ now' \in Nat
    BY DEF PoolInv, TypeOK
  <2>2. now' >= now
    BY <2>1, StatusNext DEF PoolInv
  <2>3. QED
    BY <2>1, <2>2, Parameters DEF Row
<1>2. \A d \in Devices : revokedAt[d] \in Nat /\ revokedAt'[d] \in Nat
  BY DEF PoolInv, TypeOK
<1>3. CASE slots'[n][s].extendTo = 0
  <2>1. InUse(slots'[n][s]) => leases'[slots'[n][s].lease].device \in Devices
    <3>1. InUse(slots'[n][s]) => slots'[n][s].lease \in DOMAIN leases'
      BY DEF PoolInv, TablesInv, RowAgrees
    <3>2. \A i \in DOMAIN leases' : leases'[i] \in Lease
      BY DEF PoolInv, TypeOK
    <3>3. QED
      BY <3>1, <3>2 DEF Lease
  <2>2. slots'[n][s].extendTo <= now' + RenewLength
    <3>1. now' \in Nat /\ RenewLength \in Nat
      BY <1>1, ZenonT(60)
    <3>2. 0 <= now' + RenewLength
      BY <3>1, SumOfNats, ZenonT(60)
    <3>3. QED
      BY <1>3, <3>2, ZenonT(60)
  <2>3. InUse(slots'[n][s]) => slots'[n][s].extendTo
                                  <= revokedAt'[leases'[slots'[n][s].lease].device] + RenewLength
    BY <1>1, <1>2, <1>3, <2>1
  <2>4. QED
    BY <2>2, <2>3 DEF CutRow
<1>4. CASE /\ slots'[n][s].extendTo = slots[n][s].extendTo
           /\ slots'[n][s].lease = slots[n][s].lease
           /\ InUse(slots'[n][s]) => InUse(slots[n][s])
  <2>1. slots'[n][s].extendTo <= now' + RenewLength
    BY <1>1, <1>4 DEF CutRow
  <2>2. ASSUME InUse(slots'[n][s]), status'[leases'[slots'[n][s].lease].device] = "REVOKED"
        PROVE  slots'[n][s].extendTo
                  <= revokedAt'[leases'[slots'[n][s].lease].device] + RenewLength
    <3>1. PICK i \in DOMAIN leases : i = slots[n][s].lease
      BY <1>4, <2>2 DEF PoolInv, TablesInv, RowAgrees
    <3>2. PICK d \in Devices : d = leases[i].device /\ d = leases'[i].device
      BY OldLeases, LeasesFunction DEF PoolInv, Lease
    <3>3. \/ status[d] = "REVOKED" /\ revokedAt'[d] = revokedAt[d]
          \/ revokedAt'[d] = now /\ now' = now
      BY <1>4, <2>2, <3>1, <3>2, StatusNext DEF PoolInv
    <3>4. /\ slots[n][s].extendTo <= now + RenewLength
          /\ status[d] = "REVOKED" => slots[n][s].extendTo <= revokedAt[d] + RenewLength
      BY <1>4, <2>2, <3>1, <3>2 DEF CutRow
    <3>5. slots'[n][s].extendTo <= revokedAt'[d] + RenewLength
      BY <1>4, <3>3, <3>4
    <3>6. QED
      BY <1>4, <3>1, <3>2, <3>5
  <2>3. QED
    BY <2>1, <2>2 DEF CutRow
<1>5. CASE /\ slots'[n][s].extendTo <= now + RenewLength /\ now' = now
           /\ status'[leases'[slots'[n][s].lease].device] # "REVOKED"
  BY <1>5 DEF CutRow
<1>6. QED
  BY <1>3, <1>4, <1>5 DEF OfferMoves

LEMMA OfferRenew ==
    ASSUME PoolInv, NEW d \in Devices, NEW r \in Routes, NEW k \in Keys \cup {NoKey},
           Renew(d, r, k), NEW n \in Nodes, NEW s \in Slots
    PROVE  OfferMoves(n, s)
<1>1. PICK i \in DOMAIN leases, target \in Nat :
        Renewable(i, d, r) /\ target = RenewalTarget(r, now) /\ Extends(i, target)
  BY Renewed DEF PoolInv
<1>2. /\ slots'[n][s].state = slots[n][s].state /\ slots'[n][s].lease = slots[n][s].lease
  BY <1>1 DEF Extends
<1>3. CASE slots'[n][s].extendTo = slots[n][s].extendTo
  BY <1>2, <1>3 DEF OfferMoves, InUse
<1>4. CASE /\ slots'[n][s].extendTo = target
           /\ \E j \in DOMAIN leases[i].hops :
                 leases[i].hops[j].node = n /\ leases[i].hops[j].slot = s
  <2>1. slots[n][s].lease = i
    BY <1>1, <1>4 DEF Renewable, Intact, HopHeld
  <2>2. leases'[i].device = d
    BY <1>1 DEF Extends, Renewable, Latest, Candidates, Of
  <2>3. status'[d] = "ACTIVE" /\ now' = now
    BY DEF Renew, MayAuthorize
  <2>4. target <= now + RenewLength
    BY <1>1, TargetBound DEF PoolInv, TypeOK
  <2>5. QED
    BY <1>2, <1>4, <2>1, <2>2, <2>3, <2>4 DEF OfferMoves
<1>5. QED
  BY <1>1, <1>3, <1>4 DEF Extends

LEMMA OfferFinish ==
    ASSUME PoolInv, NEW t \in txns, FinishLease(t), NEW n \in Nodes, NEW s \in Slots
    PROVE  OfferMoves(n, s)
<1>1. PICK N \in Nat, Picked \in SUBSET (Nodes \X Slots), new \in Lease :
        TakesSlots(t, N, Picked, new)
  BY Granted DEF PoolInv
<1>2. CASE <<n, s>> \in Picked
  <2>1. /\ slots[n][s].state = "active" /\ slots[n][s] \in Row
        /\ slots'[n][s] = [slots[n][s] EXCEPT !.state = "leased", !.lease = N]
    BY <1>1, <1>2, RowType DEF TakesSlots, Leasable, PoolInv
  <2>2. slots[n][s].extendTo = 0
    BY <2>1 DEF PoolInv, TablesInv, RowAgrees, InUse
  <2>3. QED
    BY <2>1, <2>2 DEF OfferMoves, Row
<1>3. CASE <<n, s>> \notin Picked
  BY <1>1, <1>3 DEF TakesSlots, OfferMoves
<1>4. QED
  BY <1>2, <1>3

LEMMA OfferRevoke ==
    ASSUME PoolInv, NEW d \in Devices, NEW urgent \in BOOLEAN, RevokeLeases(d, urgent),
           NEW n \in Nodes, NEW s \in Slots
    PROVE  OfferMoves(n, s)
<1>1. slots[n][s] \in Row
  BY RowType DEF PoolInv
<1>2. CASE slots[n][s].state = "leased" /\ slots[n][s].lease \in LiveLeases(d)
  <2>1. slots'[n][s] = [slots[n][s] EXCEPT !.state = "revoked", !.urgent = urgent]
    BY <1>2 DEF RevokeLeases
  <2>2. QED
    BY <1>1, <1>2, <2>1 DEF OfferMoves, Row, InUse
<1>3. CASE ~(slots[n][s].state = "leased" /\ slots[n][s].lease \in LiveLeases(d))
  <2>1. slots'[n][s] = slots[n][s]
    BY <1>3 DEF RevokeLeases
  <2>2. QED
    BY <2>1 DEF OfferMoves
<1>4. QED
  BY <1>2, <1>3

LEMMA OfferSynced ==
    ASSUME TypeOK, NEW m \in Nodes, NEW items \in [Slots -> Item], NEW secrets \in BOOLEAN,
           slots' = SyncedSlots(m, items, secrets), NEW n \in Nodes, NEW s \in Slots
    PROVE  OfferMoves(n, s)
<1>1. slots[n][s] \in Row /\ items[s] \in Item
  BY RowType
<1>2. slots'[n][s] = IF n = m THEN SyncedRow(slots[n][s], items[s], secrets) ELSE slots[n][s]
  BY SyncedSlotsType
<1>3. QED
  BY <1>1, <1>2, SyncedKeeps DEF OfferMoves, InUse

LEMMA OfferNext ==
    ASSUME PoolInv, [Next]_vars, NEW n \in Nodes, NEW s \in Slots
    PROVE  OfferMoves(n, s)
<1>1. ASSUME NEW m \in Nodes, NEW secrets \in BOOLEAN, Sync(m, secrets)
      PROVE  OfferMoves(n, s)
  <2>1. slots' = SyncedSlots(m, Items(m), secrets) /\ Items(m) \in [Slots -> Item]
    BY <1>1, ItemsType DEF Sync, PoolInv
  <2>2. QED
    BY <2>1, OfferSynced DEF PoolInv
<1>2. ASSUME NEW rep \in late, NEW secrets \in BOOLEAN, LateSync(rep, secrets)
      PROVE  OfferMoves(n, s)
  <2>1. /\ slots' = SyncedSlots(rep.node, rep.items, secrets)
        /\ rep.node \in Nodes /\ rep.items \in [Slots -> Item]
    BY <1>2 DEF LateSync, PoolInv, TypeOK, Report
  <2>2. QED
    BY <2>1, OfferSynced DEF PoolInv
<1>3. CASE slots' = slots
  BY <1>3 DEF OfferMoves
<1>4. ASSUME \/ \E d \in Devices, r \in Routes, k \in Keys \cup {NoKey} : StartLease(d, r, k)
             \/ \E t \in txns : Exhausted(t)
             \/ \E d \in Devices : RevokeDevice(d)
      PROVE  slots' = slots
  BY <1>4 DEF StartLease, Exhausted, RevokeDevice
<1>5. ASSUME \/ \E m \in Nodes : TimeOut(m) \/ LoseAnswer(m) \/ ReadAnswer(m) \/ Sweep(m)
             \/ \E m \in Nodes, P \in SUBSET Slots : Resize(m, P)
             \/ Tick \/ UNCHANGED vars
      PROVE  slots' = slots
  BY <1>5 DEF TimeOut, LoseAnswer, ReadAnswer, Sweep, Resize, Tick, vars, dbVars
<1>6. QED
  BY <1>1, <1>2, <1>3, <1>4, <1>5, OfferRenew, OfferFinish, OfferRevoke DEF Next, Authorize

\* Only StartLease begins a call, and the clock only moves in Tick.
LEMMA NewTxn ==
    ASSUME [Next]_vars
    PROVE  /\ \A t \in txns' : t \in txns \/ \E d \in Devices, r \in Routes, k \in Keys \cup {NoKey} :
                                                StartLease(d, r, k)
           /\ Tick \/ now' = now
<1>1. ASSUME NEW d \in Devices, NEW r \in Routes, NEW k \in Keys \cup {NoKey}, Renew(d, r, k)
      PROVE  txns' = txns /\ now' = now
  BY <1>1 DEF Renew
<1>2. ASSUME NEW d \in Devices, NEW r \in Routes, NEW k \in Keys \cup {NoKey}, StartLease(d, r, k)
      PROVE  now' = now
  BY <1>2 DEF StartLease
<1>3. ASSUME NEW t \in txns, FinishLease(t) \/ Exhausted(t)
      PROVE  txns' \subseteq txns /\ now' = now
  BY <1>3 DEF FinishLease, Exhausted
<1>4. ASSUME NEW d \in Devices, NEW urgent \in BOOLEAN, RevokeDevice(d) \/ RevokeLeases(d, urgent)
      PROVE  txns' = txns /\ now' = now
  BY <1>4 DEF RevokeDevice, RevokeLeases
<1>5. ASSUME NEW n \in Nodes, NEW secrets \in BOOLEAN, Sync(n, secrets)
      PROVE  txns' = txns /\ now' = now
  BY <1>5 DEF Sync
<1>6. ASSUME NEW n \in Nodes, TimeOut(n) \/ LoseAnswer(n) \/ ReadAnswer(n) \/ Sweep(n)
      PROVE  txns' = txns /\ now' = now
  BY <1>6 DEF TimeOut, LoseAnswer, ReadAnswer, Sweep, dbVars
<1>7. ASSUME NEW rep \in late, NEW secrets \in BOOLEAN, LateSync(rep, secrets)
      PROVE  txns' = txns /\ now' = now
  BY <1>7 DEF LateSync
<1>8. ASSUME NEW n \in Nodes, NEW P \in SUBSET Slots, Resize(n, P)
      PROVE  txns' = txns /\ now' = now
  BY <1>8 DEF Resize, dbVars
<1>9. Tick => txns' = txns
  BY DEF Tick, dbVars
<1>10. UNCHANGED vars => txns' = txns /\ now' = now
  BY DEF vars, dbVars
<1>11. QED
  BY <1>1, <1>2, <1>3, <1>4, <1>5, <1>6, <1>7, <1>8, <1>9, <1>10 DEF Next, Authorize

LEMMA CutNext ==
    ASSUME MaxResizes = 0
    PROVE  PoolInv /\ PoolInv' /\ CutInv /\ [Next]_vars => CutInv'
<1> SUFFICES ASSUME PoolInv, PoolInv', CutInv, [Next]_vars PROVE CutInv'
  OBVIOUS
<1>1. ASSUME NEW n \in Nodes, NEW s \in Slots
      PROVE  CutRow(n, s)'
  BY OfferNext, CutRowKept DEF CutInv
<1>2. ASSUME NEW t \in txns', status'[t.device] = "REVOKED"
      PROVE  revokedAt'[t.device] = now'
  <2>1. t.device \in Devices /\ txns' \subseteq Request
    BY DEF PoolInv, TypeOK, Request
  <2>2. CASE t \in txns
    <3>1. ~Tick
      BY <2>2 DEF Tick
    <3>2. now' = now
      BY <3>1, NewTxn
    <3>3. QED
      BY <1>2, <2>1, <2>2, <3>2, StatusNext DEF CutInv, PoolInv
  <2>3. CASE t \notin txns
    <3>1. PICK d \in Devices, r \in Routes, k \in Keys \cup {NoKey} : StartLease(d, r, k)
      BY <2>3, NewTxn
    <3>2. t.device = d /\ status'[d] = "ACTIVE"
      BY <2>3, <3>1 DEF StartLease, MayAuthorize
    <3>3. QED
      BY <1>2, <3>2
  <2>4. QED
    BY <2>2, <2>3
<1>3. ASSUME NEW i \in DOMAIN leases', NEW a \in DOMAIN leases'[i].hops
      PROVE  CutHop(i, a)'
  <2>1. CASE status'[leases'[i].device] # "REVOKED"
    BY <2>1 DEF CutHop
  <2>2. CASE status'[leases'[i].device] = "REVOKED" /\ i \in DOMAIN leases
    <3>1. /\ leases'[i].device = leases[i].device /\ leases'[i].hops = leases[i].hops
          /\ leases[i].device \in Devices
      BY <2>2, OldLeases, LeasesFunction DEF PoolInv, Lease
    <3>2. CASE /\ status[leases[i].device] = "REVOKED"
               /\ revokedAt'[leases[i].device] = revokedAt[leases[i].device]
      BY <2>2, <3>1, <3>2, CutHopKept DEF CutInv
    <3>3. CASE revokedAt'[leases[i].device] = now'
      BY <3>1, <3>3, CutHopNew
    <3>4. QED
      BY <2>2, <3>1, <3>2, <3>3, StatusNext DEF PoolInv
  <2>3. CASE status'[leases'[i].device] = "REVOKED" /\ i \notin DOMAIN leases
    <3>1. PICK t \in txns : FinishLease(t)
      BY <2>3, OldLeases DEF PoolInv
    <3>2. leases'[i].device = t.device
      <4>1. PICK N \in Nat, Picked \in SUBSET (Nodes \X Slots), new \in Lease :
              TakesSlots(t, N, Picked, new)
        BY <3>1, Granted DEF PoolInv
      <4>2. QED
        BY <2>3, <4>1 DEF TakesSlots
    <3>3. now' = now /\ revokedAt' = revokedAt /\ status' = status
      BY <3>1 DEF FinishLease
    <3>4. revokedAt'[leases'[i].device] = now'
      BY <2>3, <3>2, <3>3 DEF CutInv
    <3>5. QED
      BY <3>4, CutHopNew
  <2>4. QED
    BY <2>1, <2>2, <2>3
<1>4. QED
  BY <1>1, <1>2, <1>3 DEF CutInv

\* A device is cut off at every hop within one slot lifetime, or one renewal length, of its
\* revocation, even if revoke_device_leases never runs, its node hears nothing and a call that
\* was under way still gets it a lease.
THEOREM CutOffCorrect == ASSUME MaxResizes = 0 PROVE Spec => []CutOffAfterRevocation
<1>1. Init => CutInv
  <2> SUFFICES ASSUME Init PROVE CutInv
    OBVIOUS
  <2>1. txns = {} /\ DOMAIN leases = {}
    BY DEF Init
  <2>2. ASSUME NEW n \in Nodes, NEW s \in Slots
        PROVE  CutRow(n, s)
    <3>1. slots[n][s].extendTo = 0 /\ ~InUse(slots[n][s]) /\ now = 0 /\ RenewLength \in Nat
      BY Parameters DEF Init, NoRow, InUse
    <3>2. QED
      BY <3>1 DEF CutRow
  <2>3. QED
    BY <2>1, <2>2 DEF CutInv
<1>2. QED
  BY <1>1, PoolInvCorrect, CutNext, CutImplied, PTL DEF Spec

-----------------------------------------------------------------------------
(* The refinement: every step grants, extends or closes as ExclusiveLease    *)
(* allows, or leaves the grants as they are.                                 *)

\* The grant a lease stands for.
GrantOf(l) == [holder |-> l.device, creds |-> {l.hops[a] : a \in DOMAIN l.hops},
               end |-> l.expires, closed |-> l.revoked]

\* Of a lease whose device and hops stay the same only the end and the closing change.
LEMMA GrantMoves ==
    ASSUME NEW l, NEW m, m.device = l.device, m.hops = l.hops
    PROVE  /\ m.revoked = l.revoked => GrantOf(m) = [GrantOf(l) EXCEPT !.end = m.expires]
           /\ m.expires = l.expires => GrantOf(m) = [GrantOf(l) EXCEPT !.closed = m.revoked]
<1> DEFINE creds(x) == {x.hops[a] : a \in DOMAIN x.hops}
<1>1. creds(m) = creds(l)
  OBVIOUS
<1>2. /\ GrantOf(l) = [holder |-> l.device, creds |-> creds(l), end |-> l.expires, closed |-> l.revoked]
      /\ GrantOf(m) = [holder |-> m.device, creds |-> creds(m), end |-> m.expires, closed |-> m.revoked]
  BY DEF GrantOf
<1> HIDE DEF creds
<1>3. QED
  BY <1>1, <1>2

\* The grants of a table of leases; Grants are those of the table there is.
GrantsOf(ls) == [i \in DOMAIN ls |-> GrantOf(ls[i])]

LEMMA GrantsAre == Grants = GrantsOf(leases) /\ Grants' = GrantsOf(leases')
BY DEF Grants, GrantsOf, GrantOf

LEMMA GrantOfType ==
    ASSUME NEW l \in Lease
    PROVE  GrantOf(l) \in Abstract!Grant
<1>1. l.hops \in Seq(Credential)
  BY DEF Lease
<1>2. \A a \in DOMAIN l.hops : l.hops[a] \in Credential
  BY <1>1
<1>3. {l.hops[a] : a \in DOMAIN l.hops} \in SUBSET Credential
  BY <1>2
<1>4. QED
  BY <1>3 DEF GrantOf, Abstract!Grant, Lease

LEMMA GrantsType ==
    ASSUME NEW ls \in Seq(Lease)
    PROVE  /\ GrantsOf(ls) \in Seq(Abstract!Grant)
           /\ DOMAIN GrantsOf(ls) = DOMAIN ls /\ Len(GrantsOf(ls)) = Len(ls)
           /\ \A i \in DOMAIN ls : GrantsOf(ls)[i] = GrantOf(ls[i])
<1>1. DOMAIN GrantsOf(ls) = DOMAIN ls /\ \A i \in DOMAIN ls : GrantsOf(ls)[i] = GrantOf(ls[i])
  BY DEF GrantsOf
<1>2. Len(ls) \in Nat /\ DOMAIN ls = 1..Len(ls) /\ \A i \in DOMAIN ls : ls[i] \in Lease
  OBVIOUS
<1>3. GrantsOf(ls) = [i \in 1..Len(ls) |-> GrantOf(ls[i])]
  BY <1>2 DEF GrantsOf
<1>4. GrantsOf(ls) \in [1..Len(ls) -> Abstract!Grant]
  BY <1>2, <1>3, GrantOfType
<1>5. GrantsOf(ls) \in Seq(Abstract!Grant)
  BY <1>2, <1>4, SeqDef
<1>6. Len(GrantsOf(ls)) = Len(ls)
  BY <1>1, <1>2, <1>5, LenProperties
<1>7. QED
  BY <1>1, <1>5, <1>6

\* Leases that keep their holders, hops, ends and revocations make the same grants.
LEMMA GrantsKept ==
    ASSUME DOMAIN leases' = DOMAIN leases,
           \A i \in DOMAIN leases :
              /\ leases'[i].device = leases[i].device /\ leases'[i].hops = leases[i].hops
              /\ leases'[i].expires = leases[i].expires /\ leases'[i].revoked = leases[i].revoked
    PROVE  Grants' = Grants
<1>1. \A i \in DOMAIN leases : GrantOf(leases'[i]) = GrantOf(leases[i])
  BY DEF GrantOf
<1>2. GrantsOf(leases') = GrantsOf(leases)
  BY <1>1 DEF GrantsOf
<1>3. QED
  BY <1>2, GrantsAre

LEMMA GrantRenew ==
    ASSUME TypeOK, NEW d \in Devices, NEW r \in Routes, NEW k \in Keys \cup {NoKey},
           Renew(d, r, k)
    PROVE  Grants' = Grants \/ \E i \in DOMAIN Grants : Abstract!Extend(i)
<1>1. PICK i \in DOMAIN leases, target \in Nat : Renewable(i, d, r) /\ Extends(i, target)
  BY Renewed
<1>2. /\ DOMAIN leases' = DOMAIN leases /\ Len(leases') = Len(leases)
      /\ \A j \in DOMAIN leases :
            /\ leases'[j].device = leases[j].device /\ leases'[j].hops = leases[j].hops
            /\ leases'[j].revoked = leases[j].revoked
            /\ leases'[j].expires = IF j = i /\ target > leases[i].expires
                                    THEN target ELSE leases[j].expires
  BY <1>1 DEF Extends
<1>3. CASE ~(target > leases[i].expires)
  BY <1>2, <1>3, GrantsKept
<1>4. CASE target > leases[i].expires
  <2>1. /\ i \in DOMAIN Grants /\ Grants[i] = GrantOf(leases[i]) /\ Grants \in Seq(Abstract!Grant)
        /\ Len(Grants) = Len(leases) /\ DOMAIN Grants = DOMAIN leases
        /\ \A j \in DOMAIN leases : Grants[j] = GrantOf(leases[j])
    <3>1. leases \in Seq(Lease)
      BY DEF TypeOK
    <3>2. QED
      BY <3>1, GrantsAre, GrantsType
  <2>2. ~leases[i].revoked
    BY <1>1 DEF Renewable, Latest, Candidates
  <2>3. Grants' = [j \in DOMAIN leases |-> GrantOf(leases'[j])]
    BY <1>2, GrantsAre DEF GrantsOf
  <2>4. \A j \in DOMAIN leases : j # i => GrantOf(leases'[j]) = GrantOf(leases[j])
    BY <1>2, ZenonT(60) DEF GrantOf
  <2>5. GrantOf(leases'[i]) = [GrantOf(leases[i]) EXCEPT !.end = target]
    BY <1>2, <1>4, GrantMoves
  <2>6. Grants' = [Grants EXCEPT ![i].end = target]
    <3>1. Grants = [j \in DOMAIN leases |-> Grants[j]]
      BY <2>1, GrantsAre DEF GrantsOf
    <3>2. [Grants EXCEPT ![i].end = target]
             = [j \in DOMAIN leases |-> IF j = i THEN [Grants[i] EXCEPT !.end = target] ELSE Grants[j]]
      BY <2>1, <3>1
    <3>3. QED
      BY <2>1, <2>3, <2>4, <2>5, <3>2
  <2>7. Len(Grants') = Len(Grants)
    BY <2>1, <2>6
  <2>8. Grants'[i].end = target
    BY <2>3, <2>5 DEF GrantOf
  <2>9. ~Grants[i].closed /\ Grants[i].end = leases[i].expires
    BY <2>1, <2>2 DEF GrantOf
  <2>10. Abstract!Extend(i)
    BY <1>4, <2>6, <2>7, <2>8, <2>9 DEF Abstract!Extend
  <2>11. QED
    BY <2>1, <2>10
<1>5. QED
  BY <1>3, <1>4

LEMMA GrantRevoke ==
    ASSUME TypeOK, NEW d \in Devices, NEW urgent \in BOOLEAN, RevokeLeases(d, urgent)
    PROVE  Grants' = Grants \/ \E I \in SUBSET DOMAIN Grants : Abstract!Close(I)
<1> DEFINE I == LiveLeases(d)
<1>1. /\ DOMAIN leases' = DOMAIN leases
      /\ \A i \in DOMAIN leases : leases'[i] = IF i \in I THEN [leases[i] EXCEPT !.revoked = TRUE]
                                               ELSE leases[i]
  BY RevokedLeases
<1>2. I \subseteq DOMAIN leases /\ \A i \in I : leases[i].device = d /\ ~leases[i].revoked
  BY DEF LiveLeases
<1> HIDE DEF I
<1>3. DOMAIN Grants = DOMAIN leases /\ \A j \in DOMAIN leases : Grants[j] = GrantOf(leases[j])
  BY GrantsAre DEF GrantsOf
<1>4. Grants' = [j \in DOMAIN leases |-> GrantOf(leases'[j])]
  BY <1>1, GrantsAre DEF GrantsOf
<1>5. CASE I = {}
  <2>1. \A i \in DOMAIN leases : leases'[i] = leases[i]
    BY <1>1, <1>5
  <2>2. QED
    BY <1>4, <2>1, GrantsAre DEF GrantsOf
<1>6. CASE I # {}
  <2>1. \A i \in I : ~Grants[i].closed /\ Grants[i].holder = d
    BY <1>2, <1>3 DEF GrantOf
  <2>2. \A i \in DOMAIN leases : i \in I => i \in DOMAIN Grants /\
           GrantOf(leases'[i]) = [Grants[i] EXCEPT !.closed = TRUE]
    <3>1. ASSUME NEW i \in DOMAIN leases, i \in I
          PROVE  GrantOf(leases'[i]) = [GrantOf(leases[i]) EXCEPT !.closed = TRUE]
      <4>1. leases[i] \in Lease
        BY LeasesFunction
      <4>2. leases'[i] = [leases[i] EXCEPT !.revoked = TRUE]
        BY <1>1, <3>1
      <4>3. /\ leases'[i].device = leases[i].device /\ leases'[i].hops = leases[i].hops
            /\ leases'[i].expires = leases[i].expires /\ leases'[i].revoked = TRUE
        BY <4>1, <4>2 DEF Lease
      <4>4. QED
        BY <4>3, GrantMoves
    <3>2. QED
      BY <1>3, <3>1
  <2>3. \A i \in DOMAIN leases : i \notin I => GrantOf(leases'[i]) = Grants[i]
    BY <1>1, <1>3
  <2>4. Grants' = [i \in DOMAIN Grants |->
                      IF i \in I THEN [Grants[i] EXCEPT !.closed = TRUE] ELSE Grants[i]]
    BY <1>3, <1>4, <2>2, <2>3
  <2>5. Abstract!Close(I)
    BY <1>6, <2>1, <2>4 DEF Abstract!Close
  <2>6. QED
    BY <1>2, <1>3, <2>5
<1>7. QED
  BY <1>5, <1>6

\* A lease of this pool, whatever its place: its hops name credentials no earlier lease held.
LEMMA GrantFinish ==
    ASSUME TypeOK, TypeOK', OneHolder', NEW t \in txns, FinishLease(t)
    PROVE  Abstract!Open
<1>1. PICK N \in Nat, Picked \in SUBSET (Nodes \X Slots), new \in Lease :
        TakesSlots(t, N, Picked, new)
  BY Granted
<1>2. /\ N = Len(leases) + 1 /\ N \notin DOMAIN leases /\ N \in DOMAIN leases'
      /\ leases' = Append(leases, new) /\ leases'[N] = new /\ ~new.revoked
      /\ \A i \in DOMAIN leases : i \in DOMAIN leases' /\ leases'[i] = leases[i]
      /\ \A i \in DOMAIN leases' : i = N \/ i \in DOMAIN leases
      /\ \E a \in DOMAIN new.hops : TRUE
  BY <1>1 DEF TakesSlots
<1>3. /\ Grants \in Seq(Abstract!Grant) /\ Len(Grants) = Len(leases)
      /\ DOMAIN Grants = DOMAIN leases
      /\ \A i \in DOMAIN leases : Grants[i] = GrantOf(leases[i])
  <2>1. leases \in Seq(Lease)
    BY DEF TypeOK
  <2>2. QED
    BY <2>1, GrantsAre, GrantsType
<1>4. \A i \in DOMAIN leases' : Grants'[i] = GrantOf(leases'[i])
  BY GrantsAre DEF GrantsOf
<1>5. Len(leases') = N /\ leases \in Seq(Lease) /\ leases' \in Seq(Lease)
      /\ DOMAIN leases = 1..Len(leases) /\ Len(leases) \in Nat /\ DOMAIN leases' = 1..N
  <2>1. leases \in Seq(Lease) /\ leases' \in Seq(Lease)
    BY DEF TypeOK
  <2>2. Len(leases') = N
    BY <1>2, <2>1, AppendProperties
  <2>3. QED
    BY <1>2, <2>1, <2>2, LenProperties
<1>6. /\ Grants' \in Seq(Abstract!Grant) /\ Len(Grants') = N
  BY <1>5, GrantsAre, GrantsType
<1> DEFINE g == GrantOf(new)
<1>7. Grants'[N] = g
  BY <1>2, <1>4
<1>8. g \in Abstract!Grant /\ ~g.closed /\ g.creds = {new.hops[a] : a \in DOMAIN new.hops}
  <2>1. g \in Abstract!Grant
    BY <1>1, GrantOfType
  <2>2. QED
    BY <1>2, <2>1 DEF GrantOf
<1> HIDE DEF g
<1>9. \A i \in DOMAIN leases : Grants'[i] = Grants[i]
  BY <1>2, <1>3, <1>4
<1>10. Grants' = Append(Grants, g)
  <2>1. /\ Append(Grants, g) \in Seq(Abstract!Grant)
        /\ Len(Append(Grants, g)) = Len(Grants) + 1
        /\ \A i \in 1..Len(Grants) : Append(Grants, g)[i] = Grants[i]
        /\ Append(Grants, g)[Len(Grants) + 1] = g
    BY <1>3, <1>8, AppendProperties
  <2>2. \A i \in 1..Len(Grants') : Grants'[i] = Append(Grants, g)[i]
    BY <1>2, <1>3, <1>5, <1>6, <1>7, <1>9, <2>1
  <2>3. QED
    BY <1>2, <1>3, <1>6, <2>1, <2>2, SeqEqual
<1>11. ASSUME NEW i \in DOMAIN leases, NEW c \in GrantOf(leases[i]).creds, c \in g.creds
       PROVE  FALSE
  <2>1. PICK a \in DOMAIN leases'[i].hops : c = leases'[i].hops[a]
    BY <1>2, <1>11 DEF GrantOf
  <2>2. PICK b \in DOMAIN leases'[N].hops : c = leases'[N].hops[b]
    BY <1>2, <1>8, <1>11
  <2>3. i \in DOMAIN leases' /\ N \in DOMAIN leases' /\ i # N
    BY <1>2
  <2>4. i = N
    BY <2>1, <2>2, <2>3 DEF OneHolder
  <2>5. QED
    BY <2>3, <2>4
<1>12. g.creds \cap Abstract!Spent = {}
  BY <1>3, <1>11 DEF Abstract!Spent
<1>13. g.creds # {}
  <2>1. PICK a \in DOMAIN new.hops : TRUE
    BY <1>2
  <2>2. new.hops[a] \in g.creds
    BY <1>8
  <2>3. QED
    BY <2>2
<1>14. QED
  BY <1>2, <1>3, <1>6, <1>7, <1>8, <1>10, <1>12, <1>13 DEF Abstract!Open

\* The pool implements the exclusive lease, step by step, as long as no pool is resized.
THEOREM ExclusiveLeaseImplemented ==
    ASSUME MaxResizes = 0 PROVE Spec => ImplementsExclusiveLease
<1>1. Init => Abstract!Init
  BY DEF Init, Abstract!Init, Grants
<1>2. ASSUME PoolInv, PoolInv', [Next]_vars
      PROVE  Abstract!Next \/ Grants' = Grants
  <2>1. TypeOK /\ TypeOK' /\ OneHolder'
    BY <1>2 DEF PoolInv, HolderInv
  <2>2. ASSUME NEW d \in Devices, NEW r \in Routes, NEW k \in Keys \cup {NoKey}, Renew(d, r, k)
        PROVE  Abstract!Next \/ Grants' = Grants
    BY <2>1, <2>2, GrantRenew DEF Abstract!Next
  <2>3. ASSUME NEW d \in Devices, NEW r \in Routes, NEW k \in Keys \cup {NoKey},
               StartLease(d, r, k)
        PROVE  Grants' = Grants
    BY <2>1, <2>3, ReleaseKeyType, GrantsKept DEF StartLease
  <2>4. ASSUME NEW t \in txns, FinishLease(t)
        PROVE  Abstract!Next
    BY <2>1, <2>4, GrantFinish DEF Abstract!Next
  <2>5. ASSUME NEW d \in Devices, NEW urgent \in BOOLEAN, RevokeLeases(d, urgent)
        PROVE  Abstract!Next \/ Grants' = Grants
    BY <2>1, <2>5, GrantRevoke DEF Abstract!Next
  <2>6. CASE leases' = leases
    BY <2>6, GrantsAre
  <2>7. QED
    BY <1>2, <2>2, <2>3, <2>4, <2>5, <2>6, OtherStepsKeepLeases DEF Next, Authorize
<1>3. PoolInv /\ PoolInv' /\ [Next]_vars => [Abstract!Next]_Grants
  BY <1>2
<1>4. Spec => Abstract!Spec
  BY <1>1, <1>3, PoolInvCorrect, PTL DEF Spec, Abstract!Spec
<1>5. QED
  BY <1>4 DEF ImplementsExclusiveLease
=============================================================================
