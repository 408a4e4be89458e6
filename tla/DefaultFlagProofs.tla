------------------------- MODULE DefaultFlagProofs -------------------------
(***************************************************************************)
(* What the operations of DefaultFlag keep, for any rows and callers: the  *)
(* row locks and the single default (FlagInv) under every statement, and   *)
(* the default itself (DefaultHeld) unless a deletion meets another call.  *)
(* Cards and Addresses take DefaultFlag by way of this module, so that     *)
(* their proofs can cite these lemmas of their own tables.                 *)
(***************************************************************************)
EXTENDS DefaultFlag, TLAPS

\* An idle transaction has written nothing and sees what is committed.
LEMMA IdleWritesNothing ==
  ASSUME FlagInv, NEW c \in Callers, txn[c].pc = "idle"
  PROVE  /\ Held(c) = {}
         /\ \A r \in Rows : txn[c].writes[r] = Keep /\ View(c, r) = table[r]
  BY DEF FlagInv, Idle, Held, View

\* What a caller sees of a row, and what it has written of it.
LEMMA ViewTypes ==
  ASSUME FlagInv, NEW c \in Callers, NEW r \in Rows
  PROVE  /\ View(c, r) \in Flags \union {NoRow}
         /\ txn[c].writes[r] \in Flags \union {Keep}
         /\ table[r] \in Flags \union {NoRow}
         /\ r \in Held(c) => View(c, r) = txn[c].writes[r] /\ View(c, r) \in Flags
         /\ r \notin Held(c) => View(c, r) = table[r]
         /\ txn[c] \in Txns
  BY DEF FlagInv, Txns, View, Held

\* Two callers never hold the same row.
LEMMA OneHolder ==
  ASSUME FlagInv, NEW c \in Callers, NEW d \in Callers, c # d, NEW r \in Held(c)
  PROVE  r \notin Held(d)
  BY DEF FlagInv, RowLocks

\* The transaction ends without a trace.
LEMMA RollbackKeepsFlagInv ==
  ASSUME Marks, FlagInv, NEW c \in Callers,
         table' = table, txn' = [txn EXCEPT ![c] = Idle]
  PROVE  FlagInv'
  <1>1. /\ Idle \in Txns /\ Idle.pc = "idle" /\ \A r \in Rows : Idle.writes[r] = Keep
    BY DEF Idle, Txns, Points
  <1>2. /\ txn' \in [Callers -> Txns] /\ txn'[c] = Idle
        /\ \A d \in Callers \ {c} : txn'[d] = txn[d]
    BY <1>1 DEF FlagInv
  <1>3. /\ Held(c)' = {}
        /\ \A d \in Callers \ {c} : Held(d)' = Held(d)
    BY <1>1, <1>2 DEF Held
  <1>4. /\ \A r \in Rows : View(c, r)' = table[r]
        /\ \A d \in Callers \ {c} : \A r \in Rows : View(d, r)' = View(d, r)
    BY <1>1, <1>2 DEF View
  <1>5. RowLocks'
    BY <1>3 DEF FlagInv, RowLocks
  <1>6. ASSUME NEW d \in Callers, \E r \in Rows : IsDefault(txn'[d].writes[r])
        PROVE  IndexFree(d)'
    <2>1. d # c
      BY <1>1, <1>2, <1>6 DEF Marks, IsDefault
    <2>2. IndexFree(d)
      BY <1>2, <1>6, <2>1 DEF FlagInv, SingleDefault
    <2>3. QED
      BY <1>2, <1>3, <2>1, <2>2 DEF IndexFree
  <1>7. SingleDefault'
    BY <1>4, <1>6 DEF FlagInv, SingleDefault
  <1>8. \A d \in Callers : (txn'[d].pc = "idle" => txn'[d] = Idle) /\ Standing(d)'
    BY <1>1, <1>2, <1>3, <1>4 DEF FlagInv, Standing
  <1>9. QED
    BY <1>2, <1>5, <1>7, <1>8 DEF FlagInv, Standing

\* A statement that writes only rows nobody else has written, and enters the
\* index only when it is free and the view holds no other default.
LEMMA StatementKeepsFlagInv ==
  ASSUME Marks, FlagInv, NEW c \in Callers, NEW t \in Txns, t.pc # "idle",
         table' = table, txn' = [txn EXCEPT ![c] = t],
         \A r \in Rows : \/ t.writes[r] = txn[c].writes[r]
                         \/ t.writes[r] \in Flags /\ Unlocked(c, {r}),
         \A q, r \in Rows : IsDefault(View(c, q)') /\ IsDefault(View(c, r)') => q = r,
         \A r \in Rows : IsDefault(t.writes[r]) /\ ~ IsDefault(View(c, r)) => IndexFree(c),
         Standing(c)'
  PROVE  FlagInv'
  <1>1. /\ txn' \in [Callers -> Txns] /\ txn'[c] = t
        /\ \A d \in Callers \ {c} : txn'[d] = txn[d]
    BY DEF FlagInv
  <1>2. \A d \in Callers \ {c} : /\ Held(d)' = Held(d)
                                 /\ \A r \in Rows : View(d, r)' = View(d, r)
    BY <1>1 DEF Held, View
  <1>3. ASSUME NEW d \in Callers \ {c}, NEW r \in Rows, r \in Held(c)' PROVE r \notin Held(d)
    <2>1. CASE t.writes[r] = txn[c].writes[r]
      BY <1>1, <1>3, <2>1, OneHolder DEF Held
    <2>2. CASE Unlocked(c, {r})
      BY <2>2 DEF Unlocked
    <2>3. QED
      BY <2>1, <2>2
  <1>4. RowLocks'
    <2>1. ASSUME NEW d \in Callers, NEW e \in Callers, d # e, NEW r \in Rows,
                 r \in Held(d)', r \in Held(e)'
          PROVE  FALSE
      <3>1. CASE d = c
        BY <1>2, <1>3, <2>1, <3>1
      <3>2. CASE e = c
        BY <1>2, <1>3, <2>1, <3>2
      <3>3. CASE d # c /\ e # c
        BY <1>2, <2>1, <3>3, OneHolder
      <3>4. QED
        BY <3>1, <3>2, <3>3
    <2>2. QED
      BY <2>1 DEF RowLocks, Held
  <1>5. ASSUME NEW d \in Callers \ {c}, NEW r \in Rows, IsDefault(txn[d].writes[r]),
               NEW q \in Rows, q \in Held(c)'
        PROVE  ~ IsDefault(table[q]) /\ ~ IsDefault(t.writes[q])
    <2>1. IndexFree(d) /\ r \in Held(d)
      BY <1>5 DEF FlagInv, SingleDefault, Held, Marks, IsDefault
    <2>2. q # r /\ q \notin Held(d)
      BY <1>3, <1>5, <2>1
    <2>3. View(d, q) = table[q] /\ View(d, r) = txn[d].writes[r]
      BY <2>1, <2>2, ViewTypes
    <2>4. ~ IsDefault(table[q])
      BY <1>5, <2>2, <2>3 DEF FlagInv, SingleDefault
    <2>5. ~ IndexFree(c)
      BY <1>5, <2>1 DEF IndexFree
    <2>6. ~ IsDefault(View(c, q))
      <3>1. CASE q \in Held(c)
        BY <2>1, <3>1, ViewTypes DEF IndexFree
      <3>2. CASE q \notin Held(c)
        BY <2>4, <3>2, ViewTypes
      <3>3. QED
        BY <3>1, <3>2
    <2>7. QED
      BY <2>4, <2>5, <2>6
  <1>6. ASSUME NEW d \in Callers \ {c}, \E r \in Rows : IsDefault(txn'[d].writes[r])
        PROVE  IndexFree(d)'
    <2>1. PICK r \in Rows : IsDefault(txn[d].writes[r])
      BY <1>1, <1>6
    <2>2. IndexFree(d)
      BY <2>1 DEF FlagInv, SingleDefault
    <2>3. ASSUME NEW e \in Callers \ {d}, NEW q \in Rows, q \in Held(e)'
          PROVE  ~ IsDefault(table[q]) /\ ~ IsDefault(txn'[e].writes[q])
      <3>1. CASE e = c
        BY <1>1, <1>5, <2>1, <2>3, <3>1
      <3>2. CASE e # c
        BY <1>1, <1>2, <2>2, <2>3, <3>2 DEF IndexFree
      <3>3. QED
        BY <3>1, <3>2
    <2>4. QED
      BY <2>3 DEF IndexFree, Held
  <1>7. ASSUME NEW r \in Rows, IsDefault(t.writes[r]) PROVE IndexFree(c)
    <2>1. CASE ~ IsDefault(View(c, r))
      BY <1>7, <2>1
    <2>2. CASE IsDefault(txn[c].writes[r])
      BY <2>2 DEF FlagInv, SingleDefault
    <2>3. CASE IsDefault(View(c, r)) /\ ~ IsDefault(txn[c].writes[r])
      <3>1. IsDefault(table[r])
        BY <2>3 DEF View
      <3>2. ASSUME NEW d \in Callers \ {c}, NEW q \in Rows, q \in Held(d)
            PROVE  ~ IsDefault(table[q]) /\ ~ IsDefault(txn[d].writes[q])
        <4>1. r \in Held(c)'
          BY <1>1, <1>7 DEF Held, Marks, IsDefault
        <4>2. r \notin Held(d) /\ q # r
          BY <1>3, <3>2, <4>1
        <4>3. ~ IsDefault(table[q])
          BY <3>1, <4>2 DEF FlagInv, SingleDefault
        <4>4. View(d, r) = table[r] /\ View(d, q) = txn[d].writes[q]
          BY <3>2, <4>2, ViewTypes
        <4>5. QED
          BY <3>1, <4>2, <4>3, <4>4 DEF FlagInv, SingleDefault
      <3>3. QED
        BY <3>2 DEF IndexFree, Held
    <2>4. QED
      BY <2>1, <2>2, <2>3
  <1>8. (\E r \in Rows : IsDefault(txn'[c].writes[r])) => IndexFree(c)'
    BY <1>1, <1>2, <1>7 DEF IndexFree, Held
  <1>9. SingleDefault'
    BY <1>1, <1>2, <1>6, <1>8 DEF FlagInv, SingleDefault
  <1>10. \A d \in Callers : (txn'[d].pc = "idle" => txn'[d] = Idle) /\ Standing(d)'
    BY <1>1, <1>2 DEF FlagInv, Standing
  <1>11. QED
    BY <1>1, <1>4, <1>9, <1>10 DEF FlagInv, Standing

\* A new transaction has written nothing.
LEMMA BeginKeepsFlagInv ==
  ASSUME Marks, FlagInv, NEW c \in Callers, NEW pc \in Points, NEW r \in Rows, NEW flag \in BOOLEAN,
         Begin(c, pc, r, flag), pc \notin {"idle", "picked"},
         pc \in {"existing", "edited"} => table[r] # NoRow
  PROVE  FlagInv'
  <1> DEFINE t == [Idle EXCEPT !.pc = pc, !.row = r, !.flag = flag, !.deleting = (pc = "found")]
  <1>1. /\ t \in Txns /\ t.pc = pc /\ t.row = r
        /\ \A q \in Rows : t.writes[q] = Keep
    <2>1. Idle \in Txns /\ \A q \in Rows : Idle.writes[q] = Keep
      BY DEF Txns, Idle, Points
    <2>2. QED
      BY <2>1 DEF Txns
  <1>2. txn' = [txn EXCEPT ![c] = t] /\ table' = table /\ txn[c].pc = "idle"
    BY DEF Begin
  <1> HIDE DEF t
  <1>3. \A q \in Rows : View(c, q)' = table[q] /\ txn[c].writes[q] = Keep
    BY <1>1, <1>2, IdleWritesNothing DEF View, FlagInv
  <1>4. Standing(c)'
    BY <1>1, <1>2, <1>3 DEF Standing, Held, FlagInv
  <1>5. \A q \in Rows : ~ IsDefault(t.writes[q])
    BY <1>1 DEF Marks, IsDefault
  <1>6. \A p, q \in Rows : IsDefault(View(c, p)') /\ IsDefault(View(c, q)') => p = q
    BY <1>3 DEF FlagInv, SingleDefault
  <1>7. \A q \in Rows : t.writes[q] = txn[c].writes[q]
    BY <1>1, <1>3
  <1>8. t.pc # "idle"
    BY <1>1
  <1>9. QED
    BY <1>1, <1>2, <1>4, <1>5, <1>6, <1>7, <1>8, StatementKeepsFlagInv

\* A commit publishes one transaction's view; the others' views change by it only
\* in rows they have not written.
LEMMA CommitEffect ==
  ASSUME FlagInv, NEW c \in Callers, Commit(c)
  PROVE  /\ txn' \in [Callers -> Txns] /\ txn'[c] = Idle
         /\ \A d \in Callers \ {c} : txn'[d] = txn[d]
         /\ table' \in [Rows -> Flags \union {NoRow}]
         /\ \A r \in Rows : table'[r] = View(c, r) /\ View(c, r)' = View(c, r)
         /\ Held(c)' = {}
         /\ \A d \in Callers \ {c} :
              /\ Held(d)' = Held(d)
              /\ \A r \in Rows : /\ r \in Held(d) => View(d, r)' = View(d, r)
                                 /\ r \notin Held(d) => View(d, r)' = View(c, r)
                                 /\ r \notin Held(c) => View(d, r)' = View(d, r)
  <1>1. Idle \in Txns /\ \A r \in Rows : Idle.writes[r] = Keep
    BY DEF Idle, Txns, Points
  <1>2. /\ txn' \in [Callers -> Txns] /\ txn'[c] = Idle
        /\ \A d \in Callers \ {c} : txn'[d] = txn[d]
    BY <1>1 DEF FlagInv, Commit
  <1>3. /\ table' \in [Rows -> Flags \union {NoRow}]
        /\ \A r \in Rows : table'[r] = View(c, r)
    BY ViewTypes DEF Commit
  <1>4. Held(c)' = {} /\ \A r \in Rows : View(c, r)' = View(c, r)
    BY <1>1, <1>2, <1>3 DEF Held, View
  <1>5. ASSUME NEW d \in Callers \ {c}, NEW r \in Rows
        PROVE  /\ r \in Held(d)' <=> r \in Held(d)
               /\ r \in Held(d) => View(d, r)' = View(d, r)
               /\ r \notin Held(d) => View(d, r)' = View(c, r)
               /\ r \notin Held(c) => View(d, r)' = View(d, r)
    BY <1>2, <1>3, ViewTypes DEF Held, View
  <1>6. \A d \in Callers \ {c} : Held(d)' = Held(d)
    BY <1>2 DEF Held
  <1>7. QED
    BY <1>2, <1>3, <1>4, <1>5, <1>6

\* The default of a transaction's view, if it has written it or committed it.
LEMMA CommitKeepsFlagInv ==
  ASSUME Marks, FlagInv, NEW c \in Callers, Commit(c)
  PROVE  FlagInv'
  <1>1. /\ txn' \in [Callers -> Txns] /\ txn'[c] = Idle
        /\ \A d \in Callers \ {c} : txn'[d] = txn[d]
        /\ table' \in [Rows -> Flags \union {NoRow}]
        /\ \A r \in Rows : table'[r] = View(c, r) /\ View(c, r)' = View(c, r)
        /\ Held(c)' = {}
        /\ \A d \in Callers \ {c} :
             /\ Held(d)' = Held(d)
             /\ \A r \in Rows : /\ r \in Held(d) => View(d, r)' = View(d, r)
                                /\ r \notin Held(d) => View(d, r)' = View(c, r)
                                /\ r \notin Held(c) => View(d, r)' = View(d, r)
    BY CommitEffect
  <1>2. Idle.pc = "idle" /\ \A r \in Rows : Idle.writes[r] = Keep
    BY DEF Idle
  <1>3. RowLocks'
    BY <1>1 DEF FlagInv, RowLocks
  <1>4. ASSUME NEW q \in Rows, NEW r \in Rows, IsDefault(table'[q]), IsDefault(table'[r])
        PROVE  q = r
    BY <1>1, <1>4 DEF FlagInv, SingleDefault
  <1>5. ASSUME NEW d \in Callers \ {c}, NEW q \in Rows, NEW r \in Rows,
               IsDefault(View(d, q)'), IsDefault(View(d, r)'), q # r
        PROVE  FALSE
    <2>1. ASSUME NEW a \in Rows, NEW b \in Rows, a # b,
                 IsDefault(View(d, a)'), IsDefault(View(d, b)'), a \in Held(d), b \notin Held(d)
          PROVE  FALSE
      <3>1. IsDefault(txn[d].writes[a]) /\ IsDefault(View(c, b))
        BY <1>1, <2>1, ViewTypes
      <3>2. IndexFree(d)
        BY <3>1 DEF FlagInv, SingleDefault
      <3>3. CASE b \in Held(c)
        BY <3>1, <3>2, <3>3, ViewTypes DEF IndexFree
      <3>4. CASE b \notin Held(c)
        BY <1>1, <2>1, <3>4 DEF FlagInv, SingleDefault
      <3>5. QED
        BY <3>3, <3>4
    <2>2. CASE q \in Held(d) /\ r \in Held(d)
      BY <1>1, <1>5, <2>2 DEF FlagInv, SingleDefault
    <2>3. CASE q \notin Held(d) /\ r \notin Held(d)
      BY <1>1, <1>5, <2>3 DEF FlagInv, SingleDefault
    <2>4. QED
      BY <1>5, <2>1, <2>2, <2>3
  <1>6. ASSUME NEW d \in Callers, \E r \in Rows : IsDefault(txn'[d].writes[r])
        PROVE  IndexFree(d)'
    <2>1. d # c
      BY <1>1, <1>2, <1>6 DEF Marks, IsDefault
    <2>2. IndexFree(d)
      BY <1>1, <1>6, <2>1 DEF FlagInv, SingleDefault
    <2>3. ASSUME NEW e \in Callers \ {d}, NEW r \in Held(e)', r \in Rows
          PROVE  ~ IsDefault(table'[r]) /\ ~ IsDefault(txn'[e].writes[r])
      <3>1. e # c /\ r \in Held(e) /\ r \notin Held(c)
        BY <1>1, <2>3, OneHolder
      <3>2. table'[r] = table[r] /\ txn'[e] = txn[e]
        BY <1>1, <2>3, <3>1, ViewTypes
      <3>3. ~ IsDefault(table[r]) /\ ~ IsDefault(txn[e].writes[r])
        BY <2>2, <2>3, <3>1 DEF IndexFree
      <3>4. QED
        BY <3>2, <3>3
    <2>4. QED
      BY <2>3 DEF IndexFree, Held
  <1>7. SingleDefault'
    BY <1>1, <1>4, <1>5, <1>6 DEF SingleDefault
  <1>8. ASSUME NEW d \in Callers, NEW r \in Rows, View(d, r) # NoRow PROVE View(d, r)' # NoRow
    <2>1. CASE d = c \/ r \in Held(d) \/ r \notin Held(c)
      BY <1>1, <1>8, <2>1
    <2>2. CASE d # c /\ r \notin Held(d) /\ r \in Held(c)
      BY <1>1, <2>2, ViewTypes DEF Marks
    <2>3. QED
      BY <2>1, <2>2
  <1>9. \A d \in Callers : (txn'[d].pc = "idle" => txn'[d] = Idle) /\ Standing(d)'
    BY <1>1, <1>2, <1>8 DEF FlagInv, Standing
  <1>10. QED
    BY <1>1, <1>3, <1>7, <1>9 DEF FlagInv, Standing


\* SeesDefault only depends on what is seen.
LEMMA SameSight ==
  ASSUME NEW c, SeesDefault(c), \A r \in Rows : View(c, r)' = View(c, r)
  PROVE  SeesDefault(c)'
  BY DEF SeesDefault, Active

\* A transaction that ends takes its debts with it: it has not committed them.
LEMMA RollbackKeepsDefault ==
  ASSUME FlagInv, DefaultHeld, NEW c \in Callers,
         table' = table, txn' = [txn EXCEPT ![c] = Idle]
  PROVE  DefaultHeld'
  <1>1. Idle.pc = "idle" /\ Idle.deleting = FALSE
    BY DEF Idle
  <1>2. txn'[c] = Idle /\ \A d \in Callers \ {c} : txn'[d] = txn[d]
    BY DEF FlagInv
  <1>3. ASSUME NEW d \in Callers PROVE Provided(d)'
    <2>1. CASE d = c
      BY <1>1, <1>2, <2>1 DEF Provided
    <2>2. CASE d # c
      <3>1. txn'[d] = txn[d] /\ Provided(d)
        BY <1>2, <2>2 DEF DefaultHeld
      <3>2. QED
        BY <3>1 DEF Provided, Owes, SeesDefault, Active, View, Held
    <2>3. QED
      BY <2>1, <2>2
  <1>4. HasDefault'
    BY DEF DefaultHeld, HasDefault
  <1>5. QED
    BY <1>1, <1>2, <1>3, <1>4 DEF DefaultHeld

\* A statement disturbs the transaction it belongs to, nobody else's.
LEMMA StatementKeepsDefault ==
  ASSUME FlagInv, DefaultHeld, NEW c \in Callers, NEW t,
         table' = table, txn' = [txn EXCEPT ![c] = t],
         txn[c].pc # "idle", t.deleting = txn[c].deleting, Provided(c)'
  PROVE  DefaultHeld'
  <1>1. txn'[c] = t /\ \A d \in Callers \ {c} : txn'[d] = txn[d]
    BY DEF FlagInv
  <1>2. ASSUME NEW d \in Callers, d # c PROVE Provided(d)'
    <2>1. txn'[d] = txn[d] /\ Provided(d)
      BY <1>1, <1>2 DEF DefaultHeld
    <2>2. QED
      BY <2>1 DEF Provided, Owes, SeesDefault, Active, View, Held
  <1>3. ASSUME NEW a \in Callers, NEW b \in Callers, a # b, txn'[a].deleting
        PROVE  txn'[b].pc = "idle"
    <2>1. txn[a].deleting
      BY <1>1, <1>3
    <2>2. txn[b].pc = "idle"
      BY <1>3, <2>1 DEF DefaultHeld
    <2>3. QED
      BY <1>1, <2>2
  <1>4. HasDefault'
    BY DEF DefaultHeld, HasDefault
  <1>5. QED
    BY <1>2, <1>3, <1>4 DEF DefaultHeld

\* A new transaction sees the committed default; a deletion comes alone.
LEMMA BeginKeepsDefault ==
  ASSUME FlagInv, DefaultHeld, NEW c \in Callers, NEW pc \in Points, NEW r \in Rows,
         NEW flag \in BOOLEAN, Begin(c, pc, r, flag), ~ overlapped',
         pc \notin {"removed", "picked"}, ~ (pc = "count" /\ flag),
         pc = "found" => r \in Active(c) /\ flag = View(c, r).default
  PROVE  DefaultHeld'
  <1> DEFINE t == [Idle EXCEPT !.pc = pc, !.row = r, !.flag = flag, !.deleting = (pc = "found")]
  <1>1. /\ t.pc = pc /\ t.row = r /\ t.flag = flag /\ t.deleting = (pc = "found")
        /\ \A q \in Rows : t.writes[q] = Keep
    BY DEF Idle
  <1>2. /\ txn' = [txn EXCEPT ![c] = t] /\ table' = table /\ txn[c].pc = "idle"
        /\ \A d \in Callers \ {c} : txn[d].pc # "idle" => pc # "found" /\ ~ txn[d].deleting
    BY DEF Begin
  <1> HIDE DEF t
  <1>3. txn'[c] = t /\ \A d \in Callers \ {c} : txn'[d] = txn[d]
    BY <1>2 DEF FlagInv
  <1>4. Held(c)' = {} /\ \A q \in Rows : View(c, q)' = table[q] /\ View(c, q) = table[q]
    BY <1>1, <1>2, <1>3, IdleWritesNothing DEF View, Held
  <1>5. SeesDefault(c)'
    <2>1. Active(c)' = { q \in Rows : table[q] # NoRow /\ ~ table[q].deleted }
      BY <1>4 DEF Active
    <2>2. QED
      BY <1>4, <2>1 DEF SeesDefault, DefaultHeld, HasDefault
  <1>6. Provided(c)'
    <2>1. pc = "found" => r \in Active(c)' /\ flag = (View(c, r)').default
      BY <1>4 DEF Active
    <2>2. QED
      BY <1>1, <1>3, <1>4, <1>5, <2>1 DEF Provided
  <1>7. ASSUME NEW d \in Callers, d # c PROVE Provided(d)'
    <2>1. txn'[d] = txn[d] /\ Provided(d)
      BY <1>3, <1>7 DEF DefaultHeld
    <2>2. QED
      BY <1>2, <2>1 DEF Provided, Owes, SeesDefault, Active, View, Held
  <1>8. ASSUME NEW a \in Callers, NEW b \in Callers, a # b, txn'[a].deleting
        PROVE  txn'[b].pc = "idle"
    <2>1. CASE a = c
      BY <1>1, <1>2, <1>3, <1>8, <2>1
    <2>2. CASE b = c
      <3>1. txn[a].deleting /\ a # c
        BY <1>3, <1>8, <2>2
      <3>2. txn[a].pc # "idle"
        BY <3>1 DEF FlagInv, Idle
      <3>3. QED
        BY <1>2, <3>1, <3>2
    <2>3. CASE a # c /\ b # c
      BY <1>3, <1>8, <2>3 DEF DefaultHeld
    <2>4. QED
      BY <2>1, <2>2, <2>3
  <1>9. HasDefault'
    BY <1>2 DEF DefaultHeld, HasDefault
  <1>10. QED
    BY <1>6, <1>7, <1>8, <1>9 DEF DefaultHeld

\* A commit publishes a view with a default, and takes from nobody else's view
\* the default without giving one in exchange.
LEMMA CommitKeepsDefault ==
  ASSUME Marks, FlagInv, DefaultHeld, NEW c \in Callers, Commit(c)
  PROVE  DefaultHeld'
  <1>1. /\ txn' \in [Callers -> Txns] /\ txn'[c] = Idle
        /\ \A d \in Callers \ {c} : txn'[d] = txn[d]
        /\ table' \in [Rows -> Flags \union {NoRow}]
        /\ \A r \in Rows : table'[r] = View(c, r) /\ View(c, r)' = View(c, r)
        /\ Held(c)' = {}
        /\ \A d \in Callers \ {c} :
             /\ Held(d)' = Held(d)
             /\ \A r \in Rows : /\ r \in Held(d) => View(d, r)' = View(d, r)
                                /\ r \notin Held(d) => View(d, r)' = View(c, r)
                                /\ r \notin Held(c) => View(d, r)' = View(d, r)
    BY CommitEffect
  <1>2. Idle.pc = "idle" /\ Idle.deleting = FALSE
    BY DEF Idle
  <1>3. SeesDefault(c) /\ txn[c].pc = "done"
    BY DEF Commit, DefaultHeld, Provided, Owes
  <1>4. HasDefault'
    BY <1>1, <1>3 DEF SeesDefault, Active, HasDefault
  <1>5. ASSUME NEW a \in Callers, NEW b \in Callers, a # b, txn'[a].deleting
        PROVE  txn'[b].pc = "idle"
    <2>1. a # c
      BY <1>1, <1>2, <1>5
    <2>2. txn[b].pc = "idle"
      BY <1>1, <1>5, <2>1 DEF DefaultHeld
    <2>3. QED
      BY <1>1, <1>2, <2>2
  <1>6. ASSUME NEW d \in Callers, d # c, txn[d].pc # "idle" PROVE Provided(d)'
    <2>1. /\ txn'[d] = txn[d] /\ Provided(d) /\ Provided(c)
          /\ ~ txn[d].deleting /\ ~ txn[c].deleting
      BY <1>1, <1>3, <1>6 DEF DefaultHeld
    <2>2. txn[d].pc \notin {"found", "removed", "picked"}
      BY <1>6, <2>1 DEF Provided
    <2>3. ASSUME NEW r \in Held(d)', IsDefault(table'[r]) PROVE ~ txn'[d].writes[r].deleted
      <3>1. r \in Rows /\ r \in Held(d) /\ r \notin Held(c)
        BY <1>1, <1>6, <2>3, OneHolder DEF Held
      <3>2. table'[r] = table[r]
        BY <1>1, <3>1, ViewTypes
      <3>3. QED
        BY <1>6, <2>1, <2>3, <3>1, <3>2 DEF Provided
    <2>4. ASSUME ~ Owes(d) PROVE SeesDefault(d)'
      <3>1. SeesDefault(d)
        BY <1>6, <2>1, <2>4 DEF Provided
      <3>2. SUFFICES ASSUME NEW a \in Active(d)' PROVE \E r \in Active(d)' : (View(d, r)').default
        BY DEF SeesDefault
      <3>3. \A r \in Rows : IsDefault(View(d, r)') => r \in Active(d)' /\ (View(d, r)').default
        BY DEF IsDefault, Active, Flags, FlagInv, Marks
      <3>4. CASE \E r \in Rows : IsDefault(View(d, r)) /\ View(d, r)' = View(d, r)
        BY <3>3, <3>4
      <3>5. CASE \E r \in Rows : IsDefault(View(c, r)) /\ View(d, r)' = View(c, r)
        BY <3>3, <3>5
      <3>6. CASE /\ \A r \in Rows : IsDefault(View(d, r)) => View(d, r)' # View(d, r)
                 /\ \A r \in Rows : IsDefault(View(c, r)) => View(d, r)' # View(c, r)
        <4>1. ASSUME NEW e \in {c, d}, NEW q \in Active(e)
              PROVE  \E r \in Active(e) : r \in Rows /\ IsDefault(View(e, r))
          <5>1. SeesDefault(e) /\ e \in Callers
            BY <1>3, <3>1, <4>1
          <5>2. PICK r \in Active(e) : View(e, r).default
            BY <4>1, <5>1 DEF SeesDefault
          <5>3. r \in Rows /\ View(e, r) \in Flags /\ ~ View(e, r).deleted
            BY <5>1, <5>2, ViewTypes DEF Active
          <5>4. QED
            BY <5>2, <5>3 DEF IsDefault
        <4>2. CASE a \in Held(d)
          <5>1. a \in Active(d)
            BY <1>1, <1>6, <3>2, <4>2 DEF Active
          <5>2. PICK r \in Rows : IsDefault(View(d, r))
            BY <4>1, <5>1
          <5>3. r \in Held(c) /\ r \notin Held(d)
            BY <1>1, <1>6, <3>6, <5>2
          <5>4. IsDefault(table[r]) /\ View(c, r) \in Flags /\ txn[c].writes[r] = View(c, r)
            BY <5>2, <5>3, ViewTypes
          <5>5. ~ View(c, r).deleted
            BY <1>3, <2>1, <5>3, <5>4 DEF Provided
          <5>6. r \in Active(c)
            BY <5>4, <5>5 DEF Active, Marks
          <5>7. PICK q \in Rows : IsDefault(View(c, q))
            BY <4>1, <5>6
          <5>8. q \in Held(d) /\ q \notin Held(c)
            BY <1>1, <1>6, <3>6, <5>7, OneHolder
          <5>9. IsDefault(table[q])
            BY <5>7, <5>8, ViewTypes
          <5>10. q = r
            BY <5>4, <5>9 DEF FlagInv, SingleDefault
          <5>11. QED
            BY <5>3, <5>8, <5>10
        <4>3. CASE a \notin Held(d)
          <5>1. a \in Active(c)
            BY <1>1, <1>6, <3>2, <4>3 DEF Active
          <5>2. PICK r \in Rows : IsDefault(View(c, r))
            BY <4>1, <5>1
          <5>3. r \in Held(d) /\ r \notin Held(c)
            BY <1>1, <1>6, <3>6, <5>2, OneHolder
          <5>4. IsDefault(table[r]) /\ View(d, r) \in Flags /\ txn[d].writes[r] = View(d, r)
            BY <5>2, <5>3, ViewTypes
          <5>5. ~ View(d, r).deleted
            BY <1>6, <2>1, <5>3, <5>4 DEF Provided
          <5>6. r \in Active(d)
            BY <5>4, <5>5 DEF Active, Marks
          <5>7. PICK q \in Rows : IsDefault(View(d, q))
            BY <4>1, <5>6
          <5>8. q \in Held(c) /\ q \notin Held(d)
            BY <1>1, <1>6, <3>6, <5>7
          <5>9. IsDefault(table[q])
            BY <5>7, <5>8, ViewTypes
          <5>10. q = r
            BY <5>4, <5>9 DEF FlagInv, SingleDefault
          <5>11. QED
            BY <5>3, <5>8, <5>10
        <4>4. QED
          BY <4>2, <4>3
      <3>7. QED
        BY <3>4, <3>5, <3>6
    <2>5. QED
      BY <2>1, <2>2, <2>3, <2>4 DEF Provided, Owes
  <1>7. ASSUME NEW d \in Callers PROVE Provided(d)'
    BY <1>1, <1>2, <1>6, <1>7 DEF Provided
  <1>8. QED
    BY <1>4, <1>5, <1>7 DEF DefaultHeld


\* A statement without a write moves its transaction on.
LEMMA GotoEffect ==
  ASSUME FlagInv, NEW c \in Callers, NEW pc, Goto(c, pc)
  PROVE  /\ txn' = [txn EXCEPT ![c] = [txn[c] EXCEPT !.pc = pc]]
         /\ table' = table /\ overlapped' = overlapped
         /\ [txn[c] EXCEPT !.pc = pc].pc = pc
         /\ \A k \in {"row", "flag", "pick", "deleting", "writes"} :
              [txn[c] EXCEPT !.pc = pc][k] = txn[c][k]
         /\ pc \in Points => [txn[c] EXCEPT !.pc = pc] \in Txns
  BY DEF Goto, FlagInv, Txns

\* A statement that writes nothing leaves the views alone.
LEMMA MoveKeepsFlagInv ==
  ASSUME Marks, FlagInv, NEW c \in Callers, NEW t \in Txns,
         table' = table, txn' = [txn EXCEPT ![c] = t], t.writes = txn[c].writes,
         t.pc \in {"removed", "picked", "done"},
         t.pc = "picked" => t.pick \in Rows /\ View(c, t.pick) # NoRow
  PROVE  /\ FlagInv'
         /\ txn'[c] = t /\ Held(c)' = Held(c)
         /\ \A r \in Rows : View(c, r)' = View(c, r)
  <1>1. txn'[c] = t
    BY DEF FlagInv
  <1>2. Held(c)' = Held(c) /\ \A r \in Rows : View(c, r)' = View(c, r)
    BY <1>1 DEF Held, View
  <1>3. Standing(c)'
    BY <1>1, <1>2 DEF Standing
  <1>4. \A q, r \in Rows : IsDefault(View(c, q)') /\ IsDefault(View(c, r)') => q = r
    BY <1>2 DEF FlagInv, SingleDefault
  <1>5. \A r \in Rows : IsDefault(t.writes[r]) /\ ~ IsDefault(View(c, r)) => IndexFree(c)
    BY DEF FlagInv, SingleDefault
  <1>6. QED
    BY <1>1, <1>2, <1>3, <1>4, <1>5, StatementKeepsFlagInv

\* A write that the unique index lets through adds one row to the view.
LEMMA WriteEffect ==
  ASSUME FlagInv, NEW c \in Callers, NEW r \in Rows, NEW v \in Flags, NEW pc \in Points,
         Write(c, r, v, pc), ~ Rollback(c)
  PROVE  \E t \in Txns :
           /\ txn' = [txn EXCEPT ![c] = t]
           /\ txn'[c] = t /\ t.pc = pc
           /\ t.row = txn[c].row /\ t.flag = txn[c].flag /\ t.pick = txn[c].pick
           /\ t.deleting = txn[c].deleting
           /\ t.writes[r] = v /\ \A q \in Rows \ {r} : t.writes[q] = txn[c].writes[q]
  <1> DEFINE w == [txn[c].writes EXCEPT ![r] = v]
             t == [txn[c] EXCEPT !.writes = w, !.pc = pc]
  <1>1. txn[c] \in Txns
    BY DEF FlagInv
  <1>2. /\ w \in [Rows -> Flags \union {Keep}] /\ w[r] = v
        /\ \A q \in Rows \ {r} : w[q] = txn[c].writes[q]
    BY <1>1 DEF Txns
  <1>3. txn' = [txn EXCEPT ![c] = t]
    BY DEF Write
  <1> HIDE DEF w
  <1>4. /\ t \in Txns /\ t.pc = pc /\ t.writes = w
        /\ t.row = txn[c].row /\ t.flag = txn[c].flag /\ t.pick = txn[c].pick
        /\ t.deleting = txn[c].deleting
    BY <1>1, <1>2 DEF Txns
  <1> HIDE DEF t
  <1>5. txn'[c] = t
    BY <1>3 DEF FlagInv
  <1>6. QED
    BY <1>2, <1>3, <1>4, <1>5

\* Either the unique index ends the transaction, or the row is added to the view.
LEMMA WriteKeepsFlagInv ==
  ASSUME Marks, FlagInv, NEW c \in Callers, NEW r \in Rows, NEW v \in Flags, NEW pc \in Points,
         Write(c, r, v, pc), pc \in {"removed", "done"}
  PROVE  /\ FlagInv'
         /\ table' = table /\ overlapped' = overlapped
         /\ \/ txn' = [txn EXCEPT ![c] = Idle]
            \/ \E t \in Txns :
                 /\ txn' = [txn EXCEPT ![c] = t]
                 /\ txn'[c] = t /\ t.pc = pc
                 /\ t.row = txn[c].row /\ t.flag = txn[c].flag /\ t.pick = txn[c].pick
                 /\ t.deleting = txn[c].deleting
                 /\ t.writes[r] = v /\ \A q \in Rows \ {r} : t.writes[q] = txn[c].writes[q]
                 /\ View(c, r)' = v /\ \A q \in Rows \ {r} : View(c, q)' = View(c, q)
                 /\ Held(c)' = Held(c) \union {r}
  <1>1. CASE Rollback(c)
    BY <1>1, RollbackKeepsFlagInv DEF Rollback
  <1>2. CASE ~ Rollback(c)
    <2>9. /\ ~ (IsDefault(v) /\ ~ IsDefault(View(c, r)) /\ OtherDefault(c, r))
          /\ table' = table /\ overlapped' = overlapped
      BY <1>2 DEF Write
    <2>1. PICK t \in Txns :
            /\ txn' = [txn EXCEPT ![c] = t]
            /\ txn'[c] = t /\ t.pc = pc
            /\ t.row = txn[c].row /\ t.flag = txn[c].flag /\ t.pick = txn[c].pick
            /\ t.deleting = txn[c].deleting
            /\ t.writes[r] = v /\ \A q \in Rows \ {r} : t.writes[q] = txn[c].writes[q]
      BY <1>2, WriteEffect
    <2>2. View(c, r)' = v /\ \A q \in Rows \ {r} : View(c, q)' = View(c, q)
      BY <2>9, <2>1 DEF View, Marks
    <2>3. Held(c)' = Held(c) \union {r}
      BY <2>1 DEF Held, Marks
    <2>4. Standing(c)'
      BY <2>1 DEF Standing
    <2>5. \A p, q \in Rows : IsDefault(View(c, p)') /\ IsDefault(View(c, q)') => p = q
      <3>1. \A p, q \in Rows : IsDefault(View(c, p)) /\ IsDefault(View(c, q)) => p = q
        BY DEF FlagInv, SingleDefault
      <3>2. IsDefault(v) => \A q \in Rows \ {r} : ~ IsDefault(View(c, q))
        BY <2>9, <3>1 DEF OtherDefault
      <3>3. QED
        BY <2>2, <3>1, <3>2
    <2>6. \A q \in Rows : IsDefault(t.writes[q]) /\ ~ IsDefault(View(c, q)) => IndexFree(c)
      <3>1. \A q \in Rows : IsDefault(txn[c].writes[q]) => IndexFree(c)
        BY DEF FlagInv, SingleDefault
      <3>2. IsDefault(v) /\ ~ IsDefault(View(c, r)) => IndexFree(c)
        BY DEF Write
      <3>3. QED
        BY <2>1, <3>1, <3>2
    <2>7. \A q \in Rows : \/ t.writes[q] = txn[c].writes[q]
                          \/ t.writes[q] \in Flags /\ Unlocked(c, {q})
      BY <2>1 DEF Write
    <2>8. QED
      BY <2>9, <2>1, <2>2, <2>3, <2>4, <2>5, <2>6, <2>7, StatementKeepsFlagInv
  <1>3. QED
    BY <1>1, <1>2 DEF Write

\* The two readers of a row that is active.
LEMMA ReadersKeep ==
  ASSUME Marks, FlagInv, NEW c \in Callers, NEW r, ReadForDefault(c, r) \/ ReadForDelete(c, r)
  PROVE  FlagInv' /\ (DefaultHeld /\ ~ overlapped' => DefaultHeld')
  <1>1. r \in Rows /\ r \in Active(c)
    BY DEF ReadForDefault, ReadForDelete, Active
  <1>2. txn[c].pc = "idle" /\ View(c, r) = table[r]
    BY <1>1, IdleWritesNothing DEF ReadForDefault, ReadForDelete, Begin
  <1>3. table[r] \in Flags
    BY <1>1, <1>2, ViewTypes DEF Active
  <1>4. \E pc \in Points, flag \in BOOLEAN :
          /\ Begin(c, pc, r, flag)
          /\ pc \in {"target", "found"} /\ (pc = "found" => flag = View(c, r).default)
    BY <1>2, <1>3 DEF ReadForDefault, ReadForDelete, Points, Flags
  <1>5. QED
    BY <1>1, <1>4, BeginKeepsFlagInv, BeginKeepsDefault

\* set_default leaves the target as the one default of the view.
LEMMA PivotKeeps ==
  ASSUME Marks, FlagInv, NEW c \in Callers, Pivot(c)
  PROVE  FlagInv' /\ (DefaultHeld => DefaultHeld')
  <1> DEFINE target == txn[c].row
             w == [r \in Rows |-> IF r \in Active(c) THEN [deleted |-> FALSE, default |-> r = target]
                                  ELSE txn[c].writes[r]]
             t == [txn[c] EXCEPT !.pc = "done", !.writes = w]
  <1>1. CASE Rollback(c)
    BY <1>1, RollbackKeepsFlagInv, RollbackKeepsDefault DEF Rollback
  <1>2. CASE ~ Rollback(c)
    <2>1. /\ target \in Active(c) /\ txn[c].pc = "target"
          /\ Unlocked(c, Active(c)) /\ IndexFree(c)
          /\ txn' = [txn EXCEPT ![c] = t] /\ table' = table
      BY <1>2 DEF Pivot
    <2>2. w \in [Rows -> Flags \union {Keep}]
      BY ViewTypes DEF Flags
    <2>3. /\ \A r \in Active(c) : w[r] \in Flags /\ ~ w[r].deleted /\ (w[r].default <=> r = target)
          /\ \A r \in Rows \ Active(c) : w[r] = txn[c].writes[r]
      BY DEF Flags, Active
    <2> HIDE DEF w
    <2>4. t \in Txns /\ t.pc = "done" /\ t.writes = w /\ t.deleting = txn[c].deleting
      BY <2>2 DEF FlagInv, Txns, Points
    <2> HIDE DEF t
    <2>5. txn'[c] = t
      BY <2>1 DEF FlagInv
    <2>6. /\ \A r \in Active(c) : View(c, r)' = w[r]
          /\ \A r \in Rows \ Active(c) : View(c, r)' = View(c, r)
      BY <2>1, <2>3, <2>4, <2>5 DEF View, Marks, Active
    <2>7. \A r \in Rows \ Active(c) : ~ IsDefault(View(c, r))
      BY DEF Active, IsDefault, Marks
    <2>8. \A r \in Rows : IsDefault(View(c, r)') => r = target
      BY <2>3, <2>6, <2>7 DEF IsDefault
    <2>9. Standing(c)'
      BY <2>4, <2>5 DEF Standing
    <2>10. \A r \in Rows : \/ t.writes[r] = txn[c].writes[r]
                           \/ t.writes[r] \in Flags /\ Unlocked(c, {r})
      BY <2>1, <2>3, <2>4 DEF Unlocked
    <2>11. FlagInv'
      BY <2>1, <2>4, <2>8, <2>9, <2>10, StatementKeepsFlagInv
    <2>12. SeesDefault(c)'
      BY <2>1, <2>3, <2>6 DEF SeesDefault, Active, Marks
    <2>13. ASSUME DefaultHeld PROVE Provided(c)'
      <3>1. Provided(c)
        BY <2>13 DEF DefaultHeld
      <3>2. ASSUME ~ t.deleting, NEW r \in Rows, r \in Held(c)', IsDefault(table'[r])
            PROVE  ~ t.writes[r].deleted
        <4>1. CASE r \in Active(c)
          BY <2>3, <2>4, <4>1
        <4>2. CASE r \notin Active(c)
          BY <2>1, <2>3, <2>4, <2>5, <3>1, <3>2, <4>2 DEF Provided, Held
        <4>3. QED
          BY <4>1, <4>2
      <3>3. QED
        BY <2>4, <2>5, <2>12, <3>2 DEF Provided, Held
    <2>14. DefaultHeld => DefaultHeld'
      BY <2>1, <2>4, <2>13, StatementKeepsDefault
    <2>15. QED
      BY <2>11, <2>14
  <1>3. QED
    BY <1>1, <1>2

\* A write that completes its transaction: the default itself, the row as it was,
\* or a row that is not the default of a view that has one.
LEMMA LastWriteKeepsDefault ==
  ASSUME Marks, FlagInv, DefaultHeld, NEW c \in Callers, NEW r \in Rows, NEW v \in Flags,
         Write(c, r, v, "done"), txn[c].pc # "idle",
         ~ txn[c].deleting /\ IsDefault(table[r]) => ~ v.deleted,
         \/ IsDefault(v)
         \/ SeesDefault(c) /\ v = View(c, r)
         \/ SeesDefault(c) /\ ~ IsDefault(View(c, r)) /\ (v.deleted \/ Active(c) # {})
  PROVE  DefaultHeld'
  <1>1. /\ table' = table
        /\ \/ txn' = [txn EXCEPT ![c] = Idle]
           \/ \E t \in Txns :
                /\ txn' = [txn EXCEPT ![c] = t]
                /\ txn'[c] = t /\ t.pc = "done"
                /\ t.deleting = txn[c].deleting
                /\ t.writes[r] = v /\ \A q \in Rows \ {r} : t.writes[q] = txn[c].writes[q]
                /\ View(c, r)' = v /\ \A q \in Rows \ {r} : View(c, q)' = View(c, q)
                /\ Held(c)' = Held(c) \union {r}
    BY WriteKeepsFlagInv DEF Points
  <1>2. ASSUME NEW t \in Txns,
               txn' = [txn EXCEPT ![c] = t],
               txn'[c] = t, t.pc = "done", t.deleting = txn[c].deleting,
               t.writes[r] = v, \A q \in Rows \ {r} : t.writes[q] = txn[c].writes[q],
               View(c, r)' = v, \A q \in Rows \ {r} : View(c, q)' = View(c, q),
               Held(c)' = Held(c) \union {r}
        PROVE  DefaultHeld'
    <2>1. SeesDefault(c)'
      <3>1. r \in Active(c)' <=> ~ v.deleted
        BY <1>2 DEF Active, Marks
      <3>2. \A q \in Rows \ {r} : q \in Active(c)' <=> q \in Active(c)
        BY <1>2 DEF Active
      <3>3. CASE IsDefault(v)
        BY <1>2, <3>1, <3>3 DEF SeesDefault, IsDefault
      <3>4. CASE SeesDefault(c) /\ v = View(c, r)
        BY <1>2, <3>4 DEF SeesDefault, Active
      <3>5. CASE SeesDefault(c) /\ ~ IsDefault(View(c, r)) /\ (v.deleted \/ Active(c) # {})
        <4>1. SUFFICES ASSUME Active(c)' # {} PROVE \E q \in Active(c)' : (View(c, q)').default
          BY DEF SeesDefault
        <4>2. Active(c) # {}
          BY <3>1, <3>2, <3>5, <4>1 DEF Active
        <4>3. PICK q \in Active(c) : View(c, q).default
          BY <3>5, <4>2 DEF SeesDefault
        <4>4. q # r /\ q \in Rows
          BY <3>5, <4>3, ViewTypes DEF Active, IsDefault
        <4>5. QED
          BY <1>2, <3>2, <4>3, <4>4
      <3>6. QED
        BY <3>3, <3>4, <3>5
    <2>2. Provided(c)
      BY DEF DefaultHeld
    <2>3. ASSUME ~ t.deleting, NEW q \in Held(c)', IsDefault(table[q]) PROVE ~ t.writes[q].deleted
      BY <1>2, <2>2, <2>3 DEF Provided, Held
    <2>4. Provided(c)'
      BY <1>1, <1>2, <2>1, <2>3 DEF Provided
    <2>5. QED
      BY <1>1, <1>2, <2>4, StatementKeepsDefault
  <1>3. QED
    BY <1>1, <1>2, RollbackKeepsDefault

\* The first statement of a deletion: the row leaves the view, and the default
\* with it if the flag says so.
LEMMA SoftDeleteKeeps ==
  ASSUME Marks, FlagInv, NEW c \in Callers, SoftDelete(c)
  PROVE  FlagInv' /\ (DefaultHeld => DefaultHeld')
  <1> DEFINE v == [deleted |-> TRUE, default |-> FALSE]
  <1>1. v \in Flags /\ v.deleted /\ ~ v.default /\ txn[c].pc = "found"
    BY DEF Flags, SoftDelete
  <1>2. ASSUME NEW r \in Active(c), r = txn[c].row PROVE FlagInv' /\ (DefaultHeld => DefaultHeld')
    <2>1. r \in Rows /\ Write(c, r, v, "removed")
      BY <1>2 DEF SoftDelete, Active
    <2> HIDE DEF v
    <2>2. FlagInv' /\ table' = table
      BY <1>1, <2>1, WriteKeepsFlagInv DEF Points
    <2>3. SUFFICES ASSUME DefaultHeld PROVE DefaultHeld'
      BY <2>2
    <2>4. CASE txn' = [txn EXCEPT ![c] = Idle]
      BY <2>2, <2>3, <2>4, RollbackKeepsDefault
    <2>5. ASSUME NEW t \in Txns,
                 txn' = [txn EXCEPT ![c] = t],
                 txn'[c] = t, t.pc = "removed",
                 t.row = txn[c].row, t.flag = txn[c].flag, t.deleting = txn[c].deleting,
                 View(c, r)' = v, \A q \in Rows \ {r} : View(c, q)' = View(c, q)
          PROVE  DefaultHeld'
      <3>1. /\ t.deleting /\ SeesDefault(c)
            /\ t.flag = View(c, r).default
        BY <1>1, <1>2, <2>3, <2>5 DEF DefaultHeld, Provided, Owes
      <3>2. Active(c)' = Active(c) \ {r}
        <4>1. r \notin Active(c)'
          BY <1>1, <2>5 DEF Active
        <4>2. \A q \in Rows \ {r} : q \in Active(c)' <=> q \in Active(c)
          BY <2>5 DEF Active
        <4>3. Active(c)' \subseteq Rows /\ Active(c) \subseteq Rows
          BY DEF Active
        <4>4. QED
          BY <4>1, <4>2, <4>3
      <3>3. ~ t.flag => SeesDefault(c)'
        BY <2>5, <3>1, <3>2 DEF SeesDefault, Active
      <3>4. Provided(c)'
        BY <1>2, <2>5, <3>1, <3>2, <3>3 DEF Provided, Owes
      <3>5. QED
        BY <1>1, <2>2, <2>3, <2>5, <3>4, StatementKeepsDefault
    <2>6. QED
      BY <1>1, <2>1, <2>4, <2>5, WriteKeepsFlagInv DEF Points
  <1>3. CASE txn[c].row \notin Active(c)
    <2>1. ~ DefaultHeld
      BY <1>1, <1>3 DEF DefaultHeld, Provided
    <2>2. Goto(c, "removed")
      BY <1>3 DEF SoftDelete
    <2> DEFINE t == [txn[c] EXCEPT !.pc = "removed"]
    <2>3. /\ t \in Txns /\ t.pc = "removed" /\ t.writes = txn[c].writes
          /\ txn' = [txn EXCEPT ![c] = t] /\ table' = table
      BY <2>2, GotoEffect DEF Points
    <2> HIDE DEF t
    <2>4. QED
      BY <2>1, <2>3, MoveKeepsFlagInv
  <1>4. QED
    BY <1>2, <1>3

\* The choice of a replacement: owed as long as there is a row to choose.
LEMMA PickReplacementKeeps ==
  ASSUME Marks, FlagInv, NEW c \in Callers, PickReplacement(c)
  PROVE  FlagInv' /\ (DefaultHeld => DefaultHeld')
  <1> DEFINE others == Active(c) \ {txn[c].row}
  <1>1. txn[c].pc = "removed" /\ txn[c] \in Txns
    BY DEF PickReplacement, FlagInv
  <1>2. CASE (~ txn[c].flag \/ others = {}) /\ Goto(c, "done")
    <2> DEFINE t == [txn[c] EXCEPT !.pc = "done"]
    <2>1. /\ t \in Txns /\ t.pc = "done" /\ t.writes = txn[c].writes
          /\ t.deleting = txn[c].deleting
          /\ txn' = [txn EXCEPT ![c] = t] /\ table' = table
      BY <1>1, <1>2 DEF Goto, Txns, Points
    <2> HIDE DEF t
    <2>2. /\ FlagInv' /\ txn'[c] = t /\ Held(c)' = Held(c)
          /\ \A r \in Rows : View(c, r)' = View(c, r)
      BY <2>1, MoveKeepsFlagInv
    <2>3. ASSUME DefaultHeld PROVE Provided(c)'
      <3>1. Provided(c)
        BY <2>3 DEF DefaultHeld
      <3>2. SeesDefault(c)
        BY <1>1, <1>2, <3>1 DEF Provided, Owes, SeesDefault
      <3>3. t.deleting
        BY <1>1, <2>1, <3>1 DEF Provided
      <3>4. QED
        BY <2>1, <2>2, <3>2, <3>3, SameSight DEF Provided
    <2>4. QED
      BY <1>1, <2>1, <2>2, <2>3, StatementKeepsDefault
  <1>3. ASSUME NEW r \in others, txn[c].flag,
               txn' = [txn EXCEPT ![c].pick = r,
                         ![c].pc = IF View(c, r).default THEN "done" ELSE "picked"],
               UNCHANGED <<table, overlapped>>
        PROVE  FlagInv' /\ (DefaultHeld => DefaultHeld')
    <2> DEFINE pc == IF View(c, r).default THEN "done" ELSE "picked"
               t == [txn[c] EXCEPT !.pick = r, !.pc = pc]
    <2>1. /\ r \in Rows /\ View(c, r) # NoRow /\ pc \in {"done", "picked"}
          /\ pc = "done" => View(c, r).default
      BY DEF Active
    <2>2. txn' = [txn EXCEPT ![c] = t]
      BY <1>3
    <2> HIDE DEF pc
    <2>3. /\ t \in Txns /\ t.pc = pc /\ t.pick = r /\ t.writes = txn[c].writes
          /\ t.deleting = txn[c].deleting
      BY <1>1, <2>1 DEF Txns, Points
    <2> HIDE DEF t
    <2>4. /\ FlagInv' /\ txn'[c] = t /\ Held(c)' = Held(c)
          /\ \A q \in Rows : View(c, q)' = View(c, q)
      BY <1>3, <2>1, <2>2, <2>3, MoveKeepsFlagInv
    <2>5. ASSUME DefaultHeld PROVE Provided(c)'
      <3>1. Provided(c) /\ r \in Active(c)' /\ t.deleting
        BY <1>1, <2>3, <2>4, <2>5 DEF DefaultHeld, Provided, Active
      <3>2. pc = "done" => SeesDefault(c)'
        BY <2>1, <2>4, <3>1 DEF SeesDefault
      <3>3. QED
        BY <2>1, <2>3, <2>4, <3>1, <3>2 DEF Provided, Owes
    <2>6. QED
      BY <1>1, <1>3, <2>2, <2>3, <2>4, <2>5, StatementKeepsDefault
  <1>4. QED
    BY <1>2, <1>3 DEF PickReplacement

\* The replacement becomes the default.
LEMMA PromoteKeeps ==
  ASSUME Marks, FlagInv, NEW c \in Callers, Promote(c)
  PROVE  FlagInv' /\ (DefaultHeld => DefaultHeld')
  <1> DEFINE r == txn[c].pick
             v == [View(c, r) EXCEPT !.default = TRUE]
  <1>1. /\ txn[c].pc = "picked" /\ r \in Rows /\ View(c, r) \in Flags
        /\ Write(c, r, v, "done")
    BY ViewTypes DEF Promote, FlagInv, Standing
  <1>2. v \in Flags /\ v.default /\ v.deleted = View(c, r).deleted
    BY <1>1 DEF Flags
  <1> HIDE DEF r, v
  <1>3. FlagInv'
    BY <1>1, <1>2, WriteKeepsFlagInv DEF Points
  <1>4. ASSUME DefaultHeld PROVE DefaultHeld'
    <2>1. txn[c].deleting /\ r \in Active(c)
      BY <1>1, <1>4 DEF DefaultHeld, Provided, r
    <2>2. IsDefault(v)
      BY <1>2, <2>1 DEF IsDefault, Active
    <2>3. QED
      BY <1>1, <1>2, <1>4, <2>1, <2>2, LastWriteKeepsDefault
  <1>5. QED
    BY <1>3, <1>4

=============================================================================
