---------------------------- MODULE L2StoreProofs ----------------------------
(***************************************************************************)
(* Proofs about the L2 store, for any number of processes, tables and      *)
(* keys: the inductive invariant Consistent, the properties it implies and *)
(* the refinement of the append-only ledger.                               *)
(***************************************************************************)
EXTENDS L2Store, TLAPS

(* The empty store with every process idle is consistent.                  *)
LEMMA InitConsistent == Init => Consistent
  BY DEF Init, Consistent, TypeOK, OneRowPerKey, ParquetBacksTable,
         LandedOnReturn, OnlyHolderWrites, CopiedBeforeInsert

(* write_parquet opens the file only when nobody holds it, so the process  *)
(* it admits is the only one past connect.                                 *)
LEMMA ConnectConsistent ==
  ASSUME Consistent, NEW p \in Processes, NEW t \in Tables,
         NEW f \in FramesFor(t), Connect(p, f)
  PROVE  Consistent'
<1>1. f \subseteq Row
  BY DEF FramesFor, Row, Cells
<1>2. \A q \in Processes : pc[q] = "idle"
  BY NobodyAssumption DEF Connect, Free, Consistent, OnlyHolderWrites
<1>3. TypeOK'
  BY <1>1 DEF Connect, Consistent, TypeOK
<1>4. OneRowPerKey' /\ ParquetBacksTable'
  BY DEF Connect, Consistent, OneRowPerKey, ParquetBacksTable
<1>5. LandedOnReturn' /\ OnlyHolderWrites' /\ CopiedBeforeInsert'
  <2>1. \A q \in Processes : pc'[q] = IF q = p THEN "open" ELSE "idle"
    BY <1>2 DEF Connect, Consistent, TypeOK
  <2>2. holder' = p
    BY DEF Connect
  <2>3. QED
    BY <2>1, <2>2 DEF LandedOnReturn, OnlyHolderWrites, CopiedBeforeInsert
<1>6. QED
  BY <1>3, <1>4, <1>5 DEF Consistent

(* COPY adds the frame to the part files and touches nothing else.         *)
LEMMA CopyConsistent ==
  ASSUME Consistent, NEW p \in Processes, CopyToParquet(p)
  PROVE  Consistent'
<1>1. TypeOK'
  BY DEF CopyToParquet, Consistent, TypeOK
<1>2. OneRowPerKey' /\ ParquetBacksTable'
  BY DEF CopyToParquet, Consistent, OneRowPerKey, ParquetBacksTable
<1>3. OnlyHolderWrites'
  BY DEF CopyToParquet, Consistent, OnlyHolderWrites, TypeOK
<1>4. CopiedBeforeInsert'
  BY DEF CopyToParquet, Consistent, CopiedBeforeInsert, TypeOK
<1>5. LandedOnReturn'
  <2>1. \A q \in Processes : pc'[q] = "inserted" => pc[q] = "inserted"
    BY DEF CopyToParquet, Consistent, TypeOK
  <2>2. QED
    BY <2>1 DEF CopyToParquet, Consistent, LandedOnReturn, CellsOf
<1>6. QED
  BY <1>1, <1>2, <1>3, <1>4, <1>5 DEF Consistent

(* INSERT lands one row for each key the table did not have.               *)
LEMMA InsertConsistent ==
  ASSUME Consistent, NEW p \in Processes, Insert(p)
  PROVE  Consistent'
<1>1. PICK landed \in SUBSET frame[p] :
        /\ CellsOf(landed) = Fresh(p)
        /\ \A r, q \in landed : r.cell = q.cell => r = q
        /\ table' = table \cup landed
  BY DEF Insert
<1>2. frame[p] \subseteq Row /\ frame[p] \subseteq parquet
  BY DEF Insert, Consistent, TypeOK, CopiedBeforeInsert
<1>3. TypeOK'
  BY <1>1, <1>2 DEF Insert, Consistent, TypeOK
<1>4. OneRowPerKey'
  <2>1. \A r \in landed : \A q \in table : r.cell # q.cell
    BY <1>1 DEF Fresh, CellsOf
  <2>2. QED
    BY <1>1, <2>1 DEF Consistent, OneRowPerKey
<1>5. ParquetBacksTable'
  BY <1>1, <1>2 DEF Insert, Consistent, ParquetBacksTable
<1>6. OnlyHolderWrites'
  BY DEF Insert, Consistent, OnlyHolderWrites, TypeOK
<1>7. CopiedBeforeInsert'
  BY <1>2 DEF Insert, Consistent, CopiedBeforeInsert, TypeOK
<1>8. LandedOnReturn'
  <2>1. \A q \in Processes : pc'[q] = "inserted" => (q = p \/ pc[q] = "inserted")
    BY DEF Insert, Consistent, TypeOK
  <2>2. CellsOf(table) \subseteq CellsOf(table')
    BY <1>1 DEF CellsOf
  <2>3. CellsOf(frame[p]) \subseteq CellsOf(table')
    BY <1>1 DEF CellsOf, Fresh
  <2>4. \A q \in Processes : pc'[q] = "inserted" =>
                               CellsOf(frame[q]) \subseteq CellsOf(table')
    BY <2>1, <2>2, <2>3 DEF Consistent, LandedOnReturn
  <2>5. frame' = frame
    BY DEF Insert
  <2>6. QED
    BY <2>4, <2>5 DEF LandedOnReturn
<1>9. QED
  BY <1>3, <1>4, <1>5, <1>6, <1>7, <1>8 DEF Consistent

(* close() makes the holder idle; nobody else was past connect.            *)
LEMMA CloseConsistent ==
  ASSUME Consistent, NEW p \in Processes, Close(p)
  PROVE  Consistent'
<1>1. TypeOK'
  BY DEF Close, Consistent, TypeOK
<1>2. OneRowPerKey' /\ ParquetBacksTable'
  BY DEF Close, Consistent, OneRowPerKey, ParquetBacksTable
<1>3. \A q \in Processes : pc'[q] = "idle"
  BY DEF Close, Consistent, OnlyHolderWrites, TypeOK
<1>4. QED
  BY <1>1, <1>2, <1>3 DEF Consistent, LandedOnReturn, OnlyHolderWrites, CopiedBeforeInsert

(* A DELETE session runs only while every process is idle, so no frame it  *)
(* could undo is in flight.                                                *)
LEMMA DeleteConsistent ==
  ASSUME Consistent, NEW p \in Processes, NEW t \in Tables,
         NEW ks \in SUBSET Keys, DeleteSession(p, t, ks)
  PROVE  Consistent'
<1>1. table' \subseteq table
  BY DEF DeleteSession
<1>2. \A q \in Processes : pc'[q] = "idle"
  BY NobodyAssumption DEF DeleteSession, Free, Consistent, OnlyHolderWrites
<1>3. TypeOK'
  BY <1>1 DEF DeleteSession, Consistent, TypeOK
<1>4. OneRowPerKey' /\ ParquetBacksTable'
  BY <1>1 DEF DeleteSession, Consistent, OneRowPerKey, ParquetBacksTable
<1>5. QED
  BY <1>2, <1>3, <1>4 DEF Consistent, LandedOnReturn, OnlyHolderWrites, CopiedBeforeInsert

(* A stuttering step changes none of the variables.                        *)
LEMMA StutterConsistent ==
  ASSUME Consistent, UNCHANGED vars
  PROVE  Consistent'
  BY DEF vars, Consistent, TypeOK, OneRowPerKey, ParquetBacksTable,
         LandedOnReturn, OnlyHolderWrites, CopiedBeforeInsert, CellsOf

(* Consistent is an invariant of the store: the type invariant, the        *)
(* primary key, the parquet backing and the landing guarantee, with the    *)
(* two facts about the exclusive connection that make them inductive.      *)
THEOREM StoreConsistent == Spec => []Consistent
<1>1. Init => Consistent
  BY InitConsistent
<1>2. Consistent /\ [Next]_vars => Consistent'
  <2> SUFFICES ASSUME Consistent, [Next]_vars
               PROVE  Consistent'
    OBVIOUS
  <2>1. ASSUME NEW p \in Processes, NEW t \in Tables,
               NEW f \in FramesFor(t), Connect(p, f)
        PROVE  Consistent'
    BY <2>1, ConnectConsistent
  <2>2. ASSUME NEW p \in Processes, CopyToParquet(p)
        PROVE  Consistent'
    BY <2>2, CopyConsistent
  <2>3. ASSUME NEW p \in Processes, Insert(p)
        PROVE  Consistent'
    BY <2>3, InsertConsistent
  <2>4. ASSUME NEW p \in Processes, Close(p)
        PROVE  Consistent'
    BY <2>4, CloseConsistent
  <2>5. ASSUME NEW p \in Processes, NEW t \in Tables,
               NEW ks \in SUBSET Keys, DeleteSession(p, t, ks)
        PROVE  Consistent'
    BY <2>5, DeleteConsistent
  <2>6. CASE UNCHANGED vars
    BY <2>6, StutterConsistent
  <2>7. QED
    BY <2>1, <2>2, <2>3, <2>4, <2>5, <2>6 DEF Next
<1>3. QED
  BY <1>1, <1>2, PTL DEF Spec

(* The state always has its type.                                          *)
COROLLARY StoreTypeOK == Spec => []TypeOK
<1>1. Consistent => TypeOK
  BY DEF Consistent
<1>2. QED
  BY <1>1, StoreConsistent, PTL

(* No table ever holds two versions of one key.                            *)
COROLLARY StoreOneRowPerKey == Spec => []OneRowPerKey
<1>1. Consistent => OneRowPerKey
  BY DEF Consistent
<1>2. QED
  BY <1>1, StoreConsistent, PTL

(* Every row the query engine serves is in a part file.                    *)
COROLLARY StoreParquetBacksTable == Spec => []ParquetBacksTable
<1>1. Consistent => ParquetBacksTable
  BY DEF Consistent
<1>2. QED
  BY <1>1, StoreConsistent, PTL

(* write_parquet returns with every key of its frame held.                 *)
COROLLARY StoreLandedOnReturn == Spec => []LandedOnReturn
<1>1. Consistent => LandedOnReturn
  BY DEF Consistent
<1>2. QED
  BY <1>1, StoreConsistent, PTL

(***************************************************************************)
(* The refinement.                                                         *)
(***************************************************************************)

(* Under the primary key the answer for a held cell is the row's value.    *)
LEMMA HistoryOfRow ==
  ASSUME Consistent, NEW r \in table, r.cell \in HistoryCells
  PROVE  History[r.cell] = r.val
<1>1. Held(r.cell)
  BY DEF Held
<1>2. RowUnder(r.cell) \in table /\ RowUnder(r.cell).cell = r.cell
  BY <1>1 DEF Held, RowUnder
<1>3. RowUnder(r.cell) = r
  BY <1>2 DEF Consistent, OneRowPerKey
<1>4. QED
  BY <1>1, <1>3 DEF History

(* A cell without a row reads as Empty.                                    *)
LEMMA HistoryOfNoRow ==
  ASSUME NEW c \in HistoryCells, \A r \in table : r.cell # c
  PROVE  History[c] = Empty
  BY DEF History, Held

(* A step that adds no bitemporal row and removes none is a stutter of the *)
(* ledger.                                                                 *)
LEMMA HistoryUnchanged ==
  ASSUME Consistent, Consistent',
         \A r \in table \cup table' :
             r.cell \in HistoryCells => (r \in table <=> r \in table')
  PROVE  History' = History
<1>1. ASSUME NEW c \in HistoryCells PROVE History'[c] = History[c]
  <2>1. CASE \E r \in table : r.cell = c
    <3>1. PICK r \in table : r.cell = c
      BY <2>1
    <3>2. r \in table'
      BY <1>1, <3>1
    <3>3. History[c] = r.val
      BY <1>1, <3>1, HistoryOfRow
    <3>4. Held(c)' /\ RowUnder(c)' = r
      BY <3>1, <3>2 DEF Held, RowUnder, Consistent, OneRowPerKey
    <3>5. History'[c] = r.val
      BY <1>1, <3>4 DEF History
    <3>6. QED
      BY <3>3, <3>5
  <2>2. CASE \A r \in table : r.cell # c
    <3>1. \A r \in table' : r.cell # c
      BY <1>1, <2>2
    <3>2. History'[c] = Empty
      BY <1>1, <3>1 DEF History, Held
    <3>3. QED
      BY <1>1, <2>2, <3>2, HistoryOfNoRow
  <2>3. QED
    BY <2>1, <2>2
<1>2. QED
  BY <1>1 DEF History

(* An INSERT fills cells that were empty and leaves the others alone.      *)
LEMMA InsertAppends ==
  ASSUME Consistent, Consistent', NEW p \in Processes, Insert(p)
  PROVE  Ledger!Next
<1>1. PICK landed \in SUBSET frame[p] :
        /\ CellsOf(landed) = Fresh(p)
        /\ table' = table \cup landed
  BY DEF Insert
<1> DEFINE filled == Fresh(p) \cap HistoryCells
           val == [c \in filled |-> History'[c]]
<1>2. filled \in SUBSET HistoryCells
  OBVIOUS
<1>3. \A c \in filled : \A r \in table : r.cell # c
  BY DEF Fresh, CellsOf
<1>4. \A c \in filled : History[c] = Empty
  BY <1>2, <1>3, HistoryOfNoRow
<1>5. \A r \in table' : r.cell \in HistoryCells => History'[r.cell] = r.val
  <2>1. ASSUME NEW r \in table', r.cell \in HistoryCells
        PROVE  History'[r.cell] = r.val
    <3>1. Held(r.cell)' /\ RowUnder(r.cell)' = r
      BY <2>1 DEF Held, RowUnder, Consistent, OneRowPerKey
    <3>2. QED
      BY <2>1, <3>1 DEF History
  <2>2. QED
    BY <2>1
<1>6. val \in [filled -> Vals]
  <2>1. ASSUME NEW c \in filled PROVE History'[c] \in Vals
    <3>1. PICK r \in landed : r.cell = c
      BY <1>1, <2>1 DEF CellsOf
    <3>2. r \in table' /\ r \in Row
      BY <1>1, <3>1 DEF Consistent, TypeOK
    <3>3. History'[c] = r.val
      BY <1>5, <2>1, <3>1, <3>2
    <3>4. QED
      BY <3>2, <3>3 DEF Row
  <2>2. QED
    BY <2>1
<1>7. \A c \in HistoryCells :
        History'[c] = IF c \in filled THEN val[c] ELSE History[c]
  <2>1. ASSUME NEW c \in HistoryCells, c \notin filled
        PROVE  History'[c] = History[c]
    <3>1. CASE \E r \in table : r.cell = c
      BY <1>1, <1>5, <2>1, <3>1, HistoryOfRow
    <3>2. CASE \A r \in table : r.cell # c
      <4>1. \A r \in landed : r.cell # c
        BY <1>1, <2>1 DEF CellsOf
      <4>2. \A r \in table' : r.cell # c
        BY <1>1, <3>2, <4>1
      <4>3. History'[c] = Empty
        BY <2>1, <4>2 DEF History, Held
      <4>4. QED
        BY <2>1, <3>2, <4>3, HistoryOfNoRow
    <3>3. QED
      BY <3>1, <3>2
  <2>2. QED
    BY <2>1
<1>8. History' = [c \in HistoryCells |-> IF c \in filled THEN val[c] ELSE History[c]]
  <2>1. History' = [c \in HistoryCells |-> History'[c]]
    BY DEF History
  <2>2. QED
    BY <1>7, <2>1
<1>9. Ledger!Append(filled)
  BY <1>4, <1>6, <1>8 DEF Ledger!Append
<1>10. QED
  BY <1>2, <1>9 DEF Ledger!Next

(* A DELETE session reaches no bitemporal row.                             *)
LEMMA DeleteKeepsHistory ==
  ASSUME Consistent, Consistent', NEW p \in Processes, NEW t \in Tables,
         NEW ks \in SUBSET Keys, DeleteSession(p, t, ks)
  PROVE  History' = History
<1>1. t \in DerivedTables
  BY DEF DeleteSession, Erasable
<1>2. \A r \in table : r.cell \in HistoryCells => r \in table'
  BY <1>1 DEF DeleteSession, HistoryCells
<1>3. table' \subseteq table
  BY DEF DeleteSession
<1>4. QED
  BY <1>2, <1>3, HistoryUnchanged

(* Every behaviour of the store is, on the bitemporal tables, a behaviour  *)
(* of the append-only ledger: no history is overwritten or lost.           *)
THEOREM StoreIsAppendOnly == Spec => HistoryIsAppendOnly
<1>1. Init => Ledger!Init
  BY DEF Init, Ledger!Init, History, Held
<1>2. Consistent /\ Consistent' /\ [Next]_vars => [Ledger!Next]_History
  <2> SUFFICES ASSUME Consistent, Consistent', [Next]_vars
               PROVE  [Ledger!Next]_History
    OBVIOUS
  <2>1. ASSUME NEW p \in Processes, Insert(p)
        PROVE  Ledger!Next
    BY <2>1, InsertAppends
  <2>2. ASSUME NEW p \in Processes, NEW t \in Tables,
               NEW ks \in SUBSET Keys, DeleteSession(p, t, ks)
        PROVE  History' = History
    BY <2>2, DeleteKeepsHistory
  <2>3. ASSUME table' = table
        PROVE  History' = History
    BY <2>3, HistoryUnchanged
  <2>4. ASSUME NEW p \in Processes, NEW t \in Tables,
               NEW f \in FramesFor(t), Connect(p, f)
        PROVE  table' = table
    BY <2>4 DEF Connect
  <2>5. ASSUME NEW p \in Processes, CopyToParquet(p) \/ Close(p)
        PROVE  table' = table
    BY <2>5 DEF CopyToParquet, Close
  <2>6. CASE UNCHANGED vars
    BY <2>3, <2>6 DEF vars
  <2>7. QED
    BY <2>1, <2>2, <2>3, <2>4, <2>5, <2>6 DEF Next
<1>3. QED
  BY <1>1, <1>2, StoreConsistent, PTL DEF Spec, HistoryIsAppendOnly, Ledger!Spec
=============================================================================
