------------------------------- MODULE L2Store -------------------------------
(***************************************************************************)
(* The L2 quant store (src/src/tmkg/l2/store.py): Parquet part files and   *)
(* one DuckDB file, written by several operating-system processes.         *)
(*                                                                         *)
(* A process opens the DuckDB file read-write and exclusively, so          *)
(* `holder` is the process whose connection is open.  write_parquet opens  *)
(* a connection, COPYs the frame to a new part file, INSERTs it with ON    *)
(* CONFLICT DO NOTHING and closes; every statement commits on its own, so  *)
(* a process that dies or raises between two of them leaves the first one  *)
(* done.  The ingestion side also opens short sessions that DELETE rows of *)
(* the derived tables (total_returns, betas, residuals) before rebuilding  *)
(* them; no caller deletes from another table.                             *)
(***************************************************************************)
EXTENDS FiniteSets

CONSTANTS Processes,      \* processes that open the store
          Tables,         \* the L2 tables
          DerivedTables,  \* those rebuilt by DELETE-then-INSERT
          Keys,           \* primary keys
          Vals,           \* the rest of a row
          Nobody,         \* no connection is open
          Empty           \* no row under this key

ASSUME DerivedAssumption == DerivedTables \subseteq Tables
ASSUME NobodyAssumption  == Nobody \notin Processes
ASSUME NoRowAssumption   == Empty \notin Vals

VARIABLES table,    \* the DuckDB rows
          parquet,  \* the rows in part files
          holder,   \* who has the DuckDB file open
          pc,       \* where each process is in write_parquet
          frame     \* the rows each process is writing

vars == <<table, parquet, holder, pc, frame>>

Cells == Tables \X Keys

Row == [cell : Cells, val : Vals]

CellsOf(rows) == {r.cell : r \in rows}

(* Mutant of FramesFor: a frame with a NULL column is let through.          *)
FramesWithNulls(t) == SUBSET [cell : {t} \X Keys, val : Vals \cup {Empty}]

(* The frames one call can pass: rows of one table, two of which may have  *)
(* the same key.                                                           *)
FramesFor(t) == SUBSET [cell : {t} \X Keys, val : Vals]

TypeOK ==
    /\ table \subseteq Row
    /\ parquet \subseteq Row
    /\ holder \in Processes \cup {Nobody}
    /\ pc \in [Processes -> {"idle", "open", "copied", "inserted"}]
    /\ frame \in [Processes -> SUBSET Row]

Init ==
    /\ table = {}
    /\ parquet = {}
    /\ holder = Nobody
    /\ pc = [p \in Processes |-> "idle"]
    /\ frame = [p \in Processes |-> {}]

(***************************************************************************)
(* write_parquet, one action per statement.                                *)
(***************************************************************************)

(* Mutant of Free: the file is opened without the exclusive lock.           *)
AlwaysFree == TRUE

(* duckdb.connect raises while another process has the file open, so the   *)
(* connection is made only when nobody does.                               *)
Free == holder = Nobody

Connect(p, f) ==
    /\ pc[p] = "idle"
    /\ Free
    /\ holder' = p
    /\ pc' = [pc EXCEPT ![p] = "open"]
    /\ frame' = [frame EXCEPT ![p] = f]
    /\ UNCHANGED <<table, parquet>>

(* Mutant of CopyToParquet: the part file is skipped.                       *)
CopySkipped(p) ==
    /\ pc[p] = "open"
    /\ pc' = [pc EXCEPT ![p] = "copied"]
    /\ UNCHANGED <<table, parquet, holder, frame>>

(* COPY _incoming TO part-<uuid>.parquet: the whole frame, also rows whose *)
(* key the table already has.                                              *)
CopyToParquet(p) ==
    /\ pc[p] = "open"
    /\ parquet' = parquet \cup frame[p]
    /\ pc' = [pc EXCEPT ![p] = "copied"]
    /\ UNCHANGED <<table, holder, frame>>

(* Mutant of Fresh: INSERT without the conflict test on the key.            *)
FreshIgnoringConflict(p) == CellsOf(frame[p])

(* INSERT ... ON CONFLICT DO NOTHING: of the frame's rows under a key the  *)
(* table does not have, the first scanned lands; the others are ignored.   *)
Fresh(p) == CellsOf(frame[p]) \ CellsOf(table)

Insert(p) ==
    /\ pc[p] = "copied"
    /\ \E landed \in SUBSET frame[p] :
          /\ CellsOf(landed) = Fresh(p)
          /\ \A r, q \in landed : r.cell = q.cell => r = q
          /\ table' = table \cup landed
    /\ pc' = [pc EXCEPT ![p] = "inserted"]
    /\ UNCHANGED <<parquet, holder, frame>>

(* finally: con.close(), on the normal return, when a statement raised (a  *)
(* NOT NULL column, a full disk) or because the process was killed: the    *)
(* connection goes, the statements that had run stay.                      *)
Close(p) ==
    /\ pc[p] # "idle"
    /\ holder' = Nobody
    /\ pc' = [pc EXCEPT ![p] = "idle"]
    /\ frame' = [frame EXCEPT ![p] = {}]
    /\ UNCHANGED <<table, parquet>>

(* Mutant of Erasable: a rebuild clears a bitemporal table too.             *)
ErasableAnywhere == Tables

(* The tables a rebuild deletes from.                                      *)
Erasable == DerivedTables

(* A DELETE session of the rebuild paths: connect, one DELETE, close.  The *)
(* part files are not touched.                                             *)
DeleteSession(p, t, ks) ==
    /\ pc[p] = "idle"
    /\ Free
    /\ t \in Erasable
    /\ table' = {r \in table : r.cell \notin {t} \X ks}
    /\ UNCHANGED <<parquet, holder, pc, frame>>

Next ==
    \E p \in Processes :
        \/ \E t \in Tables : \E f \in FramesFor(t) : Connect(p, f)
        \/ CopyToParquet(p)
        \/ Insert(p)
        \/ Close(p)
        \/ \E t \in Tables, ks \in SUBSET Keys : DeleteSession(p, t, ks)

Spec == Init /\ [][Next]_vars

(***************************************************************************)
(* Properties.                                                             *)
(***************************************************************************)

(* The primary key: no table ever holds two versions of one key, although  *)
(* frames repeat keys and processes race to land the same one.             *)
OneRowPerKey ==
    \A r, q \in table : r.cell = q.cell => r = q

(* Parquet is the durable layer: every row the query engine serves is in a *)
(* part file, whatever crashed or was ignored on the way.                  *)
ParquetBacksTable == table \subseteq parquet

(* When write_parquet is about to return, every key of the frame is held   *)
(* by the table (by this write or an earlier one): no other process        *)
(* deleted it in between.                                                  *)
LandedOnReturn ==
    \A p \in Processes :
        pc[p] = "inserted" => CellsOf(frame[p]) \subseteq CellsOf(table)

(* A process past connect is the one that has the file open.               *)
OnlyHolderWrites == \A p \in Processes : pc[p] # "idle" => holder = p

(* A row about to be inserted has reached its part file.                   *)
CopiedBeforeInsert ==
    \A p \in Processes :
        pc[p] \in {"copied", "inserted"} => frame[p] \subseteq parquet

(* The inductive invariant behind the properties above.                    *)
Consistent ==
    /\ TypeOK
    /\ OneRowPerKey
    /\ ParquetBacksTable
    /\ LandedOnReturn
    /\ OnlyHolderWrites
    /\ CopiedBeforeInsert

(***************************************************************************)
(* The bitemporal tables implement the append-only ledger.                 *)
(***************************************************************************)
HistoryCells == (Tables \ DerivedTables) \X Keys

(* What the store answers for a bitemporal key.                            *)
Held(c) == \E r \in table : r.cell = c

RowUnder(c) == CHOOSE r \in table : r.cell = c

History ==
    [c \in HistoryCells |-> IF Held(c) THEN RowUnder(c).val ELSE Empty]

Ledger == INSTANCE AppendOnlyLedger WITH Cells <- HistoryCells, ledger <- History

(* Every step of the store fills empty keys of the bitemporal tables or    *)
(* leaves them alone: history is never overwritten or lost.                *)
HistoryIsAppendOnly == Ledger!Spec
=============================================================================
