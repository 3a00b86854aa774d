------------------------------ MODULE PgErrors ------------------------------
(***************************************************************************)
(* The classes of errors (src/error.rs): what PgStoreError::from_sqlx      *)
(* makes of an error of sqlx, which of them begin() retries, and which     *)
(* SurrealDB is told.  SQLSTATE codes stand for sqlx::Error::Database, the *)
(* other names for the other variants of sqlx::Error.                      *)
(***************************************************************************)

(* Codes PostgreSQL answers with: a lost connection, a row that exists, no  *)
(* transaction, an aborted transaction, a serialization failure, a          *)
(* deadlock, a lock that was not had in time, a statement that took too     *)
(* long, a killed session.                                                  *)
SqlStates == {"08006", "23505", "25P01", "25P02", "40001", "40P01", "55P03", "57014",
              "57P01"}

(* Errors that mean the session is gone, whatever became of its last        *)
(* statement.                                                               *)
SessionErrors == {"08006", "57P01", "Io", "Tls", "Protocol"}
SqlxErrors == SqlStates \cup SessionErrors \cup {"PoolTimedOut", "PoolClosed",
                                                 "WorkerCrashed", "Configuration"}

(* keyed: the caller names the key its statement was about.                 *)
from_sqlx(keyed, e) ==
  CASE e = "08006" -> "Postgres08"          \* Postgres("connection error [08...")
    [] e = "23505" -> IF keyed THEN "KeyAlreadyExists" ELSE "Other"
    [] e = "40P01" -> "Deadlock"
    [] e = "40001" -> "SerializationFailure"
    [] e = "PoolTimedOut" -> "PoolTimeout"
    [] e = "PoolClosed" -> "PoolClosed"
    [] e \in {"Io", "Tls", "Protocol", "WorkerCrashed"} -> "Io"
    [] OTHER -> "Postgres"

(* The variants; Postgres08 is a Postgres whose text names a code 08xxx.    *)
PgStoreErrors ==
  {"KeyAlreadyExists", "ConditionNotMet", "TxClosed", "TxReadOnly",
   "UnsupportedVersionedQueries", "Deadlock", "SerializationFailure", "PoolTimeout",
   "ConnectTimeout", "Io", "PoolClosed", "Postgres08", "Postgres", "Other"}

is_transient(err) ==
  err \in {"PoolTimeout", "ConnectTimeout", "Io", "Postgres08", "Deadlock",
           "SerializationFailure"}

(* From<PgStoreError> for kvs::Error: what SurrealDB is told.               *)
KvsErrorIoConflict(err) ==          \* mutant: a lost connection is a conflict
  CASE err \in {"Deadlock", "SerializationFailure", "Io"} -> "TransactionConflict"
    [] err \in {"PoolTimeout", "ConnectTimeout", "PoolClosed"} -> "ConnectionFailed"
    [] OTHER -> "Transaction"
KvsError(err) ==
  CASE err = "KeyAlreadyExists" -> "TransactionKeyAlreadyExists"
    [] err = "ConditionNotMet" -> "TransactionConditionNotMet"
    [] err = "TxClosed" -> "TransactionFinished"
    [] err = "TxReadOnly" -> "TransactionReadonly"
    [] err = "UnsupportedVersionedQueries" -> "UnsupportedVersionedQueries"
    [] err \in {"Deadlock", "SerializationFailure"} -> "TransactionConflict"
    [] err \in {"PoolTimeout", "ConnectTimeout", "Io", "PoolClosed"} -> "ConnectionFailed"
    [] err \in {"Postgres08", "Postgres", "Other"} -> "Transaction"

=============================================================================
