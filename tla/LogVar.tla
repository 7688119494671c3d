------------------------------- MODULE LogVar -------------------------------
(***************************************************************************)
(* The log entries of a transaction: stm-core/src/transaction/log_var.rs.  *)
(*                                                                         *)
(* An ArcAny is a pointer to an immutable heap cell, and the STM compares  *)
(* such pointers and never what they point to (Arc::ptr_eq), so a value is *)
(* its address.  The five constructors of LogVar become the field kind;    *)
(* orig is the value read from the variable and new the value to be        *)
(* written, each Null in the constructors that do not carry it.  A log is  *)
(* a function from every variable to an entry: Vacant stands for a key     *)
(* that the BTreeMap does not hold.                                        *)
(***************************************************************************)
CONSTANTS
  Addr,     \* addresses of heap cells (Arc<dyn Any>)
  Null      \* no address

ASSUME NullAssumption == Null \notin Addr

Ptr == Addr \cup {Null}

Kinds == {"Vacant", "Read", "Write", "ReadWrite", "ReadObsolete",
          "ReadObsoleteWrite"}

Entry(k, r, w) == [kind |-> k, orig |-> r, new |-> w]

Vacant == Entry("Vacant", Null, Null)

(* Bug: wait_for_change forgets the variables that were also written.      *)
ReadValueUnlessWritten(e) == e.kind \in {"Read", "ReadObsolete"}

(* LogVar::into_read_value is e.orig for the entries that were read.       *)
HasReadValue(e) ==
  e.kind \in {"Read", "ReadWrite", "ReadObsolete", "ReadObsoleteWrite"}

(* The entries for which commit takes a write lock.                        *)
IsWrite(e) == e.kind \in {"Write", "ReadWrite", "ReadObsoleteWrite"}

(* The entries whose original value commit compares with the variable.     *)
IsChecked(e) == e.kind \in {"Read", "ReadWrite"}

LogVar ==
  {e \in [kind : Kinds, orig : Ptr, new : Ptr] :
     (HasReadValue(e) <=> e.orig # Null) /\ (IsWrite(e) <=> e.new # Null)}

-----------------------------------------------------------------------------
(* LogVar::read: what it returns, and the entry it leaves behind.          *)
ReadResult(e) == IF IsWrite(e) THEN e.new ELSE e.orig

(* Bug: an obsolete value is handed out and still not compared at commit.  *)
ReadStaysObsolete(e) == e

ReadUpgrade(e) ==
  [e EXCEPT !.kind = CASE @ = "ReadObsolete"      -> "Read"
                       [] @ = "ReadObsoleteWrite" -> "ReadWrite"
                       [] OTHER                   -> @]

(* Bug: writing to a variable drops the fact that it was read.             *)
WriteForgetsRead(e, w) == Entry("Write", Null, w)

(* Bug: the entry built is not the one for a variable that was read.       *)
WriteOverRead(e, w) == Entry("Write", e.orig, w)

(* LogVar::write, and the insertion of a Write into a vacant key.          *)
WriteUpgrade(e, w) ==
  Entry(CASE e.kind \in {"Vacant", "Write"}                   -> "Write"
          [] e.kind \in {"ReadObsolete", "ReadObsoleteWrite"} -> "ReadObsoleteWrite"
          [] e.kind \in {"Read", "ReadWrite"}                 -> "ReadWrite",
        e.orig, w)

(* LogVar::obsolete: a blocked path keeps its reads and loses its writes.  *)
Obsolete(e) ==
  IF HasReadValue(e) THEN Entry("ReadObsolete", e.orig, Null) ELSE Vacant
=============================================================================
