---------------------------- MODULE LedgerProofs -----------------------------
(*****************************************************************************)
(* Proofs about the ledger: the commands of LedgerCommands, and the closes   *)
(* of BenchmarkSync that the worker beside them stores. Each of the two is   *)
(* proved by itself: they share no variable.                                 *)
(*****************************************************************************)
EXTENDS LedgerCommands, BenchmarkSync, FiniteSetTheorems, TLAPS

-----------------------------------------------------------------------------
(*****************************************************************************)
(* The commands, for any keys, accounts, portfolios, records and bounds.     *)
(*                                                                           *)
(* They fall into four classes: those that advance the versions of some      *)
(* things, the deletion of a portfolio, the deletion of an account, and the  *)
(* repair at the start of the process.                                       *)
(*****************************************************************************)

Kinds == {"account_delete", "import", "stock_command", "mcp_stock_write"}

\* What may be in the tables; the rows of the audit have a version and a key.
LTypes ==
    /\ version \in [Tables -> Nat]
    /\ voided \subseteq Tables
    /\ members \in [Portfolios -> SUBSET Accounts]
    /\ \A r \in audit : r.version \in Nat \ {0} /\ r.by \in Keys \cup {None}
    /\ \A r \in receipts : r.key \in Keys /\ r.proof \in audit
    /\ calls \subseteq [key : Keys, account : Accounts, expected : Nat]
    /\ serving \in BOOLEAN

\* A thing that has rows in the audit and will never be written again.
Retired(t) == IF t.owner = None THEN version[t] = 0 ELSE Deleted(t.owner)

\* No row of the audit is ahead of the version of its thing.
Below == \A r \in audit : r.thing \in Tables =>
             r.version <= version[r.thing] \/ Retired(r.thing)

MembersKnown ==
    \A p \in Portfolios : \A a \in members[p] : Live(a) \/ (~serving /\ Deleted(a))

NonEmpty == \A p \in Portfolios : version[Group(p)] > 0 <=> members[p] # {}

\* The audit row of a stock command has the key of a receipt; a manifest has version 1.
RowsKnown ==
    \A r \in audit :
        /\ r.thing.table \in {"stock_command", "mcp_stock_write"} =>
               \E q \in receipts : q.key = r.thing.id
        /\ r.thing.table = "import" => r.version = 1

\* What a receipt says of the thing its command wrote, as long as that is there.
Shape(intent, proof) ==
    LET t == intent.target
        v == intent.expected + 1
    IN  /\ intent.kind = "account_record" =>
               /\ t \in Tables /\ t.owner # None /\ proof.thing = t
               /\ Deleted(t.owner) \/ version[t] >= v
        /\ intent.kind = "account_delete" =>
               \E a \in Accounts : t = Deletion(a) /\ proof.thing = t
        /\ intent.kind = "import" =>
               \E a \in Accounts :
                   /\ t = Manifest(a) /\ proof.thing = t
                   /\ Deleted(a) \/ (Live(a) /\ version[Record(a, Imported)] > 0)
        /\ intent.kind = "portfolio" =>
               /\ t \in Groups /\ proof.thing = t
               /\ version[t] = 0 \/ (intent.data.action # "delete" /\ version[t] >= v)

ReceiptsKnown == \A r \in receipts : r.intent.expected \in Nat /\ Shape(r.intent, r.proof)

LInv == LTypes /\ Below /\ DeletedGone /\ MembersKnown /\ NonEmpty /\ RowsKnown /\ ReceiptsKnown

-----------------------------------------------------------------------------
(***************************************************************************)
(* Things.                                                                 *)
(***************************************************************************)
\* A thing has the table, the owner and the id it was made of.
LEMMA ThingFields ==
    ASSUME NEW t, NEW a, NEW i
    PROVE  /\ Thing(t, a, i).table = t
           /\ Thing(t, a, i).owner = a
           /\ Thing(t, a, i).id = i
BY DEF Thing

\* Every thing of the ledger has a table, and an owner: its account, or none for a portfolio.
LEMMA TableOf ==
    /\ \A a \in Accounts : /\ Account(a) \in Tables /\ Account(a).owner = a
                           /\ Holdings(a) \in Tables /\ Holdings(a).owner = a
                           /\ Journal(a) \in Tables /\ Journal(a).owner = a
                           /\ \A r \in Records : Record(a, r) \in Tables /\ Record(a, r).owner = a
    /\ \A p \in Portfolios : Group(p) \in Tables /\ Group(p) \in Groups /\ Group(p).owner = None
<1>1. ASSUME NEW a \in Accounts
      PROVE  /\ Account(a) \in Tables /\ Account(a).owner = a
             /\ Holdings(a) \in Tables /\ Holdings(a).owner = a
             /\ Journal(a) \in Tables /\ Journal(a).owner = a
  BY DEF Tables, Account, Holdings, Journal, Thing
<1>2. ASSUME NEW a \in Accounts, NEW r \in Records
      PROVE  Record(a, r) \in Tables /\ Record(a, r).owner = a
  BY DEF Tables, Record, Thing
<1>3. ASSUME NEW p \in Portfolios
      PROVE  Group(p) \in Tables /\ Group(p) \in Groups /\ Group(p).owner = None
  BY DEF Tables, Groups, Group, Thing
<1> QED BY <1>1, <1>2, <1>3

\* What commands and deletions leave in the audit is no thing with versions.
LEMMA NotTables ==
    ASSUME NEW t \in Tables
    PROVE  /\ t.table \notin Kinds
           /\ \A a : t # Deletion(a) /\ t # Manifest(a)
           /\ \A a, k : t # Command(k, a) /\ t # McpWrite(k, a)
BY DEF Tables, Groups, Account, Holdings, Journal, Record, Group, Thing, Kinds,
       Deletion, Manifest, Command, McpWrite

\* Only portfolios have no owner.
LEMMA OwnerOf ==
    ASSUME NEW t \in Tables
    PROVE  \/ t.owner \in Accounts /\ t.owner # None /\ \A p : t # Group(p)
           \/ t.owner = None /\ \E p \in Portfolios : t = Group(p)
BY LedgerAssumption DEF LedgerAssumption, Tables, Groups, Account, Holdings, Journal, Record, Group, Thing

\* Two portfolios are two things.
LEMMA GroupOnce == ASSUME NEW p, NEW q, Group(p) = Group(q) PROVE p = q
BY DEF Group, Thing

\* A row of the audit says of which thing, which version and by which command it is.
LEMMA RowFields ==
    ASSUME NEW t, NEW v, NEW d, NEW k
    PROVE  /\ Row(t, v, d, k).thing = t
           /\ Row(t, v, d, k).version = v
           /\ Row(t, v, d, k).by = k
BY DEF Row

-----------------------------------------------------------------------------
(***************************************************************************)
(* Rows that are appended.                                                 *)
(***************************************************************************)
\* A row of a thing the audit does not know, or of the version after the present one.
IsNew(n) ==
    \/ \A d \in audit : d.thing # n.thing
    \/ n.thing \in Tables /\ ~Retired(n.thing) /\ n.version > version[n.thing]

NewRows(rows) ==
    /\ \A n \in rows : IsNew(n) /\ n.version \in Nat \ {0}
    /\ \A n, d \in rows : n.thing = d.thing /\ n.version = d.version => n = d

\* How a step that appends the rows treats the receipts.
Owning(rows) ==
    \/ UNCHANGED <<receipts, answer>>
    \/ /\ \A o \in receipts : o.key # answer'.key
       /\ receipts' = receipts \cup {answer'}
       /\ \/ /\ answer'.proof \in rows
             /\ \E row \in rows : Once!Answers(row, answer'.intent)
          \/ /\ rows = {}
             /\ answer'.proof \in audit
             /\ Once!Answers(answer'.proof, answer'.intent)
    \/ rows = {} /\ answer' \in receipts /\ UNCHANGED receipts

AppendStep(rows) == audit' = audit \cup rows /\ NewRows(rows) /\ Owning(rows)

\* Rows that are new are of versions the audit has none of: OnceOnly calls them fresh.
LEMMA NewIsFresh ==
    ASSUME LInv, NEW rows, NewRows(rows)
    PROVE  Once!Fresh(rows) /\ rows \cap audit = {}
<1>1. ASSUME NEW n \in rows, NEW d \in audit, n.thing = d.thing, n.version = d.version
      PROVE  FALSE
  <2>1. n.thing \in Tables /\ ~Retired(n.thing) /\ n.version > version[n.thing]
    BY <1>1 DEF NewRows, IsNew
  <2>2. d.version <= version[d.thing]
    BY <1>1, <2>1 DEF LInv, Below
  <2>3. version[n.thing] \in Nat /\ d.version \in Nat
    BY <1>1, <2>1 DEF LInv, LTypes
  <2> QED BY <1>1, <2>1, <2>2, <2>3
<1>2. Once!Fresh(rows)
  BY <1>1 DEF NewRows, Once!Fresh
<1>3. rows \cap audit = {}
  BY <1>1
<1> QED BY <1>2, <1>3

\* A step that appends new rows and owns them is a step of OnceOnly.
LEMMA AppendImplements ==
    ASSUME LInv, NEW rows, AppendStep(rows)
    PROVE  Once!Next
<1>1. Once!Fresh(rows) /\ rows \cap audit = {}
  BY NewIsFresh DEF AppendStep
<1>2. audit \subseteq audit' /\ audit' \ audit = rows
  BY <1>1 DEF AppendStep
<1>3. CASE UNCHANGED <<receipts, answer>>
  BY <1>1, <1>2, <1>3 DEF Once!Next, Once!Maintain
<1>4. CASE /\ \A o \in receipts : o.key # answer'.key
           /\ receipts' = receipts \cup {answer'}
           /\ answer'.proof \in rows
           /\ \E row \in rows : Once!Answers(row, answer'.intent)
  BY <1>1, <1>2, <1>4 DEF Once!Next, Once!Perform, Once!Bind
<1>5. CASE /\ \A o \in receipts : o.key # answer'.key
           /\ receipts' = receipts \cup {answer'}
           /\ rows = {}
           /\ answer'.proof \in audit
           /\ Once!Answers(answer'.proof, answer'.intent)
  BY <1>2, <1>5 DEF Once!Next, Once!Join, Once!Bind, AppendStep
<1>6. CASE rows = {} /\ answer' \in receipts /\ UNCHANGED receipts
  BY <1>6 DEF Once!Next, Once!Repeat, AppendStep
<1> QED BY <1>3, <1>4, <1>5, <1>6 DEF AppendStep, Owning

\* A command that commits with a proof among its rows owns them.
LEMMA CommitOwns ==
    ASSUME NEW k, NEW intent, NEW proof, NEW rows, Begin(k), Commit(k, intent, proof, rows),
           proof \in rows, \E row \in rows : Once!Answers(row, intent)
    PROVE  audit' = audit \cup rows /\ Owning(rows)
<1>1. answer'.key = k /\ answer'.intent = intent /\ answer'.proof = proof
  BY DEF Commit
<1>2. audit' = audit \cup rows /\ receipts' = receipts \cup {answer'}
  BY DEF Commit
<1>3. \A o \in receipts : o.key # answer'.key
  BY <1>1 DEF Begin
<1> QED BY <1>1, <1>2, <1>3 DEF Owning

-----------------------------------------------------------------------------
(***************************************************************************)
(* Steps that preserve the invariant.                                      *)
(***************************************************************************)
\* Versions only grow, but those of a thing that is retired, and stay retired.
Grown ==
    /\ version' \in [Tables -> Nat]
    /\ \A t \in Tables : version'[t] >= version[t] \/ Retired(t)'
    /\ \A t \in Tables :
           t.owner = None /\ version[t] = 0 /\ (\E d \in audit : d.thing = t) => version'[t] = 0

\* The tables have caught up with the rows that are appended.
Reached(rows) ==
    \A n \in rows : n.thing \in Tables => n.version <= version'[n.thing] \/ Retired(n.thing)'

\* The rows are what RowsKnown asks for.
Signed(rows) ==
    \A n \in rows :
        /\ n.by \in Keys \cup {None}
        /\ n.thing.table \in {"stock_command", "mcp_stock_write"} =>
               \E q \in receipts' : q.key = n.thing.id
        /\ n.thing.table = "import" => n.version = 1

\* A receipt that is new says what is so.
Receipted ==
    \A r \in receipts' :
        r \in receipts \/ (/\ r.key \in Keys /\ r.proof \in audit'
                           /\ r.intent.expected \in Nat /\ Shape(r.intent, r.proof)')

\* Portfolios and their members.
Grouped == members \in [Portfolios -> SUBSET Accounts] /\ MembersKnown /\ NonEmpty

Rest ==
    /\ voided \subseteq Tables
    /\ calls \subseteq [key : Keys, account : Accounts, expected : Nat]
    /\ serving \in BOOLEAN

GoodStep(rows) ==
    /\ AppendStep(rows)
    /\ Grown /\ Reached(rows) /\ Signed(rows) /\ Receipted
    /\ DeletedGone' /\ Grouped' /\ Rest'

\* The receipts of a step that appends are kept.
LEMMA ReceiptsKept == ASSUME NEW rows, Owning(rows) PROVE receipts \subseteq receipts'
BY DEF Owning

\* A receipt stays true of a thing whose version grows, or which is retired for good.
LEMMA ShapeKept ==
    ASSUME LInv, Grown, audit \subseteq audit', NEW r \in receipts
    PROVE  Shape(r.intent, r.proof)'
<1> DEFINE t == r.intent.target
           v == r.intent.expected + 1
<1>1. Shape(r.intent, r.proof) /\ r.proof \in audit /\ v \in Nat
  BY DEF LInv, LTypes, ReceiptsKnown
<1>2. \A a : Deleted(a) => Deleted(a)'
  BY DEF Deleted
<1>3. ASSUME NEW s \in Tables, s.owner # None
      PROVE  version'[s] >= version[s] \/ Deleted(s.owner)'
  BY <1>3 DEF Grown, Retired
<1>4. \A s \in Tables : version[s] \in Nat /\ version'[s] \in Nat
  BY DEF LInv, LTypes, Grown
<1>5. r.intent.kind = "account_record" =>
          /\ t \in Tables /\ t.owner # None /\ r.proof.thing = t
          /\ Deleted(t.owner)' \/ version'[t] >= v
  BY <1>1, <1>2, <1>3, <1>4 DEF Shape
<1>6. r.intent.kind = "account_delete" =>
          \E a \in Accounts : t = Deletion(a) /\ r.proof.thing = t
  BY <1>1 DEF Shape
<1>7. r.intent.kind = "import" =>
          \E a \in Accounts :
              /\ t = Manifest(a) /\ r.proof.thing = t
              /\ Deleted(a)' \/ (Live(a)' /\ version'[Record(a, Imported)] > 0)
  <2> SUFFICES ASSUME r.intent.kind = "import",
                      NEW a \in Accounts, t = Manifest(a), r.proof.thing = t,
                      ~Deleted(a), Live(a), version[Record(a, Imported)] > 0
               PROVE  Deleted(a)' \/ (Live(a)' /\ version'[Record(a, Imported)] > 0)
    BY <1>1, <1>2 DEF Shape
  <2>1. /\ Account(a) \in Tables /\ Account(a).owner = a
        /\ Record(a, Imported) \in Tables /\ Record(a, Imported).owner = a /\ a # None
    BY TableOf, LedgerAssumption DEF Records, LedgerAssumption
  <2> QED BY <1>3, <1>4, <2>1 DEF Live
<1>8. r.intent.kind = "portfolio" =>
          /\ t \in Groups /\ r.proof.thing = t
          /\ version'[t] = 0 \/ (r.intent.data.action # "delete" /\ version'[t] >= v)
  <2> SUFFICES ASSUME r.intent.kind = "portfolio"
               PROVE  /\ t \in Groups /\ r.proof.thing = t
                      /\ version'[t] = 0 \/ (r.intent.data.action # "delete" /\ version'[t] >= v)
    OBVIOUS
  <2>1. /\ t \in Groups /\ r.proof.thing = t
        /\ version[t] = 0 \/ (r.intent.data.action # "delete" /\ version[t] >= v)
    BY <1>1 DEF Shape
  <2>2. t \in Tables /\ t.owner = None
    BY <2>1, TableOf DEF Groups
  <2>3. version'[t] >= version[t] \/ version'[t] = 0
    BY <2>2 DEF Grown, Retired
  <2>4. version[t] = 0 => version'[t] = 0
    BY <1>1, <2>1, <2>2 DEF Grown
  <2> QED BY <1>1, <1>4, <2>1, <2>2, <2>3, <2>4
<1> HIDE DEF t, v
<1> QED BY <1>5, <1>6, <1>7, <1>8 DEF Shape, t, v

\* A step of this kind preserves the invariant and is one that OnceOnly allows.
LEMMA GoodStepInv ==
    ASSUME LInv, NEW rows, GoodStep(rows)
    PROVE  LInv' /\ Once!Next
<1>1. audit' = audit \cup rows /\ audit \subseteq audit' /\ receipts \subseteq receipts'
  BY ReceiptsKept DEF GoodStep, AppendStep
<1>2. LTypes'
  BY <1>1 DEF LInv, LTypes, GoodStep, Grown, Grouped, Rest, AppendStep, NewRows, Signed, Receipted
<1>3. Below'
  <2> SUFFICES ASSUME NEW r \in audit', r.thing \in Tables
               PROVE  r.version <= version'[r.thing] \/ Retired(r.thing)'
    BY DEF Below
  <2>1. CASE r \in rows
    BY <2>1 DEF GoodStep, Reached
  <2>2. CASE r \in audit /\ Retired(r.thing)
    BY <1>1, <2>2 DEF Retired, GoodStep, Grown, Deleted
  <2>3. CASE r \in audit /\ r.version <= version[r.thing]
    <3>1. version[r.thing] \in Nat /\ version'[r.thing] \in Nat /\ r.version \in Nat
      BY <2>3 DEF LInv, LTypes, GoodStep, Grown
    <3> QED BY <2>3, <3>1 DEF GoodStep, Grown
  <2> QED BY <1>1, <2>1, <2>2, <2>3 DEF LInv, Below
<1>4. RowsKnown'
  BY <1>1 DEF LInv, RowsKnown, GoodStep, Signed
<1>5. ReceiptsKnown'
  BY <1>1, ShapeKept DEF LInv, ReceiptsKnown, GoodStep, Receipted
<1>6. DeletedGone' /\ MembersKnown' /\ NonEmpty'
  BY DEF GoodStep, Grouped
<1>7. Once!Next
  BY AppendImplements DEF GoodStep
<1> QED BY <1>2, <1>3, <1>4, <1>5, <1>6, <1>7 DEF LInv

\* A command that commits what is so leaves a receipt that says so.
LEMMA CommitReceipts ==
    ASSUME NEW k \in Keys, NEW intent, NEW proof, NEW rows, Commit(k, intent, proof, rows),
           proof \in audit \cup rows, intent.expected \in Nat, Shape(intent, proof)'
    PROVE  Receipted
<1>1. PICK r : r = answer'
  OBVIOUS
<1>2. r.key = k /\ r.intent = intent /\ r.proof = proof
  BY <1>1 DEF Commit
<1>3. receipts' = receipts \cup {r} /\ proof \in audit'
  BY <1>1 DEF Commit
<1> QED BY <1>2, <1>3 DEF Receipted

-----------------------------------------------------------------------------
(***************************************************************************)
(* Commands that advance the versions of some things.                      *)
(***************************************************************************)
\* A thing whose next version may be written.
Writable(t) ==
    IF t.owner = None THEN version[t] > 0 \/ \A d \in audit : d.thing # t
                      ELSE ~Deleted(t.owner)

\* The next version of one of the things, or the first of an entity nobody knows.
RowOf(n, things) ==
    \/ n.thing \in things /\ n.version = version[n.thing] + 1
    \/ n.thing \notin Tables /\ n.version = 1 /\ \A d \in audit : d.thing # n.thing

Advances(things, rows) ==
    /\ things \subseteq Tables
    /\ version' = Advanced(things)
    /\ audit' = audit \cup rows
    /\ \A t \in things : Writable(t)
    /\ \A n \in rows : RowOf(n, things) /\ \A a : n.thing # Deletion(a)
    /\ \A n, d \in rows : n.thing = d.thing => n = d

\* A command that advances the versions of things writes a row of the next version of each,
\* and leaves deleted accounts alone.
LEMMA AdvanceGrows ==
    ASSUME LInv, NEW things, NEW rows, Advances(things, rows)
    PROVE  /\ NewRows(rows) /\ Grown /\ Reached(rows) /\ DeletedGone'
           /\ \A t \in Tables : version'[t] = version[t] + IF t \in things THEN 1 ELSE 0
           /\ \A a : Deleted(a)' <=> Deleted(a)
<1>1. \A t \in Tables : version[t] \in Nat /\ version'[t] = version[t] + IF t \in things THEN 1 ELSE 0
  BY DEF Advances, Advanced, LInv, LTypes
<1>2. \A a : Deleted(a)' <=> Deleted(a)
  BY DEF Advances, Deleted
<1>3. NewRows(rows)
  BY <1>1 DEF Advances, NewRows, RowOf, IsNew, Writable, Retired
<1>4. Grown
  BY <1>1 DEF Advances, Advanced, Grown, Writable
<1>5. Reached(rows)
  BY <1>1 DEF Advances, Reached, RowOf
<1>6. DeletedGone'
  BY <1>1, <1>2, LedgerAssumption DEF Advances, DeletedGone, LInv, Writable, LedgerAssumption
<1> QED BY <1>1, <1>2, <1>3, <1>4, <1>5, <1>6

\* Members keep alive what their portfolio lists: no account is lost on the way.
LEMMA AdvanceGroups ==
    ASSUME LInv, NEW things, NEW rows, Advances(things, rows),
           things \cap Groups = {}, UNCHANGED <<members, serving>>
    PROVE  Grouped'
<1>1. \A t \in Tables : version[t] \in Nat /\ version'[t] = version[t] + IF t \in things THEN 1 ELSE 0
  BY DEF Advances, Advanced, LInv, LTypes
<1>2. \A a : Deleted(a)' <=> Deleted(a)
  BY AdvanceGrows
<1>3. \A a \in Accounts : Live(a) => Live(a)'
  BY <1>1, TableOf DEF Live
<1>4. \A p \in Portfolios : version'[Group(p)] = version[Group(p)]
  BY <1>1, TableOf
<1> QED BY <1>2, <1>3, <1>4 DEF Grouped, LInv, LTypes, MembersKnown, NonEmpty

\* A command that writes one thing of an account, and says so in its receipt.
LEMMA WriteOneGood ==
    ASSUME LInv, NEW k \in Keys, Begin(k), NEW kind \in {"reported_account", "account_profile",
           "account_record", "current_holdings"}, NEW t \in Tables \ Groups, ~Deleted(t.owner),
           NEW v \in Nat, NEW data, WriteOne(k, kind, t, v, data),
           voided' \subseteq Tables, UNCHANGED <<members, calls, serving>>
    PROVE  \E rows : GoodStep(rows)
<1> DEFINE row == Row(t, v + 1, data, k)
<1>1. row.thing = t /\ row.version = v + 1 /\ row.by = k
  BY RowFields
<1>2. t.owner # None /\ t.owner \in Accounts
  BY OwnerOf, TableOf DEF Groups
<1>3. \A a : t # Deletion(a)
  BY NotTables
<1>4. /\ version[t] = v
      /\ Commit(k, Intent(kind, t, v, data), row, {row})
      /\ version' = Advanced({t})
  BY DEF WriteOne
<1>5. audit' = audit \cup {row} /\ Owning({row})
  BY <1>1, <1>4, CommitOwns DEF Once!Answers, Intent
<1> HIDE DEF row
<1>6. Advances({t}, {row})
  BY <1>1, <1>2, <1>3, <1>4, <1>5 DEF Advances, Writable, RowOf
<1>7. /\ NewRows({row}) /\ Grown /\ Reached({row}) /\ DeletedGone'
      /\ version'[t] = v + 1
  BY <1>4, <1>6, AdvanceGrows
<1>8. Grouped'
  BY <1>6, AdvanceGroups
<1>9. Signed({row})
  BY <1>1, NotTables DEF Signed, Kinds
<1>10. Receipted
  <2>1. Shape(Intent(kind, t, v, data), row)'
    BY <1>1, <1>2, <1>7 DEF Shape, Intent
  <2> QED BY <1>4, <2>1, CommitReceipts DEF Intent
<1>11. Rest'
  BY DEF Rest, LInv, LTypes
<1> QED BY <1>5, <1>7, <1>8, <1>9, <1>10, <1>11 DEF GoodStep, AppendStep

\* The rows of things whose next version is written: one each.
LEMMA WrittenRows ==
    ASSUME NEW things, NEW data, NEW k
    PROVE  /\ \A n \in Written(things, data, k) :
                  n.thing \in things /\ n.version = version[n.thing] + 1 /\ n.by = k
           /\ \A n, d \in Written(things, data, k) : n.thing = d.thing => n = d
           /\ \A t \in things : \E n \in Written(things, data, k) :
                  n.thing = t /\ n.version = version[t] + 1
<1>1. ASSUME NEW n \in Written(things, data, k)
      PROVE  /\ n.thing \in things /\ n.version = version[n.thing] + 1 /\ n.by = k
             /\ n = Row(n.thing, version[n.thing] + 1, data, k)
  <2>1. PICK t \in things : n = Row(t, version[t] + 1, data, k)
    BY <1>1 DEF Written
  <2> QED BY <2>1, RowFields
<1>2. ASSUME NEW t \in things
      PROVE  \E n \in Written(things, data, k) : n.thing = t /\ n.version = version[t] + 1
  <2>1. Row(t, version[t] + 1, data, k) \in Written(things, data, k)
    BY DEF Written
  <2> QED BY <2>1, RowFields
<1> QED BY <1>1, <1>2

\* What an account that lives owns may be written.
LEMMA LiveWritable ==
    ASSUME LInv, NEW a \in Accounts, Live(a)
    PROVE  /\ ~Deleted(a)
           /\ Writable(Account(a)) /\ Writable(Holdings(a)) /\ Writable(Journal(a))
           /\ \A r \in Records : Writable(Record(a, r))
<1>1. ~Deleted(a)
  BY TableOf DEF LInv, DeletedGone, Live
<1> QED BY <1>1, TableOf, LedgerAssumption DEF Writable, LedgerAssumption

\* Nothing of an account is a portfolio.
LEMMA NotGroups ==
    ASSUME NEW a \in Accounts
    PROVE  /\ Account(a) \notin Groups /\ Holdings(a) \notin Groups /\ Journal(a) \notin Groups
           /\ \A r : Record(a, r) \notin Groups
BY DEF Groups, Group, Account, Holdings, Journal, Record, Thing

\* A stock command, by HTTP or by MCP, writes the holdings, the journal and an entity
\* of its key, which is used once.
LEMMA ApplyStockGood ==
    ASSUME LInv, NEW k \in Keys, Begin(k), NEW kind \in {"stock_command", "mcp_stock_write"},
           NEW a \in Accounts, NEW v \in Nat,
           ApplyStock(k, kind, a, v, Row(Thing(kind, a, k), 1, Did("create"), k)),
           UNCHANGED <<voided, members, calls, serving>>
    PROVE  \E rows : GoodStep(rows)
<1> DEFINE things == {Holdings(a), Journal(a)}
           proof == Row(Thing(kind, a, k), 1, Did("create"), k)
           intent == Intent(kind, Holdings(a), v, Did("create"))
<1>1. PICK rows : rows = {proof} \cup Written(things, Did("replace"), k)
  OBVIOUS
<1>2. Live(a) /\ version[Holdings(a)] = v /\ version' = Advanced(things) /\ Commit(k, intent, proof, rows)
  BY <1>1 DEF ApplyStock
<1>3. /\ proof.thing.table = kind /\ proof.thing.id = k
      /\ proof.version = 1 /\ proof.by = k
  BY RowFields, ThingFields
<1>4. intent.target = Holdings(a) /\ intent.expected = v /\ intent.kind = kind
  BY DEF Intent
<1> HIDE DEF proof, intent
<1>5. proof.thing \notin Tables /\ \A d \in audit : d.thing # proof.thing
  <2>1. proof.thing \notin Tables
    BY <1>3, NotTables DEF Kinds
  <2>2. ASSUME NEW d \in audit, d.thing = proof.thing PROVE FALSE
    BY <2>2, <1>3 DEF LInv, RowsKnown, Begin
  <2> QED BY <2>1, <2>2
<1>6. things \subseteq Tables /\ things \cap Groups = {}
  BY TableOf, NotGroups
<1>7. \A n \in rows : \/ n = proof
                      \/ n.thing \in things /\ n.version = version[n.thing] + 1 /\ n.by = k
  BY <1>1, WrittenRows
<1>8. \A n, d \in rows : n.thing = d.thing => n = d
  <2> HIDE DEF things
  <2> QED BY <1>1, <1>5, <1>6, WrittenRows
<1>9. audit' = audit \cup rows /\ Owning(rows)
  <2>1. \E n \in rows : Once!Answers(n, intent)
    BY <1>1, <1>2, <1>4, WrittenRows DEF Once!Answers
  <2> QED BY <1>1, <1>2, <2>1, CommitOwns
<1>10. \A n \in rows : \A b : n.thing # Deletion(b)
  BY <1>3, <1>6, <1>7, NotTables, ThingFields DEF Deletion
<1>11. Advances(things, rows)
  BY <1>2, <1>3, <1>5, <1>6, <1>7, <1>8, <1>9, <1>10, LiveWritable DEF Advances, RowOf
<1>12. NewRows(rows) /\ Grown /\ Reached(rows) /\ DeletedGone' /\ Grouped'
  BY <1>6, <1>11, AdvanceGrows, AdvanceGroups
<1>13. Signed(rows)
  <2>1. PICK q : q = answer'
    OBVIOUS
  <2>2. q \in receipts' /\ q.key = k
    BY <1>2, <2>1 DEF Commit
  <2> QED BY <1>3, <1>6, <1>7, <2>2, NotTables DEF Signed, Kinds
<1>14. Receipted
  <2>1. Shape(intent, proof)'
    BY <1>4 DEF Shape
  <2> QED BY <1>1, <1>2, <1>4, <2>1, CommitReceipts
<1>15. Rest'
  BY DEF Rest, LInv, LTypes
<1> QED BY <1>9, <1>12, <1>13, <1>14, <1>15 DEF GoodStep, AppendStep

\* The dividend worker writes without a key.
LEMMA SyncDividendsGood ==
    ASSUME LInv, NEW a \in Accounts, SyncDividends(a)
    PROVE  \E rows : GoodStep(rows)
<1> DEFINE things == {Holdings(a), Journal(a)}
<1>1. PICK rows : rows = Written(things, Did("replace"), None)
  OBVIOUS
<1>2. things \subseteq Tables /\ things \cap Groups = {}
  BY TableOf, NotGroups
<1>3. \A n \in rows : n.thing \in things /\ n.version = version[n.thing] + 1 /\ n.by = None
  BY <1>1, WrittenRows
<1>4. Advances(things, rows)
  <2>1. \A t \in things : Writable(t)
    BY LiveWritable DEF SyncDividends
  <2>2. version' = Advanced(things) /\ audit' = audit \cup rows
    BY <1>1 DEF SyncDividends
  <2> HIDE DEF things
  <2>3. \A n, d \in rows : n.thing = d.thing => n = d
    BY <1>1, WrittenRows
  <2> QED BY <1>2, <1>3, <2>1, <2>2, <2>3, NotTables DEF Advances, RowOf
<1>5. NewRows(rows) /\ Grown /\ Reached(rows) /\ DeletedGone' /\ Grouped'
  BY <1>2, <1>4, AdvanceGrows, AdvanceGroups DEF SyncDividends
<1>6. Signed(rows)
  BY <1>2, <1>3, NotTables DEF Signed, Kinds
<1>7. Owning(rows) /\ audit' = audit \cup rows
  BY <1>1 DEF SyncDividends, Owning
<1>8. Receipted /\ Rest'
  BY DEF SyncDividends, Receipted, Rest, LInv, LTypes
<1> QED BY <1>5, <1>6, <1>7, <1>8 DEF GoodStep, AppendStep

\* An import writes the manifest, the record and, if it is to, the account.
LEMMA ConfirmImportGood ==
    ASSUME LInv, NEW k \in Keys, NEW a \in Accounts, NEW d, NEW create \in BOOLEAN,
           ConfirmImport(k, a, d, create)
    PROVE  \E rows : GoodStep(rows)
<1> DEFINE things == {Record(a, Imported)} \cup IF create THEN {Account(a)} ELSE {}
           proof == Row(Manifest(a), 1, [digest |-> d, create |-> create], k)
           intent == ImportIntent(a, d, create)
<1>1. PICK rows : rows = {proof} \cup Written(things, Did("create"), k)
  OBVIOUS
<1>2. /\ Begin(k) /\ ~Deleted(a) /\ Manifests(a) = {}
      /\ version' = Advanced(things) /\ Commit(k, intent, proof, rows)
      /\ UNCHANGED <<voided, members, calls, serving>>
  BY <1>1 DEF ConfirmImport
<1>3. create = TRUE \/ Live(a)
  <2>1. Live(a) # create
    BY DEF ConfirmImport
  <2>2. Live(a) \in BOOLEAN
    BY DEF Live
  <2> QED BY <2>1, <2>2
<1>4. proof.thing = Manifest(a) /\ proof.version = 1 /\ proof.by = k
  BY RowFields
<1>5. intent.target = Manifest(a) /\ intent.expected = 0 /\ intent.kind = "import"
  BY DEF ImportIntent, Intent
<1>6. /\ Record(a, Imported) \in Tables /\ Account(a) \in Tables
      /\ Record(a, Imported) \notin Groups /\ Account(a) \notin Groups
      /\ Record(a, Imported).owner = a /\ Account(a).owner = a /\ a # None
  BY TableOf, NotGroups, LedgerAssumption DEF Records, LedgerAssumption
<1>7. things \subseteq Tables /\ things \cap Groups = {} /\ \A t \in things : Writable(t)
  BY <1>2, <1>6 DEF Writable
<1> HIDE DEF proof, intent
<1>8. proof.thing \notin Tables /\ \A r \in audit : r.thing # proof.thing
  BY <1>2, <1>4, NotTables DEF Manifests
<1>9. \A n \in rows : \/ n = proof
                      \/ n.thing \in things /\ n.version = version[n.thing] + 1 /\ n.by = k
  BY <1>1, WrittenRows
<1>10. \A n, m \in rows : n.thing = m.thing => n = m
  <2> HIDE DEF things
  <2> QED BY <1>1, <1>7, <1>8, WrittenRows
<1>11. audit' = audit \cup rows /\ Owning(rows)
  <2>1. proof \in rows /\ Once!Answers(proof, intent)
    BY <1>1, <1>4, <1>5 DEF Once!Answers
  <2> QED BY <1>2, <2>1, CommitOwns
<1>12. \A n \in rows : \A b : n.thing # Deletion(b)
  BY <1>4, <1>7, <1>9, NotTables DEF Deletion, Manifest, Thing
<1>13. Advances(things, rows)
  BY <1>2, <1>4, <1>7, <1>8, <1>9, <1>10, <1>11, <1>12 DEF Advances, RowOf
<1>14. /\ NewRows(rows) /\ Grown /\ Reached(rows) /\ DeletedGone' /\ Grouped'
       /\ \A t \in Tables : version'[t] = version[t] + IF t \in things THEN 1 ELSE 0
  BY <1>2, <1>7, <1>13, AdvanceGrows, AdvanceGroups
<1>15. Signed(rows)
  BY <1>4, <1>7, <1>9, NotTables DEF Signed, Kinds, Manifest, Thing
<1>16. Receipted
  <2>1. version[Account(a)] \in Nat /\ version[Record(a, Imported)] \in Nat
    BY <1>6 DEF LInv, LTypes
  <2>2. version'[Record(a, Imported)] > 0
    BY <1>6, <1>14, <2>1
  <2>3. version'[Account(a)] > 0
    <3>1. CASE create = TRUE
      BY <3>1, <1>6, <1>14, <2>1
    <3>2. CASE Live(a)
      BY <3>2, <1>6, <1>14, <2>1 DEF Live
    <3> QED BY <3>1, <3>2, <1>3
  <2>4. Shape(intent, proof)'
    BY <1>4, <1>5, <2>2, <2>3 DEF Shape, Live
  <2> QED BY <1>1, <1>2, <1>5, <2>4, CommitReceipts
<1>17. Rest'
  BY <1>2 DEF Rest, LInv, LTypes
<1> QED BY <1>11, <1>14, <1>15, <1>16, <1>17 DEF GoodStep, AppendStep

\* A step that leaves the tables and the audit alone.
LEMMA IdleGood ==
    ASSUME LInv, UNCHANGED <<version, members, audit>>, Owning({}), Receipted, Rest',
           serving' => serving
    PROVE  \E rows : GoodStep(rows)
<1>1. NewRows({}) /\ Reached({}) /\ Signed({})
  BY DEF NewRows, Reached, Signed
<1>2. Grown /\ DeletedGone' /\ Grouped'
  BY DEF Grown, Grouped, LInv, LTypes, DeletedGone, Deleted, MembersKnown, NonEmpty, Live
<1>3. audit' = audit \cup {}
  OBVIOUS
<1> QED BY <1>1, <1>2, <1>3 DEF GoodStep, AppendStep

\* The second key of an import gets the manifest of the first.
LEMMA ConfirmImportAgainGood ==
    ASSUME LInv, NEW k \in Keys, NEW a \in Accounts, NEW d, NEW create \in BOOLEAN,
           ConfirmImportAgain(k, a, d, create)
    PROVE  \E rows : GoodStep(rows)
<1> DEFINE intent == ImportIntent(a, d, create)
<1>1. PICK row \in Manifests(a) : version[Record(a, Imported)] > 0 /\ Commit(k, intent, row, {})
  BY DEF ConfirmImportAgain
<1>2. row \in audit /\ row.thing = Manifest(a) /\ row.version = 1
  BY <1>1, ThingFields DEF Manifests, LInv, RowsKnown, Manifest
<1>3. intent.target = Manifest(a) /\ intent.expected = 0 /\ intent.kind = "import"
  BY DEF ImportIntent, Intent
<1> HIDE DEF intent
<1>4. Owning({})
  <2>1. PICK r : r = answer'
    OBVIOUS
  <2>2. r.key = k /\ r.intent = intent /\ r.proof = row /\ receipts' = receipts \cup {r}
    BY <1>1, <2>1 DEF Commit
  <2>3. Begin(k)
    BY DEF ConfirmImportAgain
  <2>4. Once!Answers(row, intent)
    BY <1>2, <1>3 DEF Once!Answers
  <2> QED BY <1>2, <2>1, <2>2, <2>3, <2>4 DEF Owning, Begin
<1>5. Receipted
  <2>1. Shape(intent, row)'
    BY <1>1, <1>2, <1>3 DEF Shape, ConfirmImportAgain, Live
  <2> QED BY <1>1, <1>2, <1>3, <2>1, CommitReceipts
<1> QED BY <1>1, <1>4, <1>5, IdleGood DEF ConfirmImportAgain, Commit, Rest, LInv, LTypes

-----------------------------------------------------------------------------
(***************************************************************************)
(* Portfolios.                                                             *)
(***************************************************************************)
LEMMA GroupRow ==
    ASSUME NEW p \in Portfolios, NEW v, NEW data, NEW k
    PROVE  LET row == Row(Group(p), v, data, k)
           IN  /\ row.thing = Group(p) /\ row.version = v /\ row.by = k
               /\ row.thing.table = "portfolio" /\ row.thing \in Tables /\ row.thing.owner = None
               /\ \A a : row.thing # Deletion(a)
BY RowFields, TableOf, NotTables, ThingFields DEF Group

\* A portfolio is created under an id nobody has used, or replaced while it exists, and
\* lists accounts that live.
LEMMA WritePortfolioGood ==
    ASSUME LInv, NEW k \in Keys, Begin(k), NEW p \in Portfolios, NEW v \in Nat,
           NEW accounts \in SUBSET Accounts, NEW action \in {"create", "replace"},
           accounts # {}, \A a \in accounts : Live(a), v > 0 \/ ~Used(p),
           WriteOne(k, "portfolio", Group(p), v, PortfolioData(action, accounts)),
           members' = [members EXCEPT ![p] = accounts], UNCHANGED <<voided, calls, serving>>
    PROVE  \E rows : GoodStep(rows)
<1> DEFINE data == PortfolioData(action, accounts)
           row == Row(Group(p), v + 1, data, k)
           intent == Intent("portfolio", Group(p), v, data)
<1>1. /\ version[Group(p)] = v /\ version' = Advanced({Group(p)}) /\ Commit(k, intent, row, {row})
  BY DEF WriteOne
<1>2. /\ row.thing = Group(p) /\ row.version = v + 1 /\ row.by = k
      /\ row.thing.table = "portfolio" /\ Group(p) \in Tables /\ Group(p).owner = None
      /\ Group(p) \in Groups /\ \A a : row.thing # Deletion(a)
  BY GroupRow, TableOf
<1>3. /\ intent.target = Group(p) /\ intent.expected = v /\ intent.kind = "portfolio"
      /\ intent.data.action # "delete"
  BY DEF Intent, PortfolioData
<1> HIDE DEF row, intent
<1>4. audit' = audit \cup {row} /\ Owning({row})
  BY <1>1, <1>2, <1>3, CommitOwns DEF Once!Answers
<1>5. Writable(Group(p))
  BY <1>1, <1>2 DEF Writable, Used
<1>6. Advances({Group(p)}, {row})
  BY <1>1, <1>2, <1>4, <1>5 DEF Advances, RowOf
<1>7. /\ NewRows({row}) /\ Grown /\ Reached({row}) /\ DeletedGone'
      /\ \A t \in Tables : version'[t] = version[t] + IF t \in {Group(p)} THEN 1 ELSE 0
      /\ \A a : Deleted(a)' <=> Deleted(a)
  BY <1>6, AdvanceGrows
<1>8. Grouped'
  <2>7. \A t \in Tables : version[t] \in Nat /\ version'[t] = IF t = Group(p) THEN v + 1 ELSE version[t]
    <3>1. \A t \in Tables : version[t] \in Nat
      BY DEF LInv, LTypes
    <3>2. ASSUME NEW t \in Tables, t = Group(p) PROVE version'[t] = v + 1
      <4>1. version'[t] = version[t] + 1
        BY <1>7, <3>2
      <4> QED BY <1>1, <3>2, <4>1
    <3>3. ASSUME NEW t \in Tables, t # Group(p) PROVE version'[t] = version[t]
      BY <1>7, <3>1, <3>3
    <3> QED BY <3>1, <3>2, <3>3
  <2>1. \A a \in Accounts : Live(a) => Live(a)'
    BY <1>2, <2>7, TableOf, NotGroups DEF Live
  <2>2. \A q \in Portfolios : version'[Group(q)] = IF q = p THEN v + 1 ELSE version[Group(q)]
    BY <2>7, TableOf, GroupOnce
  <2>3. members' \in [Portfolios -> SUBSET Accounts]
    BY DEF LInv, LTypes
  <2>4. \A q \in Portfolios : members'[q] = IF q = p THEN accounts ELSE members[q]
    BY DEF LInv, LTypes
  <2>5. MembersKnown'
    BY <1>7, <2>1, <2>3, <2>4 DEF MembersKnown, LInv, LTypes
  <2>6. NonEmpty'
    BY <2>2, <2>4 DEF NonEmpty, LInv
  <2> QED BY <2>3, <2>5, <2>6 DEF Grouped
<1>9. Signed({row})
  BY <1>2 DEF Signed
<1>10. Receipted
  <2>1. version'[Group(p)] >= v + 1
    BY <1>1, <1>2, <1>7
  <2>2. Shape(intent, row)'
    BY <1>2, <1>3, <2>1 DEF Shape
  <2> QED BY <1>1, <1>3, <2>2, CommitReceipts
<1>11. Rest'
  BY DEF Rest, LInv, LTypes
<1> QED BY <1>4, <1>7, <1>8, <1>9, <1>10, <1>11 DEF GoodStep, AppendStep

\* A portfolio that is deleted is retired: its version is 0 and its id is used.
LEMMA DeletePortfolioGood ==
    ASSUME LInv, NEW k \in Keys, NEW p \in Portfolios, NEW v \in Nat, DeletePortfolio(k, p, v)
    PROVE  \E rows : GoodStep(rows)
<1> DEFINE data == PortfolioData("delete", {})
           row == Row(Group(p), v + 1, data, k)
           intent == Intent("portfolio", Group(p), v, data)
<1>1. /\ Begin(k) /\ v > 0 /\ version[Group(p)] = v
      /\ version' = [version EXCEPT ![Group(p)] = 0]
      /\ members' = [members EXCEPT ![p] = {}]
      /\ Commit(k, intent, row, {row}) /\ UNCHANGED <<voided, calls, serving>>
  BY DEF DeletePortfolio
<1>2. /\ row.thing = Group(p) /\ row.version = v + 1 /\ row.by = k
      /\ row.thing.table = "portfolio" /\ Group(p) \in Tables /\ Group(p).owner = None
      /\ Group(p) \in Groups /\ \A a : row.thing # Deletion(a)
  BY GroupRow, TableOf
<1>3. intent.target = Group(p) /\ intent.expected = v /\ intent.kind = "portfolio"
  BY DEF Intent
<1> HIDE DEF row, intent
<1>4. audit' = audit \cup {row} /\ Owning({row})
  BY <1>1, <1>2, <1>3, CommitOwns DEF Once!Answers
<1>5. \A a : Deleted(a)' <=> Deleted(a)
  BY <1>2, <1>4 DEF Deleted
<1>6. /\ \A t \in Tables : version[t] \in Nat /\ version'[t] = IF t = Group(p) THEN 0 ELSE version[t]
      /\ version' \in [Tables -> Nat]
  BY <1>1, <1>2 DEF LInv, LTypes
<1>7. NewRows({row}) /\ Reached({row}) /\ Signed({row})
  BY <1>1, <1>2, <1>6 DEF NewRows, IsNew, Reached, Signed, Retired
<1>8. Grown
  BY <1>2, <1>6 DEF Grown, Retired
<1>9. DeletedGone'
  BY <1>5, <1>6 DEF DeletedGone, LInv
<1>10. Grouped'
  <2>1. \A a \in Accounts : Live(a) => Live(a)'
    BY <1>2, <1>6, TableOf, NotGroups DEF Live
  <2>2. \A q \in Portfolios : version'[Group(q)] = IF q = p THEN 0 ELSE version[Group(q)]
    BY <1>6, TableOf, GroupOnce
  <2>3. members' \in [Portfolios -> SUBSET Accounts]
    BY <1>1 DEF LInv, LTypes
  <2>4. \A q \in Portfolios : members'[q] = IF q = p THEN {} ELSE members[q]
    BY <1>1 DEF LInv, LTypes
  <2>5. MembersKnown'
    BY <1>1, <1>5, <2>1, <2>3, <2>4 DEF MembersKnown, LInv, LTypes
  <2>6. NonEmpty'
    BY <2>2, <2>4 DEF NonEmpty, LInv
  <2> QED BY <2>3, <2>5, <2>6 DEF Grouped
<1>11. Receipted
  <2>1. version'[Group(p)] = 0
    BY <1>2, <1>6
  <2>2. Shape(intent, row)'
    BY <1>2, <1>3, <2>1 DEF Shape
  <2> QED BY <1>1, <1>3, <2>2, CommitReceipts
<1>12. Rest'
  BY <1>1 DEF Rest, LInv, LTypes
<1> QED BY <1>4, <1>7, <1>8, <1>9, <1>10, <1>11, <1>12 DEF GoodStep, AppendStep

-----------------------------------------------------------------------------
(***************************************************************************)
(* The deletion of an account, and the repair at the start of the process. *)
(***************************************************************************)
\* What a deletion makes of the versions: those of the account are gone, a portfolio
\* that lists it goes on by one, or is retired when it lists nobody else.
LEMMA VersionsAfterDelete ==
    ASSUME LInv, NEW a \in Accounts, version' = VersionsWithout(a)
    PROVE  /\ version' \in [Tables -> Nat]
           /\ \A t \in Tables : t.owner = a => version'[t] = 0
           /\ \A t \in Tables : t.owner # a /\ t.owner # None => version'[t] = version[t]
           /\ \A p \in Portfolios :
                  /\ p \in MemberOf(a) /\ members[p] = {a} => version'[Group(p)] = 0
                  /\ p \in MemberOf(a) /\ members[p] # {a} => version'[Group(p)] = version[Group(p)] + 1
                  /\ p \notin MemberOf(a) => version'[Group(p)] = version[Group(p)]
<1>1. a # None /\ \A t \in Tables : version[t] \in Nat
  BY LedgerAssumption DEF LedgerAssumption, LInv, LTypes
<1>2. \A p \in MemberOf(a) : p \in Portfolios
  BY DEF MemberOf
<1>3. ASSUME NEW t \in Tables, t.owner = a PROVE version'[t] = 0
  BY <1>3 DEF VersionsWithout
<1>4. ASSUME NEW t \in Tables, t.owner # a, t.owner # None PROVE version'[t] = version[t]
  BY <1>2, <1>4, TableOf DEF VersionsWithout
<1>5. ASSUME NEW p \in Portfolios
      PROVE  /\ p \in MemberOf(a) /\ members[p] = {a} => version'[Group(p)] = 0
             /\ p \in MemberOf(a) /\ members[p] # {a} => version'[Group(p)] = version[Group(p)] + 1
             /\ p \notin MemberOf(a) => version'[Group(p)] = version[Group(p)]
  <2>1. Group(p) \in Tables /\ Group(p).owner # a
    BY <1>1, TableOf
  <2>2. \A q : Group(p) = Group(q) => p = q
    BY GroupOnce
  <2> QED BY <2>1, <2>2 DEF VersionsWithout
<1>6. version' \in [Tables -> Nat]
  BY <1>1 DEF VersionsWithout
<1> QED BY <1>3, <1>4, <1>5, <1>6

\* A deletion retires everything the account owns, and takes it out of its portfolios.
LEMMA DeleteAccountGood ==
    ASSUME LInv, NEW k \in Keys, NEW a \in Accounts, DeleteAccount(k, a)
    PROVE  \E rows : GoodStep(rows)
<1> DEFINE row == Row(Deletion(a), 1, Did("delete"), k)
           intent == Intent("account_delete", Deletion(a), 0, Did("delete"))
<1>1. PICK rows : rows = {row} \cup Removal(a, k)
  OBVIOUS
<1>2. /\ Begin(k) /\ Live(a) /\ version' = VersionsWithout(a)
      /\ members' = [p \in Portfolios |-> IF p \in MemberOf(a) THEN members[p] \ {a} ELSE members[p]]
      /\ voided' = {t \in voided : t.owner # a}
      /\ Commit(k, intent, row, rows) /\ UNCHANGED <<calls, serving>>
  BY <1>1 DEF DeleteAccount
<1>3. row.thing = Deletion(a) /\ row.version = 1 /\ row.by = k
  BY RowFields
<1>4. intent.target = Deletion(a) /\ intent.expected = 0 /\ intent.kind = "account_delete"
  BY DEF Intent
<1> HIDE DEF row, intent
<1>5. ~Deleted(a) /\ a # None
  BY <1>2, LiveWritable, LedgerAssumption DEF LedgerAssumption
<1>6. ASSUME NEW n \in rows, n # row
      PROVE  \E p \in MemberOf(a) :
                 /\ p \in Portfolios /\ n.thing = Group(p)
                 /\ n.version = version[Group(p)] + 1 /\ n.by = k
                 /\ n = Row(Group(p), version[Group(p)] + 1,
                            Did(IF members[p] = {a} THEN "delete" ELSE "replace"), k)
  <2>1. PICK p \in MemberOf(a) :
            n = Row(Group(p), version[Group(p)] + 1,
                    Did(IF members[p] = {a} THEN "delete" ELSE "replace"), k)
    BY <1>1, <1>6 DEF Removal
  <2> QED BY <2>1, RowFields DEF MemberOf
<1>7. audit' = audit \cup rows /\ Owning(rows)
  <2>1. row \in rows /\ Once!Answers(row, intent)
    BY <1>1, <1>3, <1>4 DEF Once!Answers
  <2> QED BY <1>2, <2>1, CommitOwns
<1>8. \A b : Deleted(b)' <=> Deleted(b) \/ b = a
  <2>1. \A b : Deletion(b) = Deletion(a) => b = a
    BY DEF Deletion, Thing
  <2>2. \A n \in rows : n # row => \A b : n.thing # Deletion(b)
    BY <1>6, TableOf, NotTables
  <2>3. row \in rows
    BY <1>1
  <2> QED BY <1>3, <1>7, <2>1, <2>2, <2>3 DEF Deleted
<1>9. NewRows(rows)
  <2>1. \A d \in audit : d.thing # row.thing
    BY <1>3, <1>5 DEF Deleted
  <2>2. ASSUME NEW n \in rows, n # row
        PROVE  IsNew(n) /\ n.version \in Nat \ {0} /\ n.thing # row.thing
    <3>1. PICK p \in MemberOf(a) : p \in Portfolios /\ n.thing = Group(p) /\ n.version = version[Group(p)] + 1
      BY <1>6, <2>2
    <3>2. Group(p) \in Tables /\ Group(p).owner = None /\ version[Group(p)] \in Nat
      BY <3>1, TableOf DEF LInv, LTypes
    <3>3. version[Group(p)] > 0
      BY <3>1 DEF MemberOf
    <3> QED BY <1>3, <3>1, <3>2, <3>3, NotTables DEF IsNew, Retired
  <2>3. ASSUME NEW n \in rows, NEW m \in rows, n.thing = m.thing PROVE n = m
    <3>1. CASE n = row \/ m = row
      BY <2>2, <2>3, <3>1
    <3>2. CASE n # row /\ m # row
      BY <1>6, <2>3, <3>2, GroupOnce
    <3> QED BY <3>1, <3>2
  <2> QED BY <1>3, <2>1, <2>2, <2>3 DEF NewRows, IsNew
<1>10. Grown
  <2>1. \A t \in Tables : version[t] \in Nat /\ version'[t] \in Nat
    BY <1>2, VersionsAfterDelete DEF LInv, LTypes
  <2>2. ASSUME NEW p \in Portfolios
        PROVE  /\ version'[Group(p)] >= version[Group(p)] \/ version'[Group(p)] = 0
               /\ version[Group(p)] = 0 => version'[Group(p)] = 0
    <3>1. version[Group(p)] \in Nat /\ version'[Group(p)] \in Nat
      BY <2>1, TableOf
    <3>2. version[Group(p)] = 0 => p \notin MemberOf(a)
      BY DEF MemberOf
    <3> QED BY <1>2, <3>1, <3>2, VersionsAfterDelete
  <2>3. ASSUME NEW t \in Tables PROVE version'[t] >= version[t] \/ Retired(t)'
    <3>1. CASE t.owner = a
      BY <1>5, <1>8, <3>1 DEF Retired
    <3>2. CASE t.owner # a /\ t.owner # None
      BY <1>2, <2>1, <3>2, VersionsAfterDelete
    <3>3. CASE t.owner = None
      BY <2>2, <3>3, OwnerOf DEF Retired
    <3> QED BY <3>1, <3>2, <3>3
  <2>4. ASSUME NEW t \in Tables, t.owner = None, version[t] = 0 PROVE version'[t] = 0
    BY <2>2, <2>4, OwnerOf
  <2> QED BY <1>2, <2>3, <2>4, VersionsAfterDelete DEF Grown
<1>11. Reached(rows) /\ Signed(rows)
  <2>1. row.thing \notin Tables /\ row.thing.table = "account_delete"
    BY <1>3, NotTables, ThingFields DEF Deletion
  <2>2. ASSUME NEW n \in rows, n # row
        PROVE  /\ n.version <= version'[n.thing] \/ Retired(n.thing)'
               /\ n.by = k /\ n.thing.table = "portfolio"
    <3>1. PICK p \in MemberOf(a) : /\ p \in Portfolios /\ n.thing = Group(p)
                                   /\ n.version = version[Group(p)] + 1 /\ n.by = k
      BY <1>6, <2>2
    <3>2. Group(p) \in Tables /\ Group(p).owner = None /\ version[Group(p)] \in Nat
      BY <3>1, TableOf DEF LInv, LTypes
    <3>3. Group(p).table = "portfolio"
      BY ThingFields DEF Group
    <3> QED BY <1>2, <3>1, <3>2, <3>3, VersionsAfterDelete DEF Retired
  <2> QED BY <1>3, <2>1, <2>2 DEF Reached, Signed
<1>12. DeletedGone'
  <2> SUFFICES ASSUME NEW b \in Accounts, Deleted(b)', NEW t \in Tables, t.owner = b
               PROVE  version'[t] = 0
    BY DEF DeletedGone
  <2>1. b # None
    BY LedgerAssumption DEF LedgerAssumption
  <2> QED BY <1>2, <1>8, <2>1, VersionsAfterDelete DEF LInv, DeletedGone
<1>13. Grouped'
  <2>1. members' \in [Portfolios -> SUBSET Accounts]
    BY <1>2 DEF LInv, LTypes
  <2>2. \A p \in Portfolios : a \notin members'[p]
    BY <1>2 DEF MemberOf, LInv, NonEmpty
  <2>3. \A b \in Accounts : b # a /\ Live(b) => Live(b)'
    BY <1>2, TableOf, LedgerAssumption, VersionsAfterDelete DEF Live, LedgerAssumption
  <2>4. serving /\ serving'
    BY <1>2 DEF Begin
  <2>5. MembersKnown'
    <3> SUFFICES ASSUME NEW p \in Portfolios, NEW b \in members'[p] PROVE Live(b)'
      BY DEF MembersKnown
    <3>1. b \in members[p] /\ b # a /\ b \in Accounts
      BY <1>2, <2>2 DEF LInv, LTypes
    <3> QED BY <2>3, <2>4, <3>1 DEF LInv, MembersKnown
  <2>6. ASSUME NEW p \in Portfolios PROVE version'[Group(p)] > 0 <=> members'[p] # {}
    <3>1. version[Group(p)] \in Nat /\ (version[Group(p)] > 0 <=> members[p] # {})
      BY TableOf DEF LInv, LTypes, NonEmpty
    <3>2. CASE p \notin MemberOf(a)
      BY <1>2, <3>1, <3>2, VersionsAfterDelete
    <3>3. CASE p \in MemberOf(a) /\ members[p] = {a}
      BY <1>2, <3>1, <3>3, VersionsAfterDelete
    <3>4. CASE p \in MemberOf(a) /\ members[p] # {a}
      <4>1. members'[p] = members[p] \ {a} /\ a \in members[p]
        BY <1>2, <3>4 DEF MemberOf
      <4>2. version'[Group(p)] = version[Group(p)] + 1
        BY <1>2, <3>4, VersionsAfterDelete
      <4> QED BY <3>1, <3>4, <4>1, <4>2
    <3> QED BY <3>2, <3>3, <3>4
  <2>7. NonEmpty'
    BY <2>6 DEF NonEmpty
  <2> QED BY <2>1, <2>5, <2>7 DEF Grouped
<1>14. Receipted
  <2>1. Shape(intent, row)'
    BY <1>3, <1>4 DEF Shape
  <2> QED BY <1>1, <1>2, <1>4, <2>1, CommitReceipts
<1>15. Rest'
  BY <1>2 DEF Rest, LInv, LTypes
<1> QED BY <1>7, <1>9, <1>10, <1>11, <1>12, <1>13, <1>14, <1>15 DEF GoodStep, AppendStep

\* How many members a repair removes.
LEMMA GoneFinite ==
    ASSUME LInv, NEW p \in Portfolios
    PROVE  /\ Cardinality(Gone(p)) \in Nat
           /\ Gone(p) \subseteq members[p]
           /\ p \in Broken => Cardinality(Gone(p)) > 0
<1>1. Gone(p) \subseteq members[p] /\ Gone(p) \subseteq Accounts
  BY DEF Gone, LInv, LTypes
<1>2. IsFiniteSet(Gone(p))
  BY <1>1, LedgerAssumption, FS_Subset DEF LedgerAssumption
<1>3. Cardinality(Gone(p)) \in Nat
  BY <1>2, FS_CardinalityType
<1>4. p \in Broken => Cardinality(Gone(p)) # 0
  BY <1>2, FS_EmptySet DEF Broken
<1> QED BY <1>1, <1>3, <1>4

\* What the repair makes of the versions.
LEMMA VersionsAfterOpen ==
    ASSUME LInv, version' = VersionsRepaired
    PROVE  /\ version' \in [Tables -> Nat]
           /\ \A t \in Tables : t.owner # None => version'[t] = version[t]
           /\ \A p \in Portfolios :
                  /\ p \in Broken /\ Gone(p) = members[p] => version'[Group(p)] = 0
                  /\ p \in Broken /\ Gone(p) # members[p] =>
                         version'[Group(p)] = version[Group(p)] + Cardinality(Gone(p))
                  /\ p \notin Broken => version'[Group(p)] = version[Group(p)]
<1>1. \A t \in Tables : version[t] \in Nat
  BY DEF LInv, LTypes
<1>2. \A p \in Broken : p \in Portfolios
  BY DEF Broken
<1>3. ASSUME NEW t \in Tables, t.owner # None PROVE version'[t] = version[t]
  BY <1>2, <1>3, TableOf DEF VersionsRepaired
<1>4. ASSUME NEW p \in Portfolios
      PROVE  /\ p \in Broken /\ Gone(p) = members[p] => version'[Group(p)] = 0
             /\ p \in Broken /\ Gone(p) # members[p] =>
                    version'[Group(p)] = version[Group(p)] + Cardinality(Gone(p))
             /\ p \notin Broken => version'[Group(p)] = version[Group(p)]
  <2>1. Group(p) \in Tables
    BY TableOf
  <2>2. \A q : Group(p) = Group(q) => p = q
    BY GroupOnce
  <2>3. p \in Broken => (CHOOSE q \in Broken : Group(p) = Group(q)) = p
    BY <2>2
  <2> QED BY <2>1, <2>2, <2>3 DEF VersionsRepaired
<1>5. ASSUME NEW t \in Tables PROVE version'[t] \in Nat
  <2>1. CASE t.owner # None
    BY <1>1, <1>3, <2>1
  <2>2. CASE t.owner = None
    <3>1. PICK p \in Portfolios : t = Group(p)
      BY <2>2, OwnerOf
    <3> QED BY <1>1, <1>4, <3>1, GoneFinite
  <2> QED BY <2>1, <2>2
<1>6. version' \in [Tables -> Nat]
  BY <1>5 DEF VersionsRepaired
<1> QED BY <1>3, <1>4, <1>6

\* The repair appends a row for every member it removes, each with a version of its own.
LEMMA OpenGood ==
    ASSUME LInv, Open
    PROVE  \E rows : GoodStep(rows)
<1>1. PICK rows : rows = Repairs
  OBVIOUS
<1>2. /\ version' = VersionsRepaired /\ audit' = audit \cup rows /\ serving' = TRUE
      /\ members' = [p \in Portfolios |-> members[p] \ Gone(p)]
      /\ UNCHANGED <<voided, receipts, calls, answer>>
  BY <1>1 DEF Open
<1>3. \A n \in rows : \E p \in Broken, i \in Nat :
          /\ i \in 1 .. Cardinality(Gone(p))
          /\ n.thing = Group(p) /\ n.version = version[Group(p)] + i /\ n.by = None
          /\ n = Row(Group(p), version[Group(p)] + i,
                     Did(IF i = Cardinality(members[p]) THEN "delete" ELSE "replace"), None)
  BY <1>1, RowFields DEF Repairs
<1>4. \A p \in Broken : /\ p \in Portfolios /\ Group(p) \in Tables /\ Group(p).owner = None
                        /\ Group(p).table = "portfolio"
                        /\ version[Group(p)] \in Nat /\ version[Group(p)] > 0
                        /\ Cardinality(Gone(p)) \in Nat
  BY TableOf, ThingFields, GoneFinite DEF Broken, LInv, LTypes, Group
<1>5. \A a : Deleted(a)' <=> Deleted(a)
  BY <1>2, <1>3, <1>4, NotTables DEF Deleted
<1>6. NewRows(rows)
  <2>1. \A n \in rows : IsNew(n) /\ n.version \in Nat \ {0}
    BY <1>3, <1>4 DEF IsNew, Retired
  <2>2. ASSUME NEW n \in rows, NEW m \in rows, n.thing = m.thing, n.version = m.version
        PROVE  n = m
    <3>1. PICK p \in Broken, i \in Nat :
              /\ i \in 1 .. Cardinality(Gone(p))
              /\ n.thing = Group(p) /\ n.version = version[Group(p)] + i
              /\ n = Row(Group(p), version[Group(p)] + i,
                         Did(IF i = Cardinality(members[p]) THEN "delete" ELSE "replace"), None)
      BY <1>3
    <3>2. PICK q \in Broken, j \in Nat :
              /\ j \in 1 .. Cardinality(Gone(q))
              /\ m.thing = Group(q) /\ m.version = version[Group(q)] + j
              /\ m = Row(Group(q), version[Group(q)] + j,
                         Did(IF j = Cardinality(members[q]) THEN "delete" ELSE "replace"), None)
      BY <1>3
    <3>3. p = q
      BY <2>2, <3>1, <3>2, GroupOnce
    <3>4. i = j
      <4>1. version[Group(p)] + i = version[Group(p)] + j
        BY <2>2, <3>1, <3>2, <3>3
      <4>2. version[Group(p)] \in Nat
        BY <1>4
      <4> QED BY <4>1, <4>2
    <3> QED BY <3>1, <3>2, <3>3, <3>4
  <2> QED BY <2>1, <2>2 DEF NewRows
<1>7. Reached(rows)
  <2> SUFFICES ASSUME NEW n \in rows
               PROVE  n.version <= version'[n.thing] \/ Retired(n.thing)'
    BY DEF Reached
  <2>1. PICK p \in Broken, i \in Nat :
            i \in 1 .. Cardinality(Gone(p)) /\ n.thing = Group(p) /\ n.version = version[Group(p)] + i
    BY <1>3
  <2>2. CASE Gone(p) = members[p]
    BY <1>2, <1>4, <2>1, <2>2, VersionsAfterOpen DEF Retired
  <2>3. CASE Gone(p) # members[p]
    BY <1>2, <1>4, <2>1, <2>3, VersionsAfterOpen
  <2> QED BY <2>2, <2>3
<1>8. Signed(rows)
  BY <1>3, <1>4 DEF Signed
<1>9. Grown
  <2>1. ASSUME NEW p \in Portfolios
        PROVE  /\ version'[Group(p)] >= version[Group(p)] \/ version'[Group(p)] = 0
               /\ version[Group(p)] = 0 => version'[Group(p)] = 0
    <3>1. version[Group(p)] \in Nat
      BY TableOf DEF LInv, LTypes
    <3> QED BY <1>2, <1>4, <3>1, VersionsAfterOpen
  <2>2. ASSUME NEW t \in Tables PROVE version'[t] >= version[t] \/ Retired(t)'
    <3>1. CASE t.owner # None
      BY <1>2, <3>1, VersionsAfterOpen DEF LInv, LTypes
    <3>2. CASE t.owner = None
      BY <2>1, <3>2, OwnerOf DEF Retired
    <3> QED BY <3>1, <3>2
  <2>3. ASSUME NEW t \in Tables, t.owner = None, version[t] = 0 PROVE version'[t] = 0
    BY <2>1, <2>3, OwnerOf
  <2> QED BY <1>2, <2>2, <2>3, VersionsAfterOpen DEF Grown
<1>10. DeletedGone'
  BY <1>2, <1>5, VersionsAfterOpen, LedgerAssumption DEF DeletedGone, LInv, LedgerAssumption
<1>11. Grouped'
  <2>1. members' \in [Portfolios -> SUBSET Accounts]
    BY <1>2 DEF LInv, LTypes
  <2>2. \A a \in Accounts : Live(a) => Live(a)'
    BY <1>2, TableOf, VersionsAfterOpen, LedgerAssumption DEF Live, LedgerAssumption
  <2>3. MembersKnown'
    <3> SUFFICES ASSUME NEW p \in Portfolios, NEW a \in members'[p] PROVE Live(a)'
      BY DEF MembersKnown
    <3>1. a \in members[p] /\ a \notin Gone(p) /\ a \in Accounts
      BY <1>2 DEF LInv, LTypes
    <3>2. Live(a)
      BY <3>1 DEF LInv, MembersKnown, Gone
    <3> QED BY <2>2, <3>1, <3>2
  <2>4. ASSUME NEW p \in Portfolios PROVE version'[Group(p)] > 0 <=> members'[p] # {}
    <3>1. /\ version[Group(p)] \in Nat /\ (version[Group(p)] > 0 <=> members[p] # {})
          /\ members'[p] = members[p] \ Gone(p) /\ Gone(p) \subseteq members[p]
      BY <1>2, TableOf, GoneFinite DEF LInv, LTypes, NonEmpty
    <3>2. CASE p \notin Broken
      <4>1. Gone(p) = {}
        BY <3>1, <3>2 DEF Broken
      <4> QED BY <1>2, <3>1, <3>2, <4>1, VersionsAfterOpen
    <3>3. CASE p \in Broken /\ Gone(p) = members[p]
      BY <1>2, <3>1, <3>3, VersionsAfterOpen
    <3>4. CASE p \in Broken /\ Gone(p) # members[p]
      <4>1. members'[p] # {}
        BY <3>1, <3>4
      <4>2. version'[Group(p)] = version[Group(p)] + Cardinality(Gone(p))
        BY <1>2, <3>4, VersionsAfterOpen
      <4>3. version[Group(p)] > 0 /\ Cardinality(Gone(p)) \in Nat
        BY <1>4, <3>4
      <4> QED BY <3>1, <4>1, <4>2, <4>3
    <3> QED BY <3>2, <3>3, <3>4
  <2> QED BY <2>1, <2>3, <2>4 DEF Grouped, NonEmpty
<1>12. Owning(rows) /\ Receipted /\ Rest'
  BY <1>2 DEF Owning, Receipted, Rest, LInv, LTypes
<1> QED BY <1>2, <1>6, <1>7, <1>8, <1>9, <1>10, <1>11, <1>12 DEF GoodStep, AppendStep

-----------------------------------------------------------------------------
(***************************************************************************)
(* Every step.                                                             *)
(***************************************************************************)
\* The commands on one account: its creation, its name, its records, its holdings.
LEMMA AccountCommandGood ==
    ASSUME LInv, NEW k \in Keys, NEW a \in Accounts, NEW v \in Nat,
           \/ CreateReportedAccount(k, a)
           \/ UpdateAccountName(k, a, v)
           \/ PutCurrentHoldings(k, a, v)
           \/ \E r \in Records : CreateRecord(k, a, r)
           \/ \E r \in Records, action \in {"replace", "void"} : ReviseRecord(k, a, r, v, action)
    PROVE  \E rows : GoodStep(rows)
<1>1. /\ Account(a) \in Tables \ Groups /\ Account(a).owner = a
      /\ Holdings(a) \in Tables \ Groups /\ Holdings(a).owner = a
      /\ \A r \in Records : Record(a, r) \in Tables \ Groups /\ Record(a, r).owner = a
  BY TableOf, NotGroups
<1>2. Live(a) => ~Deleted(a)
  BY LiveWritable
<1>3. voided \subseteq Tables
  BY DEF LInv, LTypes
<1>4. CASE CreateReportedAccount(k, a)
  BY <1>1, <1>3, <1>4, WriteOneGood DEF CreateReportedAccount
<1>5. CASE UpdateAccountName(k, a, v)
  BY <1>1, <1>2, <1>3, <1>5, WriteOneGood DEF UpdateAccountName
<1>6. CASE PutCurrentHoldings(k, a, v)
  BY <1>1, <1>2, <1>3, <1>6, WriteOneGood DEF PutCurrentHoldings
<1>7. ASSUME NEW r \in Records, CreateRecord(k, a, r) PROVE \E rows : GoodStep(rows)
  BY <1>1, <1>2, <1>3, <1>7, WriteOneGood DEF CreateRecord
<1>8. ASSUME NEW r \in Records, NEW action \in {"replace", "void"}, ReviseRecord(k, a, r, v, action)
      PROVE  \E rows : GoodStep(rows)
  <2>1. voided' \subseteq Tables
    BY <1>1, <1>3, <1>8 DEF ReviseRecord
  <2> QED BY <1>1, <1>2, <1>8, <2>1, WriteOneGood DEF ReviseRecord
<1> QED BY <1>4, <1>5, <1>6, <1>7, <1>8

\* Stock commands, by HTTP and by MCP: the second transaction of an MCP write finds the
\* account as it is then, whatever it was when the call was looked up.
LEMMA StockCommandGood ==
    ASSUME LInv, NEW k \in Keys, NEW a \in Accounts, NEW v \in Nat,
           \/ WriteStock(k, a, v)
           \/ \E c \in calls : c.key = k /\ c.account = a /\ c.expected = v /\ McpCommit(c)
    PROVE  \E rows : GoodStep(rows)
<1>1. CASE WriteStock(k, a, v)
  BY <1>1, ApplyStockGood DEF WriteStock, Command
<1>2. ASSUME NEW c \in calls, c.key = k, c.account = a, c.expected = v, McpCommit(c)
      PROVE  \E rows : GoodStep(rows)
  BY <1>2, ApplyStockGood DEF McpCommit, McpWrite
<1> QED BY <1>1, <1>2

\* Steps that write nothing.
LEMMA QuietGood ==
    ASSUME LInv,
           \/ Stop
           \/ \E c \in calls : McpEnd(c)
           \/ \E k \in Keys, a \in Accounts, v \in Nat : McpLookup(k, a, v)
           \/ \E k \in Keys : \E intent : Replay(k, intent)
    PROVE  \E rows : GoodStep(rows)
<1>1. CASE Stop
  BY <1>1, IdleGood DEF Stop, Owning, Receipted, Rest, LInv, LTypes
<1>2. ASSUME NEW c \in calls, McpEnd(c) PROVE \E rows : GoodStep(rows)
  BY <1>2, IdleGood DEF McpEnd, Owning, Receipted, Rest, LInv, LTypes
<1>3. ASSUME NEW k \in Keys, NEW a \in Accounts, NEW v \in Nat, McpLookup(k, a, v)
      PROVE  \E rows : GoodStep(rows)
  BY <1>3, IdleGood DEF McpLookup, Owning, Receipted, Rest, LInv, LTypes
<1>4. ASSUME NEW k \in Keys, NEW intent, Replay(k, intent) PROVE \E rows : GoodStep(rows)
  BY <1>4, IdleGood DEF Replay, Owning, Receipted, Rest, LInv, LTypes
<1> QED BY <1>1, <1>2, <1>3, <1>4

\* Every step of the ledger is a good one.
LEMMA NextGood ==
    ASSUME LInv, Next
    PROVE  \E rows : GoodStep(rows)
<1>1. Versions \subseteq Nat /\ Manual \subseteq Records
  BY LedgerAssumption DEF Versions, Records, LedgerAssumption
<1>2. CASE Open \/ Stop \/ \E c \in calls : McpEnd(c)
  BY <1>2, OpenGood, QuietGood
<1>3. ASSUME NEW a \in Accounts, SyncDividends(a) PROVE \E rows : GoodStep(rows)
  BY <1>3, SyncDividendsGood
<1>4. ASSUME NEW c \in calls, McpCommit(c) PROVE \E rows : GoodStep(rows)
  <2>1. c.key \in Keys /\ c.account \in Accounts /\ c.expected \in Nat
    BY DEF LInv, LTypes
  <2> QED BY <1>4, <2>1, StockCommandGood
<1>5. ASSUME NEW k \in Keys, NEW a \in Accounts,
             CreateReportedAccount(k, a) \/ DeleteAccount(k, a)
      PROVE  \E rows : GoodStep(rows)
  BY <1>5, AccountCommandGood, DeleteAccountGood
<1>6. ASSUME NEW k \in Keys, NEW a \in Accounts, NEW v \in Versions,
             \/ UpdateAccountName(k, a, v) \/ PutCurrentHoldings(k, a, v)
             \/ WriteStock(k, a, v) \/ McpLookup(k, a, v)
             \/ \E r \in Records, action \in {"replace", "void"} : ReviseRecord(k, a, r, v, action)
      PROVE  \E rows : GoodStep(rows)
  BY <1>1, <1>6, AccountCommandGood, StockCommandGood, QuietGood
<1>7. ASSUME NEW k \in Keys, NEW a \in Accounts, NEW r \in Manual, CreateRecord(k, a, r)
      PROVE  \E rows : GoodStep(rows)
  <2>1. r \in Records /\ 0 \in Nat
    BY <1>1
  <2> QED BY <1>7, <2>1, AccountCommandGood
<1>8. ASSUME NEW k \in Keys, NEW a \in Accounts, NEW d, NEW create \in BOOLEAN,
             ConfirmImport(k, a, d, create) \/ ConfirmImportAgain(k, a, d, create)
      PROVE  \E rows : GoodStep(rows)
  BY <1>8, ConfirmImportGood, ConfirmImportAgainGood
<1>9. ASSUME NEW k \in Keys, NEW p \in Portfolios, NEW v \in Versions, DeletePortfolio(k, p, v)
      PROVE  \E rows : GoodStep(rows)
  BY <1>1, <1>9, DeletePortfolioGood
<1>10. ASSUME NEW k \in Keys, NEW p \in Portfolios, NEW v \in Versions,
              NEW accounts \in (SUBSET Accounts) \ {{}},
              CreatePortfolio(k, p, accounts) \/ ReplacePortfolio(k, p, v, accounts)
       PROVE  \E rows : GoodStep(rows)
  <2>1. CASE CreatePortfolio(k, p, accounts)
    BY <1>10, <2>1, WritePortfolioGood DEF CreatePortfolio
  <2>2. CASE ReplacePortfolio(k, p, v, accounts)
    BY <1>1, <1>10, <2>2, WritePortfolioGood DEF ReplacePortfolio
  <2> QED BY <1>10, <2>1, <2>2
<1>11. ASSUME NEW k \in Keys, NEW r \in receipts, Replay(k, r.intent)
       PROVE  \E rows : GoodStep(rows)
  BY <1>11, QuietGood
<1> QED BY <1>2, <1>3, <1>4, <1>5, <1>6, <1>7, <1>8, <1>9, <1>10, <1>11 DEF Next

\* The invariant is preserved, and a step of the ledger is one of OnceOnly.
LEMMA StepLInv == LInv /\ [Next]_vars => LInv' /\ [Once!Next]_<<audit, receipts, answer>>
<1>1. CASE LInv /\ Next
  <2>1. PICK rows : GoodStep(rows)
    BY <1>1, NextGood
  <2> QED BY <1>1, <2>1, GoodStepInv
<1>2. CASE LInv /\ UNCHANGED vars
  <2>1. LInv'
    BY <1>2 DEF vars, LInv, LTypes, Below, Retired, DeletedGone, Deleted, MembersKnown,
       NonEmpty, RowsKnown, ReceiptsKnown, Shape, Live
  <2> QED BY <1>2, <2>1 DEF vars
<1> QED BY <1>1, <1>2

\* What an earlier version of the program may have left behind satisfies the invariant.
LEMMA InitLInv == Init => LInv /\ Once!Init
<1> SUFFICES ASSUME Init PROVE LInv /\ Once!Init
  OBVIOUS
<1>1. PICK live \in SUBSET Accounts, dead \in SUBSET Accounts, list \in [Portfolios -> SUBSET Accounts] :
          /\ live \cap dead = {}
          /\ \A p \in Portfolios : list[p] \subseteq live \cup dead
          /\ version = [t \in Tables |->
                            IF \/ \E a \in live : t = Account(a)
                               \/ \E p \in Portfolios : t = Group(p) /\ list[p] # {}
                            THEN 1 ELSE 0]
          /\ voided = {} /\ members = list
          /\ audit = {Row(Account(a), 1, Did("create"), None) : a \in live \cup dead}
                       \cup {Row(Deletion(a), 1, Did("delete"), None) : a \in dead}
                       \cup {Row(Group(p), 1, Did("create"), None) : p \in {q \in Portfolios : list[q] # {}}}
          /\ receipts = {} /\ calls = {} /\ serving = FALSE /\ answer = None
  BY ZenonT(60) DEF Init
<1>2. \A n \in audit :
          /\ n.version = 1 /\ n.by = None
          /\ \/ \E a \in live \cup dead : n = Row(Account(a), 1, Did("create"), None) /\ n.thing = Account(a)
             \/ \E a \in dead : n = Row(Deletion(a), 1, Did("delete"), None) /\ n.thing = Deletion(a)
             \/ \E p \in Portfolios : /\ list[p] # {} /\ n.thing = Group(p)
                                      /\ n = Row(Group(p), 1, Did("create"), None)
  BY <1>1, RowFields
<1>3. \A a : Deleted(a) <=> a \in dead
  <2>1. ASSUME NEW a, Deleted(a) PROVE a \in dead
    <3>1. PICK n \in audit : n.thing = Deletion(a)
      BY <2>1 DEF Deleted
    <3>2. \A b : Deletion(b) = Deletion(a) => b = a
      BY DEF Deletion, Thing
    <3>3. \A b : Deletion(a) # Account(b) /\ Deletion(a) # Group(b)
      BY DEF Deletion, Account, Group, Thing
    <3> QED BY <1>2, <3>1, <3>2, <3>3
  <2>2. ASSUME NEW a \in dead PROVE Deleted(a)
    BY <1>1, RowFields DEF Deleted
  <2> QED BY <2>1, <2>2
<1>4. /\ \A a \in Accounts : version[Account(a)] = IF a \in live THEN 1 ELSE 0
      /\ \A p \in Portfolios : version[Group(p)] = IF list[p] # {} THEN 1 ELSE 0
      /\ \A t \in Tables : version[t] \in {0, 1}
      /\ \A t \in Tables : t.owner # None /\ t.owner \notin live => version[t] = 0
  <2>1. \A a, b : Account(a) = Account(b) => a = b
    BY DEF Account, Thing
  <2>2. \A a, p : Account(a) # Group(p)
    BY DEF Account, Group, Thing
  <2>3. \A p, q : Group(p) = Group(q) => p = q
    BY GroupOnce
  <2>4. \A a \in Accounts : version[Account(a)] = IF a \in live THEN 1 ELSE 0
    BY <1>1, <2>1, <2>2, TableOf
  <2>5. \A p \in Portfolios : version[Group(p)] = IF list[p] # {} THEN 1 ELSE 0
    BY <1>1, <2>2, <2>3, TableOf
  <2>6. \A t \in Tables : t.owner # None /\ t.owner \notin live => version[t] = 0
    BY <1>1, TableOf
  <2>7. \A t \in Tables : version[t] \in {0, 1}
    BY <1>1
  <2> QED BY <2>4, <2>5, <2>6, <2>7
<1>5. LTypes
  <2>1. version \in [Tables -> Nat]
    BY <1>1
  <2>2. members \in [Portfolios -> SUBSET Accounts] /\ voided = {} /\ receipts = {} /\ calls = {} /\ serving = FALSE
    BY <1>1
  <2>3. \A r \in audit : r.version \in Nat \ {0} /\ r.by \in Keys \cup {None}
    BY <1>2
  <2> QED BY <2>1, <2>2, <2>3 DEF LTypes
<1>6. DeletedGone
  BY <1>1, <1>3, <1>4, LedgerAssumption DEF DeletedGone, LedgerAssumption
<1>7. Below
  <2> SUFFICES ASSUME NEW n \in audit, n.thing \in Tables
               PROVE  n.version <= version[n.thing] \/ Retired(n.thing)
    BY DEF Below
  <2>1. ASSUME NEW a \in live \cup dead, n.thing = Account(a)
        PROVE  n.version <= version[n.thing] \/ Retired(n.thing)
    <3>1. a \in Accounts /\ Account(a).owner = a /\ a # None
      BY TableOf, LedgerAssumption DEF LedgerAssumption
    <3> QED BY <1>2, <1>3, <1>4, <2>1, <3>1 DEF Retired
  <2>2. ASSUME NEW p \in Portfolios, list[p] # {}, n.thing = Group(p)
        PROVE  n.version <= version[n.thing]
    BY <1>2, <1>4, <2>2
  <2>3. \A a : n.thing # Deletion(a)
    BY NotTables
  <2> QED BY <1>2, <2>1, <2>2, <2>3
<1>8. MembersKnown
  BY <1>1, <1>3, <1>4 DEF MembersKnown, Live
<1>9. NonEmpty
  <2>1. members = list
    BY <1>1
  <2>2. \A p \in Portfolios : version[Group(p)] > 0 <=> list[p] # {}
    BY <1>4
  <2> QED BY <2>1, <2>2 DEF NonEmpty
<1>10. RowsKnown
  <2>1. \A a : /\ Account(a).table = "account" /\ Deletion(a).table = "account_delete"
               /\ Group(a).table = "portfolio"
    BY ThingFields DEF Account, Deletion, Group
  <2> QED BY <1>2, <2>1 DEF RowsKnown
<1>11. ReceiptsKnown
  BY <1>1 DEF ReceiptsKnown
<1>12. Once!Init
  <2>1. ASSUME NEW n \in audit, NEW d \in audit, n.thing = d.thing PROVE n = d
    <3>1. \A a, b : /\ Account(a) = Account(b) => a = b
                    /\ Deletion(a) = Deletion(b) => a = b
                    /\ Account(a) # Deletion(b) /\ Account(a) # Group(b) /\ Deletion(a) # Group(b)
      BY DEF Account, Deletion, Group, Thing
    <3>2. \A p, q : Group(p) = Group(q) => p = q
      BY GroupOnce
    <3> QED BY <1>2, <2>1, <3>1, <3>2
  <2> QED BY <1>1, <2>1 DEF Once!Init, Once!Fresh
<1> QED BY <1>5, <1>6, <1>7, <1>8, <1>9, <1>10, <1>11, <1>12 DEF LInv

\* The invariant holds throughout.
LEMMA LInvAlways == Spec => []LInv
<1>1. Init => LInv
  BY InitLInv
<1>2. LInv /\ [Next]_vars => LInv'
  BY StepLInv
<1> QED BY <1>1, <1>2, PTL DEF Spec

-----------------------------------------------------------------------------
(***************************************************************************)
(* Results.                                                                *)
(***************************************************************************)
\* What is stored about a thing, a key or a call has the shape its reader expects, and a
\* portfolio has a row if and only if it has members.
THEOREM Typing == Spec => []TypeOK
<1>1. LInv => TypeOK
  BY DEF LInv, LTypes, NonEmpty, TypeOK
<1> QED BY <1>1, LInvAlways, PTL

\* A deleted account stays deleted: no command, retry, call in flight or worker leaves a
\* row of it behind or takes its id again (DeleteAccount, removeAccountFromPortfolios).
THEOREM DeletedStaysGone == Spec => []DeletedGone
<1>1. LInv => DeletedGone
  BY DEF LInv
<1> QED BY <1>1, LInvAlways, PTL

\* A store that serves has no portfolio with an account that does not exist
\* (reconcileDeletedPortfolioMembers, and the checks of the portfolio commands).
THEOREM MembersExist == Spec => []MembersLive
<1>1. LInv => MembersLive
  BY DEF LInv, MembersKnown, MembersLive
<1> QED BY <1>1, LInvAlways, PTL

\* A receipt whose account, or portfolio, exists stays provable: a retry is not answered
\* as corrupt data (loadReceipt and the validations of receipt_integrity.go).
THEOREM ReceiptsStayProvable == Spec => []ReceiptsStand
<1>1. LInv => ReceiptsStand
  <2> SUFFICES ASSUME LInv, NEW r \in receipts, ~Erased(r),
                      r.intent.kind \notin {"reported_account", "account_profile"},
                      ~(r.intent.kind = "portfolio" /\ version[r.intent.target] = 0)
               PROVE  Proven(r)
    BY DEF ReceiptsStand
  <2>1. Shape(r.intent, r.proof) /\ r.proof \in audit
    BY DEF LInv, LTypes, ReceiptsKnown
  <2>2. CASE r.intent.kind = "account_record"
    BY <2>1, <2>2 DEF Shape, Proven, Erased
  <2>3. CASE r.intent.kind = "account_delete"
    <3>1. PICK a \in Accounts : r.intent.target = Deletion(a) /\ r.proof.thing = Deletion(a)
      BY <2>1, <2>3 DEF Shape
    <3>2. ~Live(a) /\ Deletion(a).owner = a
      BY <2>1, <3>1, TableOf, ThingFields DEF LInv, DeletedGone, Deleted, Live, Deletion
    <3> QED BY <2>1, <2>3, <3>1, <3>2 DEF Proven
  <2>4. CASE r.intent.kind = "import"
    <3>1. PICK a \in Accounts :
              /\ r.intent.target = Manifest(a) /\ r.proof.thing = Manifest(a)
              /\ Deleted(a) \/ (Live(a) /\ version[Record(a, Imported)] > 0)
      BY <2>1, <2>4 DEF Shape
    <3>2. Manifest(a).owner = a /\ a # None
      BY ThingFields, LedgerAssumption DEF Manifest, LedgerAssumption
    <3> QED BY <2>1, <2>4, <3>1, <3>2 DEF Proven, Erased, Manifests
  <2>5. CASE r.intent.kind = "portfolio"
    BY <2>1, <2>5 DEF Shape, Proven
  <2>6. CASE r.intent.kind \notin {"account_record", "account_delete", "import", "portfolio"}
    BY <2>1, <2>6 DEF Proven
  <2> QED BY <2>2, <2>3, <2>4, <2>5, <2>6
<1> QED BY <1>1, LInvAlways, PTL

\* The ledger implements OnceOnly: a key stands for one command, which is performed once,
\* at the version its author saw, together with its receipt, and no version of a thing is
\* written twice.
THEOREM CommandsOnceOnly == Spec => ImplementsOnceOnly
<1>1. Init => Once!Init
  BY InitLInv
<1>2. LInv /\ [Next]_vars => [Once!Next]_<<audit, receipts, answer>>
  BY StepLInv
<1>3. Spec => Once!Init /\ [][Once!Next]_<<audit, receipts, answer>>
  BY <1>1, <1>2, LInvAlways, PTL DEF Spec
<1> QED BY <1>3 DEF ImplementsOnceOnly, Once!Spec, Once!vars

-----------------------------------------------------------------------------
(*****************************************************************************)
(* The closes of a benchmark, for any trading days, accounts, windows and    *)
(* bounds.                                                                   *)
(*                                                                           *)
(* BInv: what is stored has been covered, and as long as no outage outlasts   *)
(* the refreshed days a close that is covered and not stored is young. That  *)
(* is true of every moment only because a refresh asks again for all days    *)
(* whose closes may have been late at the refresh before it.                 *)
(*                                                                           *)
(* CInv: windows, ranges and plans are of the past, and the windows reach to *)
(* the last refresh. What the gaps are follows from an induction over the    *)
(* windows that are passed.                                                  *)
(*                                                                           *)
(* RInv: what a reader knows between its queries.                            *)
(*****************************************************************************)

\* The days that readers take for holidays, though the source knows their closes.
Lost == {d \in Covered \cap published : d \notin closes}

TickShape ==
    tick # Idle =>
        /\ tick = [at |-> tick.at, range |-> tick.range, plan |-> tick.plan, items |-> tick.items]
        /\ tick.at \in {"refresh", "asking", "gaps"}
        /\ tick.at = "refresh" => tick.plan \in Seq([from : Int, to : Int])

Types ==
    /\ now \in Nat \ {0} /\ slot \in Nat /\ refreshed \in Nat
    /\ published \subseteq Trading
    /\ earliest \in AssetDays \cup {Nil}
    /\ TickShape
    /\ steady \in BOOLEAN

\* A tick belongs to the slot it began in and sees at most the next; a refresh belongs to
\* the past, and is not long ago once something is covered, if no outage was long.
Clock ==
    /\ refreshed <= now
    /\ tick # Idle => refreshed <= slot /\ slot <= now /\ now <= slot + 1
    /\ tick # Idle /\ coverage = {} => refreshed = slot
    /\ steady /\ coverage # {} => Day(now) - Day(refreshed) <= MaxOutage

\* A close is published within Lag days.
Punctual == \A d \in Trading : d + Lag < Day(now) => d \in published

\* What has been fetched is of the window, and short of young closes only.
FetchedWhole ==
    tick # Idle /\ tick.items # Nil =>
        /\ tick.items \subseteq Days(Head(tick.plan))
        /\ \A d \in Days(Head(tick.plan)) \cap published : d \notin tick.items => d + Lag >= Day(slot)

\* What is stored was fetched.
StoredIsCovered == closes \subseteq Covered

\* What is lost appeared after the last refresh, or is about to be asked for again.
LostIsYoung == steady => \A d \in Lost : d + Lag >= Day(refreshed)
LostIsPlanned ==
    steady /\ tick # Idle /\ tick.at = "refresh" =>
        \A d \in Lost : d + Lag < Day(slot) =>
            \E n \in DOMAIN tick.plan : d \in Days(tick.plan[n])

BInv == Types /\ Clock /\ Punctual /\ FetchedWhole /\ StoredIsCovered /\ LostIsYoung /\ LostIsPlanned

-----------------------------------------------------------------------------
(***************************************************************************)
(* Days, ticks and windows.                                                *)
(***************************************************************************)
\* The assumption, one constant at a time.
LEMMA Constants ==
    /\ Trading \subseteq Nat \ {0} /\ AssetDays \subseteq Nat \ {0}
    /\ Refresh \in Nat \ {0} /\ Lookback \in Nat \ {0} /\ WindowDays \in Nat \ {0}
    /\ Lag \in Nat /\ MaxOutage \in Nat \ {0} /\ Nil \notin Nat
    /\ Refresh < WindowDays /\ MaxOutage + Lag <= Refresh /\ MaxOutage + Lag <= Lookback
BY BenchmarkAssumption DEF BenchmarkAssumption

\* Days follow the slots.
LEMMA DayOfSlot ==
    /\ \A s \in Nat : Day(s) \in Nat /\ (s > 0 => Day(s) > 0) /\ Day(s + 1) \in Day(s) .. Day(s) + 1
    /\ \A s, t \in Nat : s <= t => Day(s) <= Day(t)
    /\ \A s, t \in Nat : s <= t /\ t <= s + 1 => Day(t) <= Day(s) + 1
BY DEF Day

\* A tick is not idle, and its fields are what it was made of.
LEMMA TickFields ==
    ASSUME NEW at \in {"refresh", "asking", "gaps"}, NEW range, NEW plan
    PROVE  /\ Tick(at, range, plan) # Idle
           /\ Tick(at, range, plan).at = at /\ Tick(at, range, plan).range = range
           /\ Tick(at, range, plan).plan = plan /\ Tick(at, range, plan).items = Nil
           /\ Tick(at, range, plan) = [at |-> at, range |-> range, plan |-> plan, items |-> Nil]
BY DEF Tick, Idle

\* A plan of one window.
LEMMA OneInPlan == ASSUME NEW S, NEW x \in S PROVE <<x>> \in Seq(S)
OBVIOUS

\* What follows the head of a plan keeps its windows.
LEMMA TailOfPlan ==
    ASSUME NEW S, NEW plan \in Seq(S), plan # <<>>
    PROVE  /\ Tail(plan) \in Seq(S) /\ 1 \in DOMAIN plan /\ Head(plan) = plan[1]
           /\ \A n \in DOMAIN plan : n # 1 => n - 1 \in DOMAIN Tail(plan) /\ Tail(plan)[n - 1] = plan[n]
OBVIOUS

\* A range that is not longer than a window is one window.
LEMMA OneWindow ==
    ASSUME NEW from \in Nat, NEW to \in Nat, from <= to, to - from < WindowDays
    PROVE  Windows(Interval(from, to)) = <<Interval(from, to)>>
<1>1. WindowDays \in Nat \ {0}
  BY BenchmarkAssumption DEF BenchmarkAssumption
<1>2. (to - from + WindowDays) \div WindowDays = 1
  BY <1>1
<1>3. Interval(from, to).from = from /\ Interval(from, to).to = to
  BY DEF Interval
<1>4. \A n \in 1 .. 1 : Interval(from + (n - 1) * WindowDays, Lesser(to, from + n * WindowDays - 1)) = Interval(from, to)
  BY <1>1 DEF Lesser
<1> QED BY <1>2, <1>3, <1>4 DEF Windows

\* The last days that are asked for again reach back beyond the last refresh by Lag.
LEMMA RefreshReaches ==
    ASSUME NEW today \in Nat \ {0}, NEW first \in Nat \ {0}, NEW range,
           range = Interval(Before(Lesser(first, today), Lookback), today)
    PROVE  /\ Recent(range) \in 1 .. today
           /\ today - Recent(range) < WindowDays
           /\ \A d \in Nat \ {0} : d + Lag + MaxOutage >= today => d >= Recent(range)
BY Constants DEF Recent, Before, Lesser, Greater, Interval

-----------------------------------------------------------------------------
\* Nothing is covered at first.
LEMMA InitBInv == BenchmarkInit => BInv
<1> SUFFICES ASSUME BenchmarkInit PROVE BInv
  OBVIOUS
<1> USE BenchmarkAssumption DEF BenchmarkAssumption, BenchmarkInit
<1>1. Types
  BY DEF Types, TickShape
<1>2. Covered = {} /\ Lost = {}
  BY DEF Covered, Lost
<1>3. Clock
  BY DEF Clock
<1>4. Punctual /\ FetchedWhole /\ StoredIsCovered /\ LostIsYoung /\ LostIsPlanned
  BY <1>2 DEF Punctual, FetchedWhole, StoredIsCovered, LostIsYoung, LostIsPlanned
<1> QED BY <1>1, <1>3, <1>4 DEF BInv

-----------------------------------------------------------------------------
(***************************************************************************)
(* Steps.                                                                  *)
(***************************************************************************)
\* Readers, assets and the pass over the windows touch nothing the invariant is about.
LEMMA AsideInv ==
    ASSUME BInv, UNCHANGED <<now, published, store, tick, slot, refreshed, steady>>,
           earliest' \in AssetDays \cup {Nil}
    PROVE  BInv'
BY DEF BInv, Types, TickShape, Clock, Punctual, FetchedWhole, StoredIsCovered, LostIsYoung,
       LostIsPlanned, Lost, Covered, store

\* When the clock moves, the closes that were due have been published.
LEMMA AdvanceInv ==
    ASSUME BInv, Advance
    PROVE  BInv'
<1> USE DEF Advance, BInv, worker, store
<1>1. Types'
  BY DEF Types, TickShape
<1>2. Clock'
  <2>1. refreshed' <= now' /\ (tick' # Idle => refreshed' <= slot' /\ slot' <= now' /\ now' <= slot' + 1)
    BY DEF Types, Clock
  <2>2. tick' # Idle /\ coverage' = {} => refreshed' = slot'
    BY DEF Clock
  <2>3. steady' /\ coverage' # {} => Day(now') - Day(refreshed') <= MaxOutage
    OBVIOUS
  <2> QED BY <2>1, <2>2, <2>3 DEF Clock, Day
<1>3. Punctual'
  BY DEF Punctual
<1>4. Lost' = Lost /\ StoredIsCovered'
  BY DEF Lost, Covered, StoredIsCovered
<1>5. FetchedWhole' /\ LostIsYoung' /\ LostIsPlanned'
  BY <1>4 DEF FetchedWhole, LostIsYoung, LostIsPlanned
<1> QED BY <1>1, <1>2, <1>3, <1>4, <1>5

\* A close that is published is not older than Lag days.
LEMMA PublishInv ==
    ASSUME BInv, NEW e \in Trading, Publish(e)
    PROVE  BInv'
<1> USE DEF Publish, BInv, worker, store
<1>1. e \in Nat /\ Lag \in Nat /\ now \in Nat /\ refreshed \in Nat /\ slot \in Nat
  BY BenchmarkAssumption DEF BenchmarkAssumption, Types
<1>2. e + Lag >= Day(now)
  BY <1>1, DayOfSlot DEF Punctual
<1>3. e + Lag >= Day(refreshed) /\ (tick # Idle => e + Lag >= Day(slot))
  <2>1. Day(refreshed) <= Day(now) /\ (tick # Idle => Day(slot) <= Day(now))
    BY <1>1, DayOfSlot DEF Clock
  <2>2. Day(refreshed) \in Nat /\ Day(now) \in Nat /\ Day(slot) \in Nat
    BY <1>1, DayOfSlot
  <2> QED BY <1>1, <1>2, <2>1, <2>2
<1>4. Lost' \subseteq Lost \cup {e} /\ StoredIsCovered'
  BY DEF Lost, Covered, StoredIsCovered
<1>5. Types' /\ Clock' /\ Punctual'
  BY DEF Types, TickShape, Clock, Punctual
<1>6. FetchedWhole'
  BY <1>3 DEF FetchedWhole
<1>7. LostIsYoung'
  BY <1>3, <1>4 DEF LostIsYoung
<1>8. LostIsPlanned'
  <2> SUFFICES ASSUME steady, tick # Idle, tick.at = "refresh", NEW d \in Lost', d + Lag < Day(slot)
               PROVE  \E n \in DOMAIN tick.plan : d \in Days(tick.plan[n])
    BY DEF LostIsPlanned
  <2>1. d # e
    BY <1>1, <1>3, DayOfSlot
  <2> QED BY <1>4, <2>1 DEF LostIsPlanned
<1> QED BY <1>4, <1>5, <1>6, <1>7, <1>8

\* A tick that refreshes plans a window for all that may be lost.
LEMMA StartTickInv ==
    ASSUME BInv, StartTick
    PROVE  BInv'
<1>1. PICK today, range, at, plan :
          /\ today = Day(now)
          /\ range = Interval(Before(Lesser(earliest, today), Lookback), today)
          /\ at \in {"refresh", "asking"}
          /\ tick' = Tick(at, range, plan)
          /\ at = "refresh" => plan = Windows(Interval(Recent(range), today))
          /\ tick = Idle /\ earliest # Nil /\ slot' = now
          /\ refreshed' = IF coverage = {} THEN now ELSE refreshed
          /\ UNCHANGED <<now, published, earliest, coverage, closes, success, steady>>
  BY DEF StartTick, store
<1>2. /\ now \in Nat \ {0} /\ refreshed \in Nat /\ refreshed <= now
      /\ earliest \in Nat \ {0} /\ today \in Nat \ {0}
  <2>1. earliest \in Nat \ {0}
    BY <1>1, Constants DEF BInv, Types
  <2> QED BY <1>1, <2>1, DayOfSlot DEF BInv, Types, Clock
<1>4. tick' # Idle /\ tick'.at = at /\ tick'.plan = plan /\ tick'.items = Nil /\ tick'.range = range
  BY <1>1, TickFields
<1>5. /\ Recent(range) \in 1 .. today
      /\ \A d \in Nat \ {0} : d + Lag + MaxOutage >= today => d >= Recent(range)
      /\ Windows(Interval(Recent(range), today)) = <<Interval(Recent(range), today)>>
  <2>1. /\ Recent(range) \in 1 .. today /\ today - Recent(range) < WindowDays
        /\ \A d \in Nat \ {0} : d + Lag + MaxOutage >= today => d >= Recent(range)
    BY <1>1, <1>2, RefreshReaches
  <2>2. Windows(Interval(Recent(range), today)) = <<Interval(Recent(range), today)>>
    <3>1. Recent(range) \in Nat /\ Recent(range) <= today
      BY <1>2, <2>1
    <3> QED BY <1>2, <2>1, <3>1, OneWindow
  <2> QED BY <2>1, <2>2
<1>6. Types'
  <2>1. at = "refresh" => plan \in Seq([from : Int, to : Int])
    <3>1. Interval(Recent(range), today) \in [from : Int, to : Int]
      BY <1>2, <1>5 DEF Interval
    <3>2. at = "refresh" => plan = <<Interval(Recent(range), today)>>
      BY <1>1, <1>5
    <3> QED BY <3>1, <3>2, OneInPlan
  <2>2. tick' = [at |-> tick'.at, range |-> tick'.range, plan |-> tick'.plan, items |-> tick'.items]
    BY <1>1, <1>4, TickFields
  <2>3. TickShape'
    BY <1>1, <1>4, <2>1, <2>2 DEF TickShape
  <2> QED BY <1>1, <1>2, <2>3 DEF Types, BInv
<1>7. Clock'
  <2>1. refreshed' <= now' /\ refreshed' <= slot' /\ slot' <= now' /\ now' <= slot' + 1
    BY <1>1, <1>2
  <2>2. coverage' = {} => refreshed' = slot'
    BY <1>1
  <2>3. steady' /\ coverage' # {} => Day(now') - Day(refreshed') <= MaxOutage
    BY <1>1 DEF BInv, Clock
  <2> QED BY <2>1, <2>2, <2>3 DEF Clock
<1>8. Lost' = Lost /\ (coverage = {} => Lost = {})
  BY <1>1 DEF Lost, Covered
<1>9. Punctual' /\ FetchedWhole' /\ StoredIsCovered'
  BY <1>1, <1>4 DEF Punctual, FetchedWhole, StoredIsCovered, Covered, BInv
<1>10. LostIsYoung'
  BY <1>1, <1>8 DEF LostIsYoung, BInv
<1>11. LostIsPlanned'
  <2> SUFFICES ASSUME steady, at = "refresh", NEW d \in Lost, d + Lag < Day(now)
               PROVE  \E n \in DOMAIN plan : d \in Days(plan[n])
    BY <1>1, <1>4, <1>8 DEF LostIsPlanned
  <2>1. d \in Nat \ {0} /\ d + Lag >= Day(refreshed) /\ coverage # {}
    BY <1>8, Constants DEF BInv, LostIsYoung, Types, Lost
  <2>2. Day(now) - Day(refreshed) <= MaxOutage /\ Day(refreshed) \in Nat /\ today = Day(now)
    BY <1>1, <1>2, <2>1, DayOfSlot DEF BInv, Clock
  <2>3. d + Lag + MaxOutage >= today /\ d <= today
    BY <1>2, <2>1, <2>2, Constants
  <2>4. d \in Days(Interval(Recent(range), today))
    BY <1>2, <1>5, <2>1, <2>3 DEF Days, Interval
  <2>5. plan[1] = Interval(Recent(range), today) /\ 1 \in DOMAIN plan
    BY <1>1, <1>4, <1>5
  <2> QED BY <2>4, <2>5
<1> QED BY <1>6, <1>7, <1>9, <1>10, <1>11 DEF BInv

\* A window that is saved brings all its closes but the young ones.
LEMMA SaveWindowInv ==
    ASSUME BInv, SaveWindow
    PROVE  BInv'
<1>1. /\ tick # Idle /\ tick.plan # <<>> /\ tick.items # Nil
      /\ closes' = closes \cup tick.items
      /\ coverage' = coverage \cup {Head(tick.plan)}
      /\ tick' = [tick EXCEPT !.plan = Tail(@), !.items = Nil]
      /\ UNCHANGED <<now, published, earliest, slot, refreshed, steady>>
  BY DEF SaveWindow, AtWindow
<1>2. /\ now \in Nat \ {0} /\ slot \in Nat /\ refreshed \in Nat /\ TickShape
      /\ refreshed <= slot /\ slot <= now /\ now <= slot + 1
      /\ published \subseteq Nat /\ Lag \in Nat /\ MaxOutage \in Nat \ {0}
  BY <1>1, Constants DEF BInv, Types, Clock
<1>3. tick' = [at |-> tick.at, range |-> tick.range, plan |-> Tail(tick.plan), items |-> Nil]
  BY <1>1, <1>2 DEF TickShape
<1>4. /\ tick'.at = tick.at /\ tick'.plan = Tail(tick.plan) /\ tick'.items = Nil
      /\ tick'.range = tick.range /\ tick' # Idle
  BY <1>1, <1>2, <1>3 DEF TickShape, Idle
<1>5. Types'
  <2>1. tick.at = "refresh" => Tail(tick.plan) \in Seq([from : Int, to : Int])
    BY <1>1, <1>2, TailOfPlan DEF TickShape
  <2>2. TickShape'
    BY <1>1, <1>2, <1>3, <1>4, <2>1 DEF TickShape
  <2> QED BY <1>1, <2>2 DEF BInv, Types
<1>6. Clock'
  <2>1. steady => Day(now) - Day(refreshed) <= MaxOutage
    <3>1. CASE coverage = {}
      <4>1. refreshed = slot
        BY <1>1, <3>1 DEF BInv, Clock
      <4>2. Day(now) <= Day(slot) + 1 /\ Day(now) \in Nat /\ Day(slot) \in Nat
        BY <1>2, DayOfSlot
      <4> QED BY <1>2, <4>1, <4>2
    <3>2. CASE coverage # {}
      BY <3>2 DEF BInv, Clock
    <3> QED BY <3>1, <3>2
  <2>2. coverage' # {}
    BY <1>1
  <2> QED BY <1>1, <1>2, <2>1, <2>2 DEF Clock
<1>7. Punctual' /\ FetchedWhole'
  BY <1>1, <1>4 DEF BInv, Punctual, FetchedWhole
<1>8. Covered' = Covered \cup Days(Head(tick.plan)) /\ StoredIsCovered'
  <2>1. Covered' = Covered \cup Days(Head(tick.plan))
    BY <1>1 DEF Covered
  <2> QED BY <1>1, <2>1 DEF BInv, StoredIsCovered, FetchedWhole
<1>9. ASSUME NEW d \in Lost'
      PROVE  \/ d \in Lost /\ d \notin Days(Head(tick.plan))
             \/ d + Lag >= Day(slot)
  <2>1. d \in published /\ d \notin closes /\ d \notin tick.items
    BY <1>1, <1>9 DEF Lost
  <2>2. CASE d \in Days(Head(tick.plan))
    BY <1>1, <2>1, <2>2 DEF BInv, FetchedWhole
  <2>3. CASE d \notin Days(Head(tick.plan))
    BY <1>8, <1>9, <2>1, <2>3 DEF Lost
  <2> QED BY <2>2, <2>3
<1>10. LostIsYoung'
  <2> SUFFICES ASSUME steady, NEW d \in Lost' PROVE d + Lag >= Day(refreshed)
    BY <1>1 DEF LostIsYoung
  <2>1. CASE d \in Lost
    BY <2>1 DEF BInv, LostIsYoung
  <2>2. CASE d + Lag >= Day(slot)
    <3>1. Day(refreshed) <= Day(slot) /\ Day(refreshed) \in Nat /\ Day(slot) \in Nat
      BY <1>2, DayOfSlot
    <3>2. d \in Nat
      BY <1>1, <1>2 DEF Lost
    <3> QED BY <1>2, <2>2, <3>1, <3>2
  <2> QED BY <1>9, <2>1, <2>2
<1>11. LostIsPlanned'
  <2> SUFFICES ASSUME steady, tick.at = "refresh", NEW d \in Lost', d + Lag < Day(slot)
               PROVE  \E n \in DOMAIN Tail(tick.plan) : d \in Days(Tail(tick.plan)[n])
    BY <1>1, <1>4 DEF LostIsPlanned
  <2>1. d \in Nat /\ Day(slot) \in Nat
    BY <1>1, <1>2, DayOfSlot DEF Lost
  <2>2. d \in Lost /\ d \notin Days(Head(tick.plan))
    BY <1>2, <1>9, <2>1
  <2>3. PICK n \in DOMAIN tick.plan : d \in Days(tick.plan[n])
    BY <1>1, <2>2 DEF BInv, LostIsPlanned
  <2>4. tick.plan \in Seq([from : Int, to : Int])
    BY <1>1, <1>2 DEF TickShape
  <2>5. n # 1 /\ n - 1 \in DOMAIN Tail(tick.plan) /\ Tail(tick.plan)[n - 1] = tick.plan[n]
    BY <1>1, <2>2, <2>3, <2>4, TailOfPlan
  <2> QED BY <2>3, <2>5
<1> QED BY <1>5, <1>6, <1>7, <1>8, <1>10, <1>11 DEF BInv

\* What is fetched is all that the source knows then.
LEMMA FetchWindowInv ==
    ASSUME BInv, FetchWindow
    PROVE  BInv'
<1>1. /\ tick # Idle /\ tick' = [tick EXCEPT !.items = published \cap Days(Head(tick.plan))]
      /\ UNCHANGED <<now, published, earliest, coverage, closes, slot, refreshed, steady>>
  BY DEF FetchWindow, AtWindow, Answer, store
<1>2. tick' = [at |-> tick.at, range |-> tick.range, plan |-> tick.plan,
               items |-> published \cap Days(Head(tick.plan))]
  BY <1>1 DEF BInv, Types, TickShape
<1>3. /\ tick'.at = tick.at /\ tick'.plan = tick.plan /\ tick'.range = tick.range /\ tick' # Idle
      /\ tick'.items = published \cap Days(Head(tick.plan))
  BY <1>1, <1>2 DEF BInv, Types, TickShape, Idle
<1>4. Lost' = Lost
  BY <1>1 DEF Lost, Covered
<1>5. Types'
  BY <1>1, <1>2, <1>3 DEF BInv, Types, TickShape
<1>6. Clock' /\ Punctual' /\ StoredIsCovered' /\ LostIsYoung' /\ LostIsPlanned'
  BY <1>1, <1>3, <1>4
     DEF BInv, Clock, Punctual, StoredIsCovered, Covered, LostIsYoung, LostIsPlanned
<1>7. FetchedWhole'
  BY <1>1, <1>3 DEF FetchedWhole
<1> QED BY <1>5, <1>6, <1>7 DEF BInv

\* A refresh that went through has asked again for all that was due.
LEMMA RefreshedInv ==
    ASSUME BInv, Refreshed
    PROVE  BInv'
<1>1. /\ tick # Idle /\ tick.at = "refresh" /\ tick.plan = <<>>
      /\ tick' = [tick EXCEPT !.at = "asking"] /\ refreshed' = slot
      /\ UNCHANGED <<now, published, earliest, coverage, closes, slot, steady>>
  BY DEF Refreshed, store
<1>2. tick' = [at |-> "asking", range |-> tick.range, plan |-> tick.plan, items |-> tick.items]
  BY <1>1 DEF BInv, Types, TickShape
<1>3. /\ tick'.at = "asking" /\ tick'.plan = tick.plan /\ tick'.range = tick.range
      /\ tick' # Idle /\ tick'.items = tick.items
  BY <1>2 DEF Idle
<1>4. Lost' = Lost
  BY <1>1 DEF Lost, Covered
<1>5. Types'
  BY <1>1, <1>2, <1>3 DEF BInv, Types, TickShape
<1>6. Clock'
  <2>1. /\ now \in Nat /\ slot \in Nat /\ refreshed \in Nat
        /\ refreshed <= slot /\ slot <= now /\ now <= slot + 1
    BY <1>1 DEF BInv, Types, Clock
  <2>2. Day(refreshed) <= Day(slot) /\ {Day(refreshed), Day(slot), Day(now)} \subseteq Nat
    BY <2>1, DayOfSlot
  <2>3. steady /\ coverage # {} => Day(now) - Day(slot) <= MaxOutage
    BY <2>2, Constants DEF BInv, Clock
  <2> QED BY <1>1, <2>1, <2>3 DEF Clock
<1>7. Punctual' /\ FetchedWhole' /\ StoredIsCovered' /\ LostIsPlanned'
  BY <1>1, <1>3 DEF BInv, Punctual, FetchedWhole, StoredIsCovered, Covered, LostIsPlanned
<1>8. LostIsYoung'
  <2> SUFFICES ASSUME steady, NEW d \in Lost PROVE d + Lag >= Day(slot)
    BY <1>1, <1>4 DEF LostIsYoung
  <2>1. d \in Nat /\ Lag \in Nat /\ Day(slot) \in Nat
    BY Constants, DayOfSlot DEF BInv, Types, Lost
  <2>2. ~(d + Lag < Day(slot))
    BY <1>1 DEF BInv, LostIsPlanned
  <2> QED BY <2>1, <2>2
<1> QED BY <1>5, <1>6, <1>7, <1>8 DEF BInv

\* A tick that asks for what is missing has its refresh, or none, behind it.
LEMMA AskMissingInv ==
    ASSUME BInv, AskMissing
    PROVE  BInv'
<1>1. PICK plan :
          /\ tick # Idle
          /\ tick' = IF plan = <<>> THEN Idle ELSE Tick("gaps", tick.range, plan)
          /\ UNCHANGED <<now, published, earliest, coverage, closes, slot, refreshed, steady>>
  BY DEF AskMissing, store
<1>2. tick' # Idle =>
          /\ tick'.at = "gaps" /\ tick'.items = Nil
          /\ tick' = [at |-> tick'.at, range |-> tick'.range, plan |-> tick'.plan, items |-> tick'.items]
  BY <1>1, TickFields
<1>3. Lost' = Lost
  BY <1>1 DEF Lost, Covered
<1>4. Types'
  BY <1>1, <1>2 DEF BInv, Types, TickShape
<1> QED BY <1>1, <1>2, <1>3, <1>4
        DEF BInv, Clock, Punctual, FetchedWhole, StoredIsCovered, Covered, LostIsYoung, LostIsPlanned

\* A tick that ends, or is ended, leaves what was saved.
LEMMA EndInv ==
    ASSUME BInv, FailTick \/ EndTick \/ Crash
    PROVE  BInv'
<1>1. /\ tick' = Idle /\ slot' \in {slot, 0}
      /\ UNCHANGED <<now, published, earliest, coverage, closes, refreshed, steady>>
  BY DEF FailTick, EndTick, Crash, store
<1>2. Lost' = Lost
  BY <1>1 DEF Lost, Covered
<1>3. Types'
  BY <1>1 DEF BInv, Types, TickShape
<1> QED BY <1>1, <1>2, <1>3
        DEF BInv, Clock, Punctual, FetchedWhole, StoredIsCovered, Covered, LostIsYoung, LostIsPlanned

\* Every step preserves the invariant.
LEMMA NextBInv == BInv /\ [BenchmarkNext]_benchmarkVars => BInv'
<1> SUFFICES ASSUME BInv, [BenchmarkNext]_benchmarkVars PROVE BInv'
  OBVIOUS
<1>1. CASE UNCHANGED benchmarkVars
  BY <1>1, AsideInv DEF benchmarkVars, worker, BInv, Types
<1>2. ASSUME NEW d \in AssetDays \cup {Nil}, SetEarliest(d) PROVE BInv'
  BY <1>2, AsideInv DEF SetEarliest, worker
<1>3. ASSUME NEW q \in Queries, AskCurve(q) PROVE BInv'
  BY <1>3, AsideInv DEF AskCurve, worker, BInv, Types
<1>4. CASE ReadLatest \/ ReadMissing \/ ReadCloses \/ AnswerCurve
  BY <1>4, AsideInv DEF ReadLatest, ReadMissing, ReadCloses, AnswerCurve, worker, BInv, Types
<1> QED BY <1>1, <1>2, <1>3, <1>4, AdvanceInv, PublishInv, StartTickInv, FetchWindowInv,
        SaveWindowInv, RefreshedInv, AskMissingInv, EndInv DEF BenchmarkNext

\* The invariant holds throughout.
LEMMA BInvAlways == BenchmarkSpec => []BInv
BY InitBInv, NextBInv, PTL DEF BenchmarkSpec

-----------------------------------------------------------------------------
(***************************************************************************)
(* Closes that come late.                                                  *)
(***************************************************************************)
\* A close that appeared after its day was covered is not lost in a history without an outage
\* of more than MaxOutage days (steady): it is young enough for the refreshes to come, through
\* failures, restarts, slow ticks and assets that move (Synchronizer.Tick, SaveWindow).
THEOREM LateClosesAreKept == BenchmarkSpec => []NoCloseLost
<1>1. BInv => NoCloseLost
  <2> SUFFICES ASSUME BInv, steady, NEW d \in Lost PROVE d >= Day(now) - Refresh
    BY DEF NoCloseLost, Lost
  <2>1. d \in Nat /\ coverage # {}
    BY Constants DEF BInv, Types, Lost, Covered
  <2>2. d + Lag >= Day(refreshed) /\ Day(now) - Day(refreshed) <= MaxOutage
    BY <2>1 DEF BInv, LostIsYoung, Clock
  <2>3. Day(refreshed) \in Nat /\ Day(now) \in Nat
    BY DayOfSlot DEF BInv, Types
  <2> QED BY <2>1, <2>2, <2>3, Constants
<1> QED BY <1>1, BInvAlways, PTL

-----------------------------------------------------------------------------
(***************************************************************************)
(* The pass over the windows.  Its fold chooses a function on the subsets   *)
(* of 1 .. N; there is such a function, and it takes the windows one after   *)
(* the other, in the order of their days.                                    *)
(***************************************************************************)
Window == [from : Int, to : Int]

\* The step of the fold in Missing, and what it starts from.
PassOver(acc, w) ==
    [cursor |-> Cursor(acc.cursor, w),
     gaps   |-> IF w.from > acc.cursor THEN Append(acc.gaps, Interval(acc.cursor, w.from - 1))
                ELSE acc.gaps]

Start(from) == [cursor |-> from, gaps |-> <<>>]

\* What the fold of the windows in the set D of places is, by what it is without the last.
Unfold(base, s, g, D) == IF D = {} THEN base ELSE PassOver(g[D \ {Max(D)}], s[Max(D)])

\* The functions the fold chooses from.
Runs(base, s, g, D) == g = [E \in SUBSET D |-> Unfold(base, s, g, E)]

\* The windows that Missing passes.
Touching(from, to) == {w \in coverage : w.to >= from /\ w.from <= to}

\* Missing is such a fold.
LEMMA MissingIsRun ==
    ASSUME NEW from, NEW to
    PROVE  LET s == Ordered(Touching(from, to))
               end == (CHOOSE g : Runs(Start(from), s, g, DOMAIN s))[DOMAIN s]
           IN  Missing(from, to) =
                 IF end.cursor <= to THEN Append(end.gaps, Interval(end.cursor, to)) ELSE end.gaps
BY DEF Missing, FoldLeft, MapThenFoldSet, Runs, Unfold, Start, PassOver, Touching

\* The order of the natural numbers.
Smaller == {ss \in Nat \X Nat : ss[1] < ss[2]}

\* The natural numbers are well-ordered.
LEMMA SmallerWellFounded == IsWellFoundedOn(Smaller, Nat)
  BY NatLessThanWellFounded, Zenon DEF OpToRel, Smaller

\* A set of numbers with 0 and every successor holds all of them.
LEMMA AllNumbers ==
    ASSUME NEW S \in SUBSET Nat, 0 \in S, \A n \in S : n + 1 \in S
    PROVE  \A n \in Nat : n \in S
<1> DEFINE T == Nat \ S
<1> SUFFICES ASSUME T # {} PROVE FALSE
  OBVIOUS
<1>1. PICK n \in T : \A k \in T : <<k, n>> \notin Smaller
  BY SmallerWellFounded, WFMin
<1>2. n - 1 \in Nat /\ <<n - 1, n>> \in Smaller
  BY <1>1 DEF Smaller
<1>3. n - 1 \in S
  BY <1>1, <1>2
<1> QED BY <1>1, <1>3

\* Taking an element out.
LEMMA Removed ==
    ASSUME NEW S, IsFiniteSet(S), NEW x \in S
    PROVE  /\ IsFiniteSet(S \ {x})
           /\ Cardinality(S) \in Nat \ {0}
           /\ Cardinality(S \ {x}) = Cardinality(S) - 1
<1>1. Cardinality(S) \in Nat /\ Cardinality(S) # 0
  BY FS_CardinalityType, FS_EmptySet
<1> QED BY <1>1, FS_RemoveElement

\* How many windows come before w.
Rank(W, w) == Cardinality({v \in W : Precedes(v, w)})

\* The windows are in a strict order.
LEMMA WindowOrder ==
    /\ \A v, w \in Window : v # w => Precedes(v, w) \/ Precedes(w, v)
    /\ \A v \in Window : ~Precedes(v, v)
    /\ \A u, v, w \in Window : Precedes(u, v) /\ Precedes(v, w) => Precedes(u, w)
<1>1. \A v, w \in Window : v.from = w.from /\ v.to = w.to => v = w
  BY DEF Window
<1>2. \A v \in Window : v.from \in Int /\ v.to \in Int
  BY DEF Window
<1>3. \A v, w \in Window : v.from # w.from \/ v.to # w.to => Precedes(v, w) \/ Precedes(w, v)
  BY <1>2 DEF Precedes
<1>4. \A v \in Window : ~Precedes(v, v)
  BY <1>2 DEF Precedes
<1>5. \A u, v, w \in Window : Precedes(u, v) /\ Precedes(v, w) => Precedes(u, w)
  BY <1>2 DEF Precedes
<1> QED BY <1>1, <1>3, <1>4, <1>5

\* A window that precedes another has fewer before it.
LEMMA RankGrows ==
    ASSUME NEW W \in SUBSET Window, IsFiniteSet(W)
    PROVE  /\ \A w \in W : Rank(W, w) \in 0 .. Cardinality(W) - 1
           /\ \A v, w \in W : Precedes(v, w) => Rank(W, v) < Rank(W, w)
           /\ Cardinality(W) \in Nat
<1> DEFINE B(w) == {v \in W : Precedes(v, w)}
<1>1. \A w \in W : IsFiniteSet(B(w)) /\ Cardinality(B(w)) \in Nat
  BY FS_Subset, FS_CardinalityType
<1>2. Cardinality(W) \in Nat
  BY FS_CardinalityType
<1>3. ASSUME NEW w \in W PROVE Rank(W, w) \in 0 .. Cardinality(W) - 1
  <2>1. B(w) \in SUBSET W /\ w \notin B(w)
    BY WindowOrder
  <2>2. Cardinality(B(w)) < Cardinality(W)
    BY <2>1, <1>1, <1>2, FS_Subset
  <2> QED BY <2>2, <1>1, <1>2 DEF Rank
<1>4. ASSUME NEW v \in W, NEW w \in W, Precedes(v, w) PROVE Rank(W, v) < Rank(W, w)
  <2>1. B(v) \in SUBSET B(w) /\ v \notin B(v) /\ v \in B(w)
    BY <1>4, WindowOrder
  <2>2. \A S, T : IsFiniteSet(T) /\ S \in SUBSET T /\ S # T => Cardinality(S) <= Cardinality(T) /\ Cardinality(S) # Cardinality(T)
    BY FS_Subset
  <2>3. Cardinality(B(v)) < Cardinality(B(w))
    <3>1. B(v) # B(w)
      BY <2>1
    <3> HIDE DEF B
    <3> QED BY <1>1, <2>1, <2>2, <3>1
  <2> QED BY <2>3 DEF Rank
<1> QED BY <1>2, <1>3, <1>4

\* Ordered lists every window once, in their order.
LEMMA OrderedIs ==
    ASSUME NEW W \in SUBSET Window, IsFiniteSet(W)
    PROVE  /\ Cardinality(W) \in Nat
           /\ DOMAIN Ordered(W) = 1 .. Cardinality(W)
           /\ \A n \in 1 .. Cardinality(W) : Ordered(W)[n] \in W
           /\ \A w \in W : \E n \in 1 .. Cardinality(W) : Ordered(W)[n] = w
           /\ \A m, n \in 1 .. Cardinality(W) : m < n => Precedes(Ordered(W)[m], Ordered(W)[n])
<1> DEFINE N == Cardinality(W)
           R == [w \in W |-> Rank(W, w)]
           s == Ordered(W)
<1>1. /\ \A w \in W : Rank(W, w) \in 0 .. N - 1
      /\ \A v, w \in W : Precedes(v, w) => Rank(W, v) < Rank(W, w)
      /\ N \in Nat
  BY RankGrows
<1>2. \A v, w \in W : Rank(W, v) = Rank(W, w) => v = w
  BY <1>1, WindowOrder
<1>3. \A n \in 0 .. N - 1 : \E w \in W : Rank(W, w) = n
  <2>1. R \in Injection(W, 0 .. N - 1)
    BY <1>1, <1>2 DEF Injection, IsInjective
  <2>2. IsFiniteSet(0 .. N - 1) /\ Cardinality(0 .. N - 1) = N
    BY <1>1, FS_Interval
  <2>3. R \in Surjection(W, 0 .. N - 1)
    <3> HIDE DEF R
    <3> QED BY <2>1, <2>2, FS_Injection
  <2> QED BY <2>3 DEF Surjection
<1>4. DOMAIN s = 1 .. N /\ \A n \in 1 .. N : s[n] \in W /\ Rank(W, s[n]) = n - 1
  <2>1. DOMAIN s = 1 .. N /\ \A n \in 1 .. N : s[n] = CHOOSE w \in W : Rank(W, w) = n - 1
    BY DEF Ordered, Rank
  <2> HIDE DEF s
  <2>2. \A n \in 1 .. N : n - 1 \in 0 .. N - 1
    BY <1>1
  <2> QED BY <1>3, <2>1, <2>2
<1> HIDE DEF s
<1>5. \A w \in W : \E n \in 1 .. N : s[n] = w
  <2> SUFFICES ASSUME NEW w \in W PROVE \E n \in 1 .. N : s[n] = w
    OBVIOUS
  <2>1. Rank(W, w) + 1 \in 1 .. N
    BY <1>1
  <2>2. Rank(W, s[Rank(W, w) + 1]) = Rank(W, w)
    BY <1>1, <1>4, <2>1
  <2> QED BY <1>2, <1>4, <2>1, <2>2
<1>6. ASSUME NEW m \in 1 .. N, NEW n \in 1 .. N, m < n PROVE Precedes(s[m], s[n])
  <2>1. s[m] \in W /\ s[n] \in W /\ Rank(W, s[m]) = m - 1 /\ Rank(W, s[n]) = n - 1
    BY <1>4
  <2>2. ~Precedes(s[n], s[m]) /\ s[n] # s[m]
    BY <1>1, <1>6, <2>1
  <2> QED BY <2>1, <2>2, WindowOrder
<1> QED BY <1>1, <1>4, <1>5, <1>6 DEF s

\* Some numbers up to a bound have a maximum.
LEMMA MaxIs ==
    ASSUME NEW N \in Nat, NEW E \in SUBSET (0 .. N), E # {}
    PROVE  Max(E) \in E /\ \A x \in E : x <= Max(E)
<1> DEFINE T == {k \in 0 .. N : N - k \in E}
<1>1. T \in SUBSET Nat /\ T # {}
  <2>1. PICK e : e \in E
    OBVIOUS
  <2>2. e \in 0 .. N /\ N - e \in 0 .. N /\ N - (N - e) = e
    BY <2>1
  <2> QED BY <2>1, <2>2
<1>2. PICK k \in T : \A j \in T : <<j, k>> \notin Smaller
  <2> HIDE DEF T
  <2> QED BY <1>1, SmallerWellFounded, WFMin
<1>3. \A x \in E : N - x \in T
  OBVIOUS
<1>4. ASSUME NEW x \in E PROVE N - k >= x
  <2>1. N - x \in Nat /\ k \in Nat /\ N - x \in T /\ x \in Int
    BY <1>3
  <2>2. ~(N - x < k)
    BY <1>2, <2>1 DEF Smaller
  <2> QED BY <2>1, <2>2
<1> QED BY <1>2, <1>4 DEF Max

\* The pass over the windows has an outcome.
LEMMA RunExists ==
    ASSUME NEW base, NEW s, NEW N \in Nat
    PROVE  \E g : Runs(base, s, g, 1 .. N)
<1> DEFINE S == 1 .. N
           Upto(n, g) == \A E \in SUBSET S : Cardinality(E) <= n => g[E] = Unfold(base, s, g, E)
           M == {n \in Nat : \E g : Upto(n, g)}
<1>0. IsFiniteSet(S)
  BY FS_Interval
<1>1. \A E \in SUBSET S : /\ IsFiniteSet(E) /\ Cardinality(E) \in Nat /\ (Cardinality(E) = 0 <=> E = {})
                          /\ E # {} => Max(E) \in E
  <2>1. \A E \in SUBSET S : IsFiniteSet(E) /\ Cardinality(E) \in Nat /\ (Cardinality(E) = 0 <=> E = {})
    <3> HIDE DEF S
    <3> QED BY <1>0, FS_Subset, FS_CardinalityType, FS_EmptySet
  <2>2. S \in SUBSET (0 .. N)
    OBVIOUS
  <2>3. ASSUME NEW E \in SUBSET S, E # {} PROVE Max(E) \in E
    <3> HIDE DEF S
    <3>1. E \in SUBSET (0 .. N)
      BY <2>2
    <3> QED BY <2>3, <3>1, MaxIs
  <2> QED BY <2>1, <2>3
<1> HIDE DEF S
<1>2. 0 \in M
  <2>1. Upto(0, [E \in SUBSET S |-> base])
    BY <1>1 DEF Unfold
  <2> QED BY <2>1
<1>3. ASSUME NEW n \in M PROVE n + 1 \in M
  <2>1. PICK g : Upto(n, g)
    OBVIOUS
  <2> DEFINE h == [E \in SUBSET S |-> IF Cardinality(E) <= n THEN g[E] ELSE Unfold(base, s, g, E)]
  <2>2. ASSUME NEW E \in SUBSET S, Cardinality(E) <= n + 1 PROVE h[E] = Unfold(base, s, h, E)
    <3>1. CASE E = {}
      BY <1>1, <2>1, <3>1 DEF Unfold
    <3>2. CASE E # {}
      <4> DEFINE F == E \ {Max(E)}
      <4>1. F \in SUBSET S /\ Cardinality(F) <= n
        <5>1. Max(E) \in E
          BY <1>1, <3>2
        <5>2. Cardinality(F) = Cardinality(E) - 1 /\ Cardinality(E) \in Nat
          BY <1>1, <5>1, Removed
        <5> QED BY <2>2, <5>2
      <4>2. h[F] = g[F]
        BY <4>1
      <4>3. Unfold(base, s, h, E) = Unfold(base, s, g, E)
        BY <3>2, <4>2 DEF Unfold
      <4>4. h[E] = Unfold(base, s, g, E)
        BY <2>1
      <4> QED BY <4>3, <4>4
    <3> QED BY <3>1, <3>2
  <2>3. Upto(n + 1, h)
    BY <2>2
  <2>4. \E x : Upto(n + 1, x)
    <3> HIDE DEF h
    <3> QED BY <2>3
  <2> QED BY <2>4
<1>4. Cardinality(S) \in M
  <2> HIDE DEF M
  <2>1. M \in SUBSET Nat
    BY DEF M
  <2>2. Cardinality(S) \in Nat
    BY <1>1
  <2> QED BY <1>2, <1>3, <2>1, <2>2, AllNumbers
<1>5. PICK g : Upto(Cardinality(S), g)
  BY <1>4
<1>6. \A E \in SUBSET S : g[E] = Unfold(base, s, g, E)
  BY <1>0, <1>5, FS_Subset
<1> DEFINE r == [E \in SUBSET S |-> g[E]]
<1>7. ASSUME NEW E \in SUBSET S PROVE r[E] = Unfold(base, s, r, E)
  BY <1>6 DEF Unfold
<1>8. Runs(base, s, r, S)
  BY <1>7 DEF Runs
<1> QED BY <1>8 DEF S

\* The pass takes one window after the other.
LEMMA PassSteps ==
    ASSUME NEW base, NEW s, NEW N \in Nat, NEW g, Runs(base, s, g, 1 .. N)
    PROVE  /\ g[1 .. 0] = base
           /\ \A k \in Nat : k < N => g[1 .. (k + 1)] = PassOver(g[1 .. k], s[k + 1])
<1>1. g[1 .. 0] = base
  <2>1. 1 .. 0 = {} /\ {} \in SUBSET (1 .. N)
    OBVIOUS
  <2> QED BY <2>1 DEF Runs, Unfold
<1>2. ASSUME NEW k \in Nat, k < N PROVE g[1 .. (k + 1)] = PassOver(g[1 .. k], s[k + 1])
  <2> DEFINE E == 1 .. (k + 1)
  <2>1. E \in SUBSET (1 .. N) /\ E # {} /\ E \in SUBSET (0 .. (k + 1)) /\ k + 1 \in E /\ k + 1 \in Nat
    <3>1. k + 1 \in E /\ k + 1 \in Nat
      OBVIOUS
    <3>2. \A e \in E : e \in 1 .. N /\ e \in 0 .. (k + 1)
      BY <1>2
    <3> HIDE DEF E
    <3> QED BY <3>1, <3>2
  <2>2. Max(E) = k + 1
    <3>1. Max(E) \in E /\ k + 1 <= Max(E)
      <4> HIDE DEF E
      <4> QED BY <2>1, MaxIs
    <3> QED BY <3>1
  <2>3. E \ {k + 1} = 1 .. k
    OBVIOUS
  <2>4. g[E] = Unfold(base, s, g, E)
    BY <2>1 DEF Runs
  <2> QED BY <2>1, <2>2, <2>3, <2>4 DEF Unfold
<1> QED BY <1>1, <1>2

\* The same, as a fact about all runs.
LEMMA EachPass ==
    \A base, s, g : \A N \in Nat :
        Runs(base, s, g, 1 .. N) =>
            /\ g[1 .. 0] = base
            /\ \A k \in Nat : k < N => g[1 .. (k + 1)] = PassOver(g[1 .. k], s[k + 1])
<1> TAKE base, s, g
<1> TAKE N \in Nat
<1> HAVE Runs(base, s, g, 1 .. N)
<1>1. g[1 .. 0] = base
  BY PassSteps
<1>2. \A k \in Nat : k < N => g[1 .. (k + 1)] = PassOver(g[1 .. k], s[k + 1])
  BY PassSteps
<1> QED BY <1>1, <1>2

\* The gaps are, in order, the days from the first to the end that no window of W has.
Listed(from, to, end, W, gaps) ==
    /\ gaps \in Seq(Window)
    /\ \A n \in 1 .. Len(gaps) :
          /\ from <= gaps[n].from /\ gaps[n].from <= gaps[n].to
          /\ gaps[n].to <= to /\ gaps[n].to <= end
          /\ n > 1 => gaps[n - 1].to < gaps[n].from
    /\ \A d \in Int : (\E n \in 1 .. Len(gaps) : d \in Days(gaps[n]))
                        <=> from <= d /\ d <= end /\ \A w \in W : d \notin Days(w)

\* The first k windows of s have been passed.
Passed(from, to, W, s, k, acc) ==
    /\ acc.cursor \in Int /\ from <= acc.cursor
    /\ Listed(from, to, acc.cursor - 1, W, acc.gaps)
    /\ \A j \in 1 .. k : s[j].to < acc.cursor

\* A gap is appended.
LEMMA GapAppended ==
    ASSUME NEW gaps \in Seq(Window), NEW g \in Window
    PROVE  /\ Append(gaps, g) \in Seq(Window)
           /\ Len(Append(gaps, g)) = Len(gaps) + 1 /\ Len(gaps) \in Nat
           /\ Append(gaps, g)[Len(gaps) + 1] = g
           /\ \A n \in 1 .. Len(gaps) : Append(gaps, g)[n] = gaps[n] /\ gaps[n] \in Window
OBVIOUS

\* The bounds of a window are numbers.
LEMMA Bounds ==
    /\ \A w \in Window : w.from \in Int /\ w.to \in Int
    /\ \A gaps \in Seq(Window) : \A n \in 1 .. Len(gaps) : gaps[n].from \in Int /\ gaps[n].to \in Int
<1>1. \A w \in Window : w.from \in Int /\ w.to \in Int
  BY DEF Window
<1>2. \A gaps \in Seq(Window) : \A n \in 1 .. Len(gaps) : gaps[n] \in Window
  OBVIOUS
<1> QED BY <1>1, <1>2

\* A gap of days that no window has, after all gaps so far.
LEMMA GapFound ==
    ASSUME NEW from \in Int, NEW to \in Int, NEW W, NEW gaps, NEW cursor \in Int, from <= cursor,
           Listed(from, to, cursor - 1, W, gaps), NEW end \in Int, cursor <= end, end <= to,
           \A w \in W : \A d \in cursor .. end : d \notin Days(w)
    PROVE  Listed(from, to, end, W, Append(gaps, Interval(cursor, end)))
<1> DEFINE g == Interval(cursor, end)
           new == Append(gaps, g)
           m == Len(gaps)
<1>1. g \in Window /\ g.from = cursor /\ g.to = end
  BY DEF Interval, Window
<1>2. /\ new \in Seq(Window) /\ Len(new) = m + 1 /\ m \in Nat /\ new[m + 1] = g
      /\ \A n \in 1 .. m : new[n] = gaps[n] /\ gaps[n] \in Window
  <2> HIDE DEF g
  <2> QED BY <1>1, GapAppended DEF Listed
<1> HIDE DEF new, g
<1>3. ASSUME NEW n \in 1 .. Len(new)
      PROVE  /\ from <= new[n].from /\ new[n].from <= new[n].to
             /\ new[n].to <= to /\ new[n].to <= end
             /\ n > 1 => new[n - 1].to < new[n].from
  <2>0. \A j \in 1 .. m : gaps[j].to \in Int
    BY <1>2, Bounds
  <2>1. CASE n = m + 1
    <3>1. n > 1 => new[n - 1] = gaps[m] /\ m \in 1 .. m
      BY <1>2, <2>1
    <3>2. m \in 1 .. m => gaps[m].to <= cursor - 1
      BY DEF Listed
    <3> QED BY <1>1, <1>2, <2>0, <2>1, <3>1, <3>2
  <2>2. CASE n \in 1 .. m
    <3>1. new[n] = gaps[n] /\ (n > 1 => new[n - 1] = gaps[n - 1])
      BY <1>2, <2>2
    <3> QED BY <2>0, <2>2, <3>1 DEF Listed
  <2> QED BY <1>2, <2>1, <2>2
<1>4. ASSUME NEW d \in Int
      PROVE  (\E n \in 1 .. Len(new) : d \in Days(new[n]))
               <=> from <= d /\ d <= end /\ \A w \in W : d \notin Days(w)
  <2>1. (\E n \in 1 .. Len(new) : d \in Days(new[n]))
          <=> (\E n \in 1 .. m : d \in Days(gaps[n])) \/ d \in Days(g)
    BY <1>2
  <2>2. d \in Days(g) <=> cursor <= d /\ d <= end
    BY <1>1 DEF Days
  <2>3. (\E n \in 1 .. m : d \in Days(gaps[n]))
          <=> from <= d /\ d <= cursor - 1 /\ \A w \in W : d \notin Days(w)
    BY DEF Listed
  <2>4. cursor <= d /\ d <= end => \A w \in W : d \notin Days(w)
    OBVIOUS
  <2> QED BY <2>1, <2>2, <2>3, <2>4
<1>5. Listed(from, to, end, W, new)
  BY <1>2, <1>3, <1>4 DEF Listed
<1> QED BY <1>5 DEF new, g

\* A window that begins where the gaps end, or before, only moves their end.
LEMMA NoGapFound ==
    ASSUME NEW from \in Int, NEW to \in Int, NEW W, NEW gaps, NEW cursor \in Int,
           Listed(from, to, cursor - 1, W, gaps), NEW end \in Int, cursor - 1 <= end,
           \A d \in cursor .. end : \E w \in W : d \in Days(w)
    PROVE  Listed(from, to, end, W, gaps)
<1>1. \A n \in 1 .. Len(gaps) : gaps[n].to \in Int
  BY Bounds DEF Listed
<1>2. \A n \in 1 .. Len(gaps) : gaps[n].to <= end
  BY <1>1 DEF Listed
<1>3. ASSUME NEW d \in Int
      PROVE  (\E n \in 1 .. Len(gaps) : d \in Days(gaps[n]))
               <=> from <= d /\ d <= end /\ \A w \in W : d \notin Days(w)
  <2>1. (\E n \in 1 .. Len(gaps) : d \in Days(gaps[n]))
          <=> from <= d /\ d <= cursor - 1 /\ \A w \in W : d \notin Days(w)
    BY DEF Listed
  <2>2. cursor <= d /\ d <= end => \E w \in W : d \in Days(w)
    OBVIOUS
  <2> QED BY <2>1, <2>2
<1> QED BY <1>2, <1>3 DEF Listed

\* One window more is passed.
LEMMA PassKeeps ==
    ASSUME NEW from \in Int, NEW to \in Int, NEW W \in SUBSET Window, NEW s, NEW N \in Nat,
           \A w \in W : w.from <= w.to /\ w.to >= from /\ w.from <= to,
           \A n \in 1 .. N : s[n] \in W,
           \A w \in W : \E n \in 1 .. N : s[n] = w,
           \A m, n \in 1 .. N : m < n => Precedes(s[m], s[n]),
           NEW k \in Nat, k < N, NEW acc, Passed(from, to, W, s, k, acc)
    PROVE  Passed(from, to, W, s, k + 1, PassOver(acc, s[k + 1]))
<1> DEFINE v == s[k + 1]
           new == PassOver(acc, v)
           x == acc.cursor
           y == new.cursor
<1>1. /\ v \in W /\ v.from \in Int /\ v.to \in Int /\ v.from <= v.to /\ v.from <= to
      /\ x \in Int /\ from <= x
  BY DEF Passed, Window
<1>2. /\ y = Cursor(x, v)
      /\ new.gaps = IF v.from > x THEN Append(acc.gaps, Interval(x, v.from - 1)) ELSE acc.gaps
  BY DEF PassOver
<1>3. /\ y \in Int /\ x <= y /\ v.to < y
      /\ y = x \/ y = v.to + 1
  BY <1>1, <1>2 DEF Cursor, Greater
<1>4. \A w \in W : w.to < x \/ v.from <= w.from
  <2> SUFFICES ASSUME NEW w \in W PROVE w.to < x \/ v.from <= w.from
    OBVIOUS
  <2>1. PICK n \in 1 .. N : s[n] = w
    OBVIOUS
  <2>2. CASE n <= k
    BY <2>1, <2>2 DEF Passed
  <2>3. CASE n > k
    <3>1. n = k + 1 \/ Precedes(v, w)
      BY <2>1, <2>3
    <3>2. w.from \in Int
      BY DEF Window
    <3> QED BY <1>1, <2>1, <3>1, <3>2 DEF Precedes
  <2> QED BY <2>2, <2>3
<1>5. \A j \in 1 .. (k + 1) : s[j].to < y
  <2> SUFFICES ASSUME NEW j \in 1 .. (k + 1) PROVE s[j].to < y
    OBVIOUS
  <2>1. CASE j = k + 1
    BY <1>3, <2>1
  <2>2. CASE j \in 1 .. k
    <3>1. s[j].to < x /\ s[j].to \in Int
      BY <2>2 DEF Passed, Window
    <3> QED BY <1>1, <1>3, <3>1
  <2> QED BY <2>1, <2>2
<1>6. Listed(from, to, x - 1, W, acc.gaps)
  BY DEF Passed
<1> HIDE DEF x, y
<1>7. Listed(from, to, y - 1, W, new.gaps)
  <2>1. CASE v.from > x
    <3> DEFINE end == v.from - 1
    <3>1. end \in Int /\ x <= end /\ end <= to /\ end < y /\ y - 1 = v.to /\ end + 1 = v.from
      BY <1>1, <1>3, <2>1
    <3>2. \A w \in W : \A d \in x .. end : d \notin Days(w)
      <4> SUFFICES ASSUME NEW w \in W, NEW d \in x .. end PROVE d \notin Days(w)
        OBVIOUS
      <4>1. w.from \in Int /\ w.to \in Int
        BY DEF Window
      <4> QED BY <1>1, <1>4, <4>1 DEF Days
    <3>3. new.gaps = Append(acc.gaps, Interval(x, end))
      BY <1>2, <2>1
    <3>4. \A d \in v.from .. v.to : d \in Days(v)
      BY DEF Days
    <3> HIDE DEF end, new
    <3>5. Listed(from, to, end, W, new.gaps)
      BY <1>1, <1>6, <3>1, <3>2, <3>3, GapFound
    <3>6. Listed(from, to, v.from - 1, W, new.gaps)
      BY <3>5 DEF end
    <3>7. v.from - 1 <= v.to /\ \A d \in v.from .. v.to : \E w \in W : d \in Days(w)
      BY <1>1, <3>4
    <3>8. Listed(from, to, v.to, W, new.gaps)
      <4> HIDE DEF v
      <4> QED BY <1>1, <3>6, <3>7, NoGapFound
    <3> QED BY <3>1, <3>8
  <2>2. CASE ~(v.from > x)
    <3>1. new.gaps = acc.gaps
      BY <1>2, <2>2
    <3>2. \A d \in x .. (y - 1) : d \in Days(v)
      BY <1>1, <1>3, <2>2 DEF Days
    <3>3. y - 1 \in Int /\ x - 1 <= y - 1
      BY <1>1, <1>3
    <3> HIDE DEF new, v
    <3> QED BY <1>1, <1>6, <3>1, <3>2, <3>3, NoGapFound
  <2> QED BY <2>1, <2>2
<1>8. y \in Int /\ from <= y
  BY <1>1, <1>3
<1> QED BY <1>5, <1>7, <1>8 DEF Passed, y

\* Missing is the complement of the windows, in order and without an empty gap.
LEMMA MissingIs ==
    ASSUME coverage \in SUBSET Window, IsFiniteSet(coverage), \A w \in coverage : w.from <= w.to,
           NEW from \in Int, NEW to \in Int, from <= to
    PROVE  Listed(from, to, to, coverage, Missing(from, to))
<1> DEFINE W == Touching(from, to)
           s == Ordered(W)
           N == Cardinality(W)
           base == Start(from)
           gaps == Missing(from, to)
<1>1. /\ W \in SUBSET Window /\ IsFiniteSet(W)
      /\ \A w \in W : w.from <= w.to /\ w.to >= from /\ w.from <= to
  BY FS_Subset DEF Touching
<1>2. /\ N \in Nat /\ DOMAIN s = 1 .. N
      /\ \A n \in 1 .. N : s[n] \in W
      /\ \A w \in W : \E n \in 1 .. N : s[n] = w
      /\ \A m, n \in 1 .. N : m < n => Precedes(s[m], s[n])
  <2> HIDE DEF W
  <2> QED BY <1>1, OrderedIs
<1>3. PICK g : /\ Runs(base, s, g, 1 .. N)
               /\ gaps = IF g[1 .. N].cursor <= to
                         THEN Append(g[1 .. N].gaps, Interval(g[1 .. N].cursor, to))
                         ELSE g[1 .. N].gaps
  <2> DEFINE h == CHOOSE g : Runs(base, s, g, 1 .. N)
  <2>1. Runs(base, s, h, 1 .. N)
    BY <1>2, RunExists
  <2>2. gaps = IF h[1 .. N].cursor <= to THEN Append(h[1 .. N].gaps, Interval(h[1 .. N].cursor, to))
               ELSE h[1 .. N].gaps
    BY <1>2, MissingIsRun
  <2> HIDE DEF h, gaps
  <2> QED BY <2>1, <2>2
<1> DEFINE end == g[1 .. N]
<1> HIDE DEF W, s, N, base
<1>4. N \in Nat
  BY <1>2
<1>5. /\ g[1 .. 0] = base
      /\ \A k \in Nat : k < N => g[1 .. (k + 1)] = PassOver(g[1 .. k], s[k + 1])
  <2>1. Runs(base, s, g, 1 .. N)
    BY <1>3
  <2> HIDE DEF Runs
  <2>2. ASSUME NEW b, NEW t, NEW M \in Nat, Runs(b, t, g, 1 .. M)
        PROVE  /\ g[1 .. 0] = b
               /\ \A k \in Nat : k < M => g[1 .. (k + 1)] = PassOver(g[1 .. k], t[k + 1])
    BY <2>2, EachPass
  <2> QED BY <1>4, <2>1, <2>2
<1> DEFINE K == {k \in Nat : k <= N => Passed(from, to, W, s, k, g[1 .. k])}
<1>6. 0 \in K
  <2>1. base.cursor = from /\ base.gaps = <<>>
    BY DEF base, Start
  <2>2. Passed(from, to, W, s, 0, base)
    BY <2>1 DEF Passed, Listed
  <2> QED BY <1>5, <2>2
<1>7. ASSUME NEW k \in K PROVE k + 1 \in K
  <2> SUFFICES ASSUME k + 1 <= N PROVE Passed(from, to, W, s, k + 1, g[1 .. (k + 1)])
    OBVIOUS
  <2>1. k \in Nat /\ k < N /\ Passed(from, to, W, s, k, g[1 .. k])
    BY <1>2
  <2> HIDE DEF K
  <2>2. Passed(from, to, W, s, k + 1, PassOver(g[1 .. k], s[k + 1]))
    BY <1>1, <1>2, <2>1, PassKeeps
  <2> QED BY <1>5, <2>1, <2>2
<1>8. Passed(from, to, W, s, N, end)
  <2>1. N \in K
    <3> HIDE DEF K
    <3>1. K \in SUBSET Nat
      BY DEF K
    <3> QED BY <1>2, <1>6, <1>7, <3>1, AllNumbers
  <2> QED BY <1>2, <2>1
<1> DEFINE x == end.cursor
           old == end.gaps
<1>9. x \in Int /\ from <= x /\ Listed(from, to, x - 1, W, old)
  BY <1>8 DEF Passed
<1>10. \A w \in W : w.to < x
  BY <1>2, <1>8 DEF Passed
<1>11. gaps = IF x <= to THEN Append(old, Interval(x, to)) ELSE old
  BY <1>3
<1> HIDE DEF end, gaps, x, old
<1>12. Listed(from, to, to, W, gaps)
  <2>1. CASE x <= to
    <3>1. \A w \in W : \A d \in x .. to : d \notin Days(w)
      BY <1>1, <1>9, <1>10, Bounds DEF Days
    <3>2. gaps = Append(old, Interval(x, to))
      BY <1>11, <2>1
    <3>3. Listed(from, to, to, W, Append(old, Interval(x, to)))
      BY <1>9, <2>1, <3>1, GapFound
    <3> QED BY <3>2, <3>3
  <2>2. CASE ~(x <= to)
    <3>1. gaps = old /\ to < x
      BY <1>9, <1>11, <2>2
    <3>2. \A n \in 1 .. Len(old) : /\ old[n].from \in Int /\ old[n].to \in Int
                                   /\ old[n].to <= to
      BY <1>9, Bounds DEF Listed
    <3>3. ASSUME NEW d \in Int
          PROVE  (\E n \in 1 .. Len(old) : d \in Days(old[n]))
                   <=> from <= d /\ d <= to /\ \A w \in W : d \notin Days(w)
      <4>1. (\E n \in 1 .. Len(old) : d \in Days(old[n]))
              <=> from <= d /\ d <= x - 1 /\ \A w \in W : d \notin Days(w)
        BY <1>9 DEF Listed
      <4>2. (\E n \in 1 .. Len(old) : d \in Days(old[n])) => d <= to
        BY <3>2 DEF Days
      <4>3. d <= to => d <= x - 1
        BY <1>9, <3>1
      <4> QED BY <4>1, <4>2, <4>3
    <3>4. Listed(from, to, to, W, old)
      BY <1>9, <3>3 DEF Listed
    <3> QED BY <3>1, <3>4
  <2> QED BY <2>1, <2>2
<1>13. \A d \in from .. to : (\A w \in coverage : d \notin Days(w)) <=> (\A w \in W : d \notin Days(w))
  <2>1. \A w \in coverage : \A d \in from .. to : d \in Days(w) => w \in W
    BY Bounds DEF Days, W, Touching
  <2>2. W \subseteq coverage
    BY DEF W, Touching
  <2> QED BY <2>1, <2>2
<1>14. Listed(from, to, to, coverage, gaps)
  BY <1>12, <1>13 DEF Listed
<1> QED BY <1>14 DEF gaps

-----------------------------------------------------------------------------
(***************************************************************************)
(* Coverage and plans.                                                     *)
(***************************************************************************)
\* The windows of days that are not of the future.
Past(last) == {w \in Window : 1 <= w.from /\ w.from <= w.to /\ w.to <= last}

\* What is stored, and what is to be, is of the past.
CoverageFits == coverage \subseteq Past(Day(now)) /\ IsFiniteSet(coverage)
PlanFits ==
    tick # Idle => tick.range \in Past(Day(now)) /\ tick.plan \in Seq(Past(Day(now)))

\* A refresh is one window that ends on the day of its slot; the first tick is a refresh.
RefreshFits ==
    tick # Idle =>
        /\ coverage = {} => tick.at = "refresh"
        /\ tick.at = "refresh" /\ tick.plan # <<>> =>
               Len(tick.plan) = 1 /\ tick.plan[1].to = Day(slot)
        /\ tick.at = "refresh" /\ tick.plan = <<>> => \E w \in coverage : w.to = Day(slot)

\* The windows reach to the day of the last refresh.
CoverageReaches == coverage # {} => \E w \in coverage : w.to >= Day(refreshed)

CInv ==
    /\ CoverageFits /\ PlanFits /\ RefreshFits /\ CoverageReaches
    /\ coverage = {} => success = 0

\* The windows of a range are within it, and none is empty.
LEMMA WindowsIn ==
    ASSUME NEW last \in Int, NEW w \in Past(last)
    PROVE  Windows(w) \in Seq(Past(last))
<1> DEFINE k == (w.to - w.from + WindowDays) \div WindowDays
           u(n) == Interval(w.from + (n - 1) * WindowDays, Lesser(w.to, w.from + n * WindowDays - 1))
<1>1. /\ w.from \in Int /\ w.to \in Int /\ 1 <= w.from /\ w.from <= w.to /\ w.to <= last
      /\ WindowDays \in Nat \ {0}
  BY Constants DEF Past, Window
<1>2. k \in Nat /\ k * WindowDays <= w.to - w.from + WindowDays
  BY <1>1
<1>3. ASSUME NEW n \in 1 .. k PROVE u(n) \in Past(last)
  <2> DEFINE a == w.from + (n - 1) * WindowDays
             b == Lesser(w.to, w.from + n * WindowDays - 1)
  <2>1. (n - 1) * WindowDays \in Nat /\ (n - 1) * WindowDays <= (k - 1) * WindowDays
    BY <1>1, <1>2
  <2>2. n * WindowDays = (n - 1) * WindowDays + WindowDays /\ (k - 1) * WindowDays = k * WindowDays - WindowDays
    BY <1>1, <1>2
  <2>3. a \in Int /\ 1 <= a /\ a <= w.to
    BY <1>1, <1>2, <2>1, <2>2
  <2>4. b \in Int /\ a <= b /\ b <= last
    BY <1>1, <2>1, <2>2, <2>3 DEF Lesser
  <2> HIDE DEF a, b
  <2>5. Interval(a, b) \in Past(last)
    BY <2>3, <2>4 DEF Interval, Past, Window
  <2> QED BY <2>5 DEF a, b
<1>4. Windows(w) = [n \in 1 .. k |-> u(n)]
  BY DEF Windows
<1> HIDE DEF k, u
<1> QED BY <1>2, <1>3, <1>4

\* The step of FlattenSeq.
FlatStep(seqs, f, i) == IF i = 1 THEN seqs[i] ELSE f[i - 1] \o seqs[i]

\* Flattening sequences over a set gives one over the set.
LEMMA FlattenIn ==
    ASSUME NEW S, NEW seqs \in Seq(Seq(S))
    PROVE  FlattenSeq(seqs) \in Seq(S)
<1> DEFINE N == Len(seqs)
           Is(f) == f = [i \in 1 .. N |-> FlatStep(seqs, f, i)]
<1>1. CASE N = 0
  <2>1. seqs = <<>>
    BY <1>1
  <2> QED BY <2>1 DEF FlattenSeq
<1>2. CASE N # 0
  <2>0. N \in Nat /\ \A i \in 1 .. N : seqs[i] \in Seq(S)
    OBVIOUS
  <2>1. FlattenSeq(seqs) = (CHOOSE f : Is(f))[N]
    BY <1>2 DEF FlattenSeq, FlatStep
  <2>2. \E f : Is(f)
    <3> DEFINE Upto(n, f) == \A i \in 1 .. N : i <= n => f[i] = FlatStep(seqs, f, i)
               M == {n \in Nat : \E f : Upto(n, f)}
    <3> HIDE DEF N
    <3>1. 0 \in M
      OBVIOUS
    <3>2. ASSUME NEW n \in M PROVE n + 1 \in M
      <4>1. PICK f : Upto(n, f)
        OBVIOUS
      <4> DEFINE h == [i \in 1 .. N |-> IF i <= n THEN f[i] ELSE FlatStep(seqs, f, i)]
      <4>2. ASSUME NEW i \in 1 .. N, i <= n + 1 PROVE h[i] = FlatStep(seqs, h, i)
        <5>1. i # 1 => i - 1 \in 1 .. N /\ i - 1 <= n
          BY <2>0, <4>2
        <5>2. FlatStep(seqs, h, i) = FlatStep(seqs, f, i)
          BY <5>1 DEF FlatStep
        <5>3. h[i] = FlatStep(seqs, f, i)
          BY <4>1
        <5> QED BY <5>2, <5>3
      <4>3. Upto(n + 1, h)
        BY <4>2
      <4>4. \E x : Upto(n + 1, x)
        <5> HIDE DEF h
        <5> QED BY <4>3
      <4> QED BY <4>4
    <3>3. N \in M
      <4> HIDE DEF M
      <4>1. M \in SUBSET Nat
        BY DEF M
      <4> QED BY <2>0, <3>1, <3>2, <4>1, AllNumbers
    <3>4. PICK f : Upto(N, f)
      BY <3>3
    <3> DEFINE r == [i \in 1 .. N |-> f[i]]
    <3>5. ASSUME NEW i \in 1 .. N PROVE r[i] = FlatStep(seqs, r, i)
      <4>1. i # 1 => i - 1 \in 1 .. N
        BY <2>0
      <4>2. f[i] = FlatStep(seqs, f, i)
        BY <2>0, <3>4
      <4> QED BY <4>1, <4>2 DEF FlatStep
    <3>6. Is(r)
      BY <3>5
    <3>7. \E x : Is(x)
      <4> HIDE DEF r
      <4> QED BY <3>6
    <3> QED BY <3>7
  <2> DEFINE f == CHOOSE g : Is(g)
             K == {k \in Nat : k + 1 <= N => f[k + 1] \in Seq(S)}
  <2>3. f = [i \in 1 .. N |-> FlatStep(seqs, f, i)]
    BY <2>2
  <2> HIDE DEF f, N
  <2>4. 0 \in K
    <3>1. f[1] = seqs[1] /\ 1 \in 1 .. N
      BY <1>2, <2>0, <2>3 DEF FlatStep
    <3> QED BY <2>0, <3>1
  <2>5. ASSUME NEW k \in K PROVE k + 1 \in K
    <3> SUFFICES ASSUME k + 2 <= N PROVE f[k + 2] \in Seq(S)
      OBVIOUS
    <3>1. k + 2 \in 1 .. N /\ k + 2 # 1 /\ (k + 2) - 1 = k + 1 /\ f[k + 1] \in Seq(S)
      BY <2>0
    <3>2. f[k + 2] = f[k + 1] \o seqs[k + 2]
      BY <2>3, <3>1 DEF FlatStep
    <3>3. \A a, b \in Seq(S) : a \o b \in Seq(S)
      OBVIOUS
    <3> QED BY <2>0, <3>1, <3>2, <3>3
  <2>6. N - 1 \in K
    <3> HIDE DEF K
    <3>1. K \in SUBSET Nat
      BY DEF K
    <3>2. N - 1 \in Nat
      BY <1>2, <2>0
    <3> QED BY <2>4, <2>5, <3>1, <3>2, AllNumbers
  <2>7. f[N] \in Seq(S)
    BY <2>0, <2>6
  <2> QED BY <2>1, <2>7 DEF f
<1> QED BY <1>1, <1>2

-----------------------------------------------------------------------------
\* The past grows.
LEMMA PastGrows ==
    ASSUME NEW a \in Int, NEW b \in Int, a <= b
    PROVE  Past(a) \subseteq Past(b) /\ Seq(Past(a)) \subseteq Seq(Past(b))
<1>1. Past(a) \subseteq Past(b)
  BY DEF Past, Window
<1>2. \A A, B : A \subseteq B => Seq(A) \subseteq Seq(B)
  OBVIOUS
<1> QED BY <1>1, <1>2

\* Nothing is covered at first.
LEMMA InitCInv == BenchmarkInit => CInv
<1> SUFFICES ASSUME BenchmarkInit PROVE CInv
  OBVIOUS
<1>1. coverage = {} /\ IsFiniteSet(coverage) /\ tick = Idle /\ success = 0
  BY FS_EmptySet DEF BenchmarkInit
<1> QED BY <1>1 DEF CInv, CoverageFits, PlanFits, RefreshFits, CoverageReaches

\* Steps that leave what is stored, and the plan.
LEMMA AsideCInv ==
    ASSUME BInv, CInv, Day(now) <= Day(now'), now' \in Nat,
           UNCHANGED <<coverage, success, slot, refreshed>>,
           \/ tick' = Idle
           \/ /\ tick # Idle /\ tick'.range = tick.range
              /\ tick'.plan = tick.plan /\ tick'.at = tick.at
    PROVE  CInv'
<1>1. Day(now) \in Int /\ Day(now') \in Int
  BY DayOfSlot DEF BInv, Types
<1>2. Past(Day(now)) \subseteq Past(Day(now')) /\ Seq(Past(Day(now))) \subseteq Seq(Past(Day(now')))
  BY <1>1, PastGrows
<1>3. CoverageFits' /\ CoverageReaches' /\ (coverage = {} => success = 0)'
  BY <1>2 DEF CInv, CoverageFits, CoverageReaches
<1>4. PlanFits'
  BY <1>2 DEF CInv, PlanFits
<1>5. RefreshFits'
  BY DEF CInv, RefreshFits
<1> QED BY <1>3, <1>4, <1>5 DEF CInv

\* The range of a tick reaches from the first day that is needed to its own.
LEMMA StartTickCInv ==
    ASSUME BInv, CInv, StartTick
    PROVE  CInv'
<1>1. PICK today, range, at, plan :
          /\ today = Day(now)
          /\ range = Interval(Before(Lesser(earliest, today), Lookback), today)
          /\ at \in {"refresh", "asking"}
          /\ tick' = Tick(at, range, plan)
          /\ at = "refresh" => plan = Windows(Interval(Recent(range), today))
          /\ at = "asking" => plan = <<>> /\ ~(success < now)
          /\ tick = Idle /\ earliest # Nil /\ slot' = now
          /\ refreshed' = IF coverage = {} THEN now ELSE refreshed
          /\ UNCHANGED <<now, published, earliest, coverage, closes, success>>
  BY DEF StartTick, store
<1>2. now \in Nat \ {0} /\ earliest \in Nat \ {0} /\ today \in Nat \ {0}
  <2>1. earliest \in Nat \ {0}
    BY <1>1, Constants DEF BInv, Types
  <2> QED BY <1>1, <2>1, DayOfSlot DEF BInv, Types
<1>3. tick' # Idle /\ tick'.at = at /\ tick'.plan = plan /\ tick'.range = range
  BY <1>1, TickFields
<1>4. range \in Past(today)
  <2>1. Before(Lesser(earliest, today), Lookback) \in 1 .. today
    BY <1>2, Constants DEF Before, Lesser, Greater
  <2> QED BY <1>1, <1>2, <2>1 DEF Interval, Past, Window
<1>5. at = "refresh" => /\ plan = <<Interval(Recent(range), today)>>
                        /\ Interval(Recent(range), today) \in Past(today)
                        /\ Interval(Recent(range), today).to = today
  <2>1. Recent(range) \in 1 .. today /\ today - Recent(range) < WindowDays
    BY <1>1, <1>2, RefreshReaches
  <2>2. Recent(range) \in Nat /\ Recent(range) <= today
    BY <1>2, <2>1
  <2>3. Windows(Interval(Recent(range), today)) = <<Interval(Recent(range), today)>>
    BY <1>2, <2>1, <2>2, OneWindow
  <2>4. Interval(Recent(range), today) \in Past(today) /\ Interval(Recent(range), today).to = today
    BY <1>2, <2>1 DEF Interval, Past, Window
  <2> QED BY <1>1, <2>3, <2>4
<1>6. plan \in Seq(Past(today))
  <2>1. CASE at = "refresh"
    BY <1>5, <2>1, OneInPlan
  <2>2. CASE at = "asking"
    BY <1>1, <2>2
  <2> QED BY <1>1, <2>1, <2>2
<1>7. CoverageFits' /\ CoverageReaches' /\ (coverage = {} => success = 0)'
  BY <1>1 DEF CInv, CoverageFits, CoverageReaches
<1>8. PlanFits'
  BY <1>1, <1>3, <1>4, <1>6 DEF PlanFits
<1>9. coverage = {} => at = "refresh"
  BY <1>1, <1>2 DEF CInv
<1>10. at = "refresh" => plan # <<>> /\ Len(plan) = 1 /\ plan[1].to = today
  BY <1>5
<1>11. RefreshFits'
  BY <1>1, <1>3, <1>9, <1>10 DEF RefreshFits
<1> QED BY <1>7, <1>8, <1>11 DEF CInv

\* The window that was planned is stored.
LEMMA SaveWindowCInv ==
    ASSUME BInv, CInv, SaveWindow
    PROVE  CInv'
<1> DEFINE head == Head(tick.plan)
<1>1. /\ tick # Idle /\ tick.plan # <<>>
      /\ coverage' = coverage \cup {head}
      /\ tick' = [tick EXCEPT !.plan = Tail(@), !.items = Nil]
      /\ UNCHANGED <<now, published, earliest, slot, refreshed>>
  BY DEF SaveWindow, AtWindow
<1>2. tick' = [at |-> tick.at, range |-> tick.range, plan |-> Tail(tick.plan), items |-> Nil]
  BY <1>1 DEF BInv, Types, TickShape
<1>3. /\ tick'.at = tick.at /\ tick'.plan = Tail(tick.plan)
      /\ tick'.range = tick.range /\ tick' # Idle
  BY <1>2 DEF Idle
<1>4. /\ tick.range \in Past(Day(now)) /\ tick.plan \in Seq(Past(Day(now)))
      /\ head \in Past(Day(now)) /\ Tail(tick.plan) \in Seq(Past(Day(now)))
      /\ head = tick.plan[1]
      /\ Len(tick.plan) = 1 => Tail(tick.plan) = <<>>
  <2>1. tick.range \in Past(Day(now)) /\ tick.plan \in Seq(Past(Day(now)))
    BY <1>1 DEF CInv, PlanFits
  <2>2. \A S : \A p \in Seq(S) : p # <<>> =>
          /\ Head(p) \in S /\ Head(p) = p[1] /\ Tail(p) \in Seq(S)
          /\ Len(p) = 1 => Len(Tail(p)) = 0
    OBVIOUS
  <2>3. \A S : \A p \in Seq(S) : Len(p) = 0 => p = <<>>
    OBVIOUS
  <2> QED BY <1>1, <2>1, <2>2, <2>3
<1>5. CoverageFits'
  BY <1>1, <1>4, FS_AddElement DEF CInv, CoverageFits
<1>6. PlanFits'
  BY <1>1, <1>3, <1>4 DEF PlanFits
<1>7. tick.at = "refresh" => head.to = Day(slot) /\ Tail(tick.plan) = <<>>
  BY <1>1, <1>4 DEF CInv, RefreshFits
<1>8. RefreshFits'
  BY <1>1, <1>3, <1>7 DEF RefreshFits
<1>9. CoverageReaches'
  <2>1. CASE coverage = {}
    <3>1. head.to = Day(slot)
      BY <1>1, <1>7, <2>1 DEF CInv, RefreshFits
    <3>2. Day(refreshed) <= Day(slot)
      BY <1>1, DayOfSlot DEF BInv, Types, Clock
    <3>3. head.to >= Day(refreshed)
      BY <1>1, <3>1, <3>2, DayOfSlot DEF BInv, Types
    <3> HIDE DEF head
    <3> QED BY <1>1, <3>3 DEF CoverageReaches
  <2>2. CASE coverage # {}
    BY <1>1, <2>2 DEF CInv, CoverageReaches
  <2> QED BY <2>1, <2>2
<1>10. coverage' # {}
  BY <1>1
<1> QED BY <1>5, <1>6, <1>8, <1>9, <1>10 DEF CInv

\* A refresh that went through has stored a window up to its day.
LEMMA RefreshedCInv ==
    ASSUME BInv, CInv, Refreshed
    PROVE  CInv'
<1>1. /\ tick # Idle /\ tick.at = "refresh" /\ tick.plan = <<>>
      /\ tick' = [tick EXCEPT !.at = "asking"] /\ refreshed' = slot
      /\ UNCHANGED <<now, coverage, success, slot>>
  BY DEF Refreshed, store
<1>2. tick' = [at |-> "asking", range |-> tick.range, plan |-> tick.plan, items |-> tick.items]
  BY <1>1 DEF BInv, Types, TickShape
<1>3. tick'.at = "asking" /\ tick'.plan = tick.plan /\ tick'.range = tick.range /\ tick' # Idle
  BY <1>2 DEF Idle
<1>4. PICK w \in coverage : w.to = Day(slot)
  BY <1>1 DEF CInv, RefreshFits
<1>5. Day(slot) \in Nat
  BY DayOfSlot DEF BInv, Types
<1>6. CoverageFits' /\ PlanFits'
  BY <1>1, <1>3 DEF CInv, CoverageFits, PlanFits
<1>7. RefreshFits' /\ CoverageReaches'
  BY <1>1, <1>3, <1>4, <1>5 DEF RefreshFits, CoverageReaches
<1> QED BY <1>1, <1>4, <1>6, <1>7 DEF CInv

\* The gaps are within the range of the tick, and so are their windows.
LEMMA AskMissingCInv ==
    ASSUME BInv, CInv, AskMissing
    PROVE  CInv'
<1> DEFINE today == Day(now)
           gaps == Missing(tick.range.from, tick.range.to)
           plans == [n \in DOMAIN gaps |-> Windows(gaps[n])]
           plan == FlattenSeq(plans)
<1>1. /\ tick # Idle /\ tick.at = "asking"
      /\ tick' = IF plan = <<>> THEN Idle ELSE Tick("gaps", tick.range, plan)
      /\ UNCHANGED <<now, coverage, success, slot, refreshed>>
  BY DEF AskMissing, store
<1>2. /\ tick.range \in Past(today) /\ coverage \subseteq Past(today) /\ IsFiniteSet(coverage)
      /\ today \in Nat
  BY <1>1, DayOfSlot DEF CInv, CoverageFits, PlanFits, BInv, Types
<1>3. plan \in Seq(Past(today))
  <2>1. /\ tick.range.from \in Int /\ tick.range.to \in Int /\ 1 <= tick.range.from
        /\ tick.range.from <= tick.range.to /\ tick.range.to <= today
        /\ coverage \in SUBSET Window /\ \A w \in coverage : w.from <= w.to
    BY <1>2 DEF Past, Window
  <2>2. Listed(tick.range.from, tick.range.to, tick.range.to, coverage, gaps)
    <3> HIDE DEF today, gaps
    <3> QED BY <1>2, <2>1, MissingIs DEF gaps
  <2> HIDE DEF gaps, today
  <2>3. ASSUME NEW n \in 1 .. Len(gaps) PROVE gaps[n] \in Past(today)
    <3>1. gaps[n] \in Window /\ gaps[n].from \in Int /\ gaps[n].to \in Int
      <4>1. gaps \in Seq(Window)
        BY <2>2 DEF Listed
      <4> QED BY <4>1, Bounds
    <3>2. 1 <= gaps[n].from /\ gaps[n].from <= gaps[n].to /\ gaps[n].to <= today
      BY <1>2, <2>1, <2>2, <3>1 DEF Listed
    <3> QED BY <3>1, <3>2 DEF Past
  <2>4. gaps \in Seq(Window) /\ DOMAIN gaps = 1 .. Len(gaps) /\ Len(gaps) \in Nat
    BY <2>2 DEF Listed
  <2>5. ASSUME NEW n \in 1 .. Len(gaps) PROVE Windows(gaps[n]) \in Seq(Past(today))
    BY <1>2, <2>3, WindowsIn
  <2>6. plans \in Seq(Seq(Past(today)))
    BY <2>4, <2>5
  <2> HIDE DEF plans
  <2> QED BY <2>6, FlattenIn
<1> HIDE DEF gaps, plans, plan, today
<1>4. coverage # {}
  BY <1>1 DEF CInv, RefreshFits
<1>5. tick' # Idle => tick'.at = "gaps" /\ tick'.range = tick.range /\ tick'.plan = plan
  BY <1>1, TickFields
<1>6. CoverageFits' /\ CoverageReaches'
  BY <1>1 DEF CInv, CoverageFits, CoverageReaches
<1>7. PlanFits'
  BY <1>1, <1>2, <1>3, <1>5 DEF PlanFits, today
<1>8. RefreshFits'
  BY <1>1, <1>4, <1>5 DEF RefreshFits
<1> QED BY <1>1, <1>4, <1>6, <1>7, <1>8 DEF CInv

\* Every step preserves it.
LEMMA NextCInv == BInv /\ CInv /\ [BenchmarkNext]_benchmarkVars => CInv'
<1> SUFFICES ASSUME BInv, CInv, [BenchmarkNext]_benchmarkVars PROVE CInv'
  OBVIOUS
<1>0. now \in Nat /\ Day(now) \in Nat /\ Day(now) <= Day(now)
  BY DayOfSlot DEF BInv, Types
<1>1. CASE UNCHANGED benchmarkVars
  BY <1>0, <1>1, AsideCInv DEF benchmarkVars, worker, store
<1>2. CASE Advance
  <2>1. now' \in Nat /\ Day(now) <= Day(now')
    BY <1>0, <1>2, DayOfSlot DEF Advance
  <2> QED BY <1>2, <2>1, AsideCInv DEF Advance, worker, store
<1>3. ASSUME NEW d \in Trading, Publish(d) PROVE CInv'
  BY <1>0, <1>3, AsideCInv DEF Publish, worker, store
<1>4. ASSUME NEW d \in AssetDays \cup {Nil}, SetEarliest(d) PROVE CInv'
  BY <1>0, <1>4, AsideCInv DEF SetEarliest, worker, store
<1>5. CASE FetchWindow
  <2>1. tick # Idle /\ tick' = [tick EXCEPT !.items = published \cap Days(Head(tick.plan))]
    BY <1>5 DEF FetchWindow, AtWindow, Answer
  <2>2. tick'.range = tick.range /\ tick'.plan = tick.plan /\ tick'.at = tick.at
    BY <2>1 DEF BInv, Types, TickShape
  <2> QED BY <1>0, <1>5, <2>1, <2>2, AsideCInv DEF FetchWindow, store
<1>6. CASE FailTick \/ EndTick
  BY <1>0, <1>6, AsideCInv DEF FailTick, EndTick, store
<1>7. CASE Crash
  <2>1. tick' = Idle /\ UNCHANGED <<now, coverage, success, refreshed>>
    BY <1>7 DEF Crash, store
  <2> QED BY <2>1 DEF CInv, CoverageFits, PlanFits, RefreshFits, CoverageReaches
<1>8. ASSUME NEW q \in Queries, AskCurve(q) PROVE CInv'
  BY <1>0, <1>8, AsideCInv DEF AskCurve, worker, store
<1>9. CASE ReadLatest \/ ReadMissing \/ ReadCloses \/ AnswerCurve
  BY <1>0, <1>9, AsideCInv DEF ReadLatest, ReadMissing, ReadCloses, AnswerCurve, worker, store
<1> QED BY <1>1, <1>2, <1>3, <1>4, <1>5, <1>6, <1>7, <1>8, <1>9,
        StartTickCInv, SaveWindowCInv, RefreshedCInv, AskMissingCInv DEF BenchmarkNext

\* The gaps are the complement of the windows, each once and in order.
Exact(from, to, gaps) ==
    /\ UNION {Days(gaps[n]) : n \in DOMAIN gaps} = (from .. to) \ Covered
    /\ \A n \in DOMAIN gaps : /\ gaps[n].from <= gaps[n].to
                              /\ n > 1 => gaps[n - 1].to < gaps[n].from

\* That is what the pass over the windows keeps.
LEMMA ListedIsExact ==
    ASSUME NEW from \in Int, NEW to \in Int, NEW gaps, Listed(from, to, to, coverage, gaps)
    PROVE  Exact(from, to, gaps)
<1>1. Listed(from, to, to, coverage, gaps)
  OBVIOUS
<1>2. DOMAIN gaps = 1 .. Len(gaps)
  BY <1>1 DEF Listed
<1>3. \A n \in DOMAIN gaps : /\ gaps[n].from <= gaps[n].to
                             /\ n > 1 => gaps[n - 1].to < gaps[n].from
  BY <1>1, <1>2 DEF Listed
<1>4. \A n \in DOMAIN gaps : gaps[n].from \in Int /\ gaps[n].to \in Int
  <2>1. gaps \in Seq(Window)
    BY <1>1 DEF Listed
  <2> QED BY <1>2, <2>1, Bounds
<1>5. UNION {Days(gaps[n]) : n \in DOMAIN gaps} \subseteq Int
  BY <1>4 DEF Days
<1>6. \A d \in Int : d \in UNION {Days(gaps[n]) : n \in DOMAIN gaps} <=> d \in (from .. to) \ Covered
  <2> TAKE d \in Int
  <2>1. d \in UNION {Days(gaps[n]) : n \in DOMAIN gaps} <=> \E n \in 1 .. Len(gaps) : d \in Days(gaps[n])
    BY <1>2
  <2>2. d \in Covered <=> \E w \in coverage : d \in Days(w)
    BY DEF Covered
  <2>3. (\E n \in 1 .. Len(gaps) : d \in Days(gaps[n]))
          <=> from <= d /\ d <= to /\ \A w \in coverage : d \notin Days(w)
    BY <1>1 DEF Listed
  <2> QED BY <2>1, <2>2, <2>3
<1>7. UNION {Days(gaps[n]) : n \in DOMAIN gaps} = (from .. to) \ Covered
  BY <1>5, <1>6
<1> QED BY <1>3, <1>7 DEF Exact

\* The gaps that are fetched are exactly the days no window covers, each once and in order,
\* for all windows that a history of syncs, failures and restarts can leave.
THEOREM GapsAreExact == BenchmarkSpec => []MissingIsComplement
<1>1. CInv /\ BInv => MissingIsComplement
  <2> SUFFICES ASSUME CInv, BInv, NEW from \in 1 .. Day(MaxSlots), NEW to \in 1 .. Day(MaxSlots),
                      from <= to
               PROVE  Exact(from, to, Missing(from, to))
    BY Zenon DEF MissingIsComplement, Exact
  <2>1. /\ coverage \in SUBSET Window /\ IsFiniteSet(coverage)
        /\ \A w \in coverage : w.from <= w.to
    BY DEF CInv, CoverageFits, Past
  <2> QED BY <2>1, MissingIs, ListedIsExact
<1> QED BY <1>1, InitBInv, NextBInv, InitCInv, NextCInv, PTL DEF BenchmarkSpec

-----------------------------------------------------------------------------
(***************************************************************************)
(* Readers.  Between the queries of a request windows may be saved and      *)
(* closes published; the day stays.                                          *)
(***************************************************************************)
\* A request whose first day is covered.
ReaderShape ==
    reader # Nil =>
        /\ reader = [at |-> reader.at, q |-> reader.q, through |-> reader.through,
                     items |-> reader.items, leapt |-> reader.leapt]
        /\ reader.at \in {"latest", "missing", "closes", "done"}
        /\ reader.q \in Queries /\ FirstCovered(reader.q)

\* The last day that is covered is the one that is asked for, or not long ago if no outage was
\* long.
ThroughLate ==
    reader # Nil /\ reader.at # "latest" =>
        /\ reader.through \in Int
        /\ steady => reader.through >= reader.q.to \/ reader.through + MaxOutage >= Day(now)

\* Once no gap was found, there is none.
ThroughWhole == reader # Nil /\ reader.at = "closes" => reader.q.from .. reader.through \subseteq Covered

\* Windows that do not leap ahead leave no hole beyond the last day that was covered.
BeyondWhole ==
    /\ reader # Nil /\ reader.at \in {"missing", "closes"}
    /\ ~reader.leapt
    /\ reader.through < reader.q.to
    => \A d \in Covered : reader.through + 1 .. d \subseteq Covered

\* What is answered has been fetched, and is short of young closes only.
AnsweredWhole ==
    reader # Nil /\ reader.at = "done" =>
        /\ reader.items \subseteq Days(reader.q)
        /\ ~reader.leapt => \A d \in reader.items : reader.q.from .. d \subseteq Covered
        /\ steady => \A d \in published \cap Days(reader.q) :
                        d \notin reader.items => d + Refresh >= Day(now)

RInv == ReaderShape /\ ThroughLate /\ ThroughWhole /\ BeyondWhole /\ AnsweredWhole

\* Days of a query, and the clock, are numbers.
LEMMA ReaderTypes ==
    ASSUME BInv
    PROVE  /\ Day(now) \in Nat /\ now \in Nat /\ published \subseteq Nat
           /\ Refresh \in Nat /\ MaxOutage \in Nat /\ Lag \in Nat
           /\ MaxOutage + Lag <= Refresh
           /\ \A q \in Queries : q.from \in Int /\ q.to \in Int
<1>1. \A q \in Queries : q.from \in Int /\ q.to \in Int
  BY BenchmarkAssumption DEF BenchmarkAssumption
<1> QED BY <1>1, Constants, DayOfSlot DEF BInv, Types

\* Steps that leave the reader; what is covered stays covered.
LEMMA AsideRInv ==
    ASSUME RInv, UNCHANGED <<reader, now, coverage, published, steady>>
    PROVE  RInv'
BY DEF RInv, ReaderShape, FirstCovered, ThroughLate, ThroughWhole, BeyondWhole, AnsweredWhole, Covered

\* A window that is saved leaves no hole beyond the last day, unless it leaps ahead.
LEMMA SaveWindowRInv ==
    ASSUME BInv, CInv, RInv, SaveWindow
    PROVE  RInv'
<1> DEFINE head == Head(tick.plan)
           seen == reader # Nil /\ reader.at \in {"missing", "closes"}
<1>1. /\ tick # Idle /\ tick.plan # <<>> /\ coverage' = coverage \cup {head}
      /\ reader' = IF seen /\ Leaps(head) THEN [reader EXCEPT !.leapt = TRUE] ELSE reader
      /\ UNCHANGED <<now, published, steady>>
  BY DEF SaveWindow, AtWindow
<1>2. Covered' = Covered \cup Days(head)
  BY <1>1 DEF Covered
<1>3. /\ \A w \in coverage : w.from \in Int /\ w.to \in Int /\ w.from <= w.to
      /\ head.from \in Int /\ head.to \in Int
  <2>1. coverage \subseteq Past(Day(now)) /\ tick.plan \in Seq(Past(Day(now)))
    BY <1>1 DEF CInv, CoverageFits, PlanFits
  <2>2. head \in Past(Day(now))
    <3>1. \A S : \A p \in Seq(S) : p # <<>> => Head(p) \in S
      OBVIOUS
    <3> QED BY <1>1, <2>1, <3>1
  <2> QED BY <2>1, <2>2 DEF Past, Window
<1> HIDE DEF head
<1>4. CASE reader' = Nil
  BY <1>1, <1>4 DEF RInv, ReaderShape, ThroughLate, ThroughWhole, BeyondWhole, AnsweredWhole
<1>5. CASE reader # Nil /\ reader' # Nil
  <2>1. reader' = [at |-> reader.at, q |-> reader.q, through |-> reader.through,
                   items |-> reader.items, leapt |-> reader'.leapt]
    BY <1>1, <1>5 DEF RInv, ReaderShape
  <2>2. /\ reader'.at = reader.at /\ reader'.q = reader.q
        /\ reader'.through = reader.through /\ reader'.items = reader.items
    BY <2>1
  <2>3. seen /\ ~reader'.leapt => ~reader.leapt /\ ~Leaps(head)
    <3>1. CASE seen /\ Leaps(head)
      BY <1>1, <1>5, <3>1 DEF RInv, ReaderShape
    <3>2. CASE ~(seen /\ Leaps(head))
      BY <1>1, <3>2
    <3> QED BY <3>1, <3>2
  <2>4. ~seen => reader' = reader
    BY <1>1
  <2>5. ReaderShape'
    BY <1>1, <1>5, <2>1, <2>2 DEF RInv, ReaderShape, FirstCovered
  <2>6. ThroughLate' /\ ThroughWhole'
    BY <1>1, <1>2, <1>5, <2>2 DEF RInv, ThroughLate, ThroughWhole
  <2>7. AnsweredWhole'
    BY <1>1, <1>2, <1>5, <2>2, <2>4 DEF RInv, AnsweredWhole
  <2>8. BeyondWhole'
    <3> SUFFICES ASSUME seen, ~reader'.leapt, reader.through < reader.q.to,
                        NEW d \in Covered', NEW e \in reader.through + 1 .. d
                 PROVE  e \in Covered'
      BY <1>1, <2>2 DEF BeyondWhole
    <3>1. reader.through \in Int /\ d \in Int
      BY <1>2, <1>3, <1>5 DEF RInv, ThroughLate, Covered, Days
    <3>2. \A c \in Covered : reader.through + 1 .. c \subseteq Covered
      BY <1>5, <2>3 DEF RInv, BeyondWhole
    <3>3. CASE d \in Covered
      BY <1>2, <3>2, <3>3
    <3>4. CASE d \in Days(head)
      <4>1. PICK v \in coverage : ~(v.to + 1 < head.from)
        BY <2>3 DEF Leaps
      <4>2. v.to \in Covered /\ v.to \in Int
        BY <1>3, <4>1 DEF Covered, Days
      <4>3. CASE e <= v.to
        BY <1>2, <3>1, <3>2, <4>2, <4>3
      <4>4. CASE ~(e <= v.to)
        BY <1>2, <1>3, <3>1, <3>4, <4>1, <4>2, <4>4 DEF Days
      <4> QED BY <4>3, <4>4
    <3> QED BY <1>2, <3>3, <3>4
  <2> QED BY <2>5, <2>6, <2>7, <2>8 DEF RInv
<1> QED BY <1>1, <1>4, <1>5

\* A close that is published while a request reads is young.
LEMMA PublishRInv ==
    ASSUME BInv, RInv, NEW e \in Trading, Publish(e)
    PROVE  RInv'
<1>1. e \notin published /\ published' = published \cup {e} /\ UNCHANGED <<now, coverage, reader, steady>>
  BY DEF Publish, store
<1>2. e \in Nat /\ e + Lag >= Day(now)
  BY <1>1, ReaderTypes, Constants DEF BInv, Punctual
<1>3. e + Refresh >= Day(now)
  BY <1>2, ReaderTypes
<1>4. ReaderShape' /\ ThroughLate' /\ ThroughWhole' /\ BeyondWhole'
  BY <1>1 DEF RInv, ReaderShape, FirstCovered, ThroughLate, ThroughWhole, BeyondWhole, Covered
<1>5. AnsweredWhole'
  BY <1>1, <1>3 DEF RInv, AnsweredWhole, Covered
<1> QED BY <1>4, <1>5 DEF RInv

\* The first query.
LEMMA AskCurveRInv ==
    ASSUME RInv, NEW q \in Queries, AskCurve(q)
    PROVE  RInv'
<1>1. /\ FirstCovered(q)
      /\ reader' = [at |-> "latest", q |-> q, through |-> 0, items |-> {}, leapt |-> FALSE]
      /\ coverage' = coverage
  BY DEF AskCurve, Reading, store
<1>2. FirstCovered(q)'
  BY <1>1 DEF FirstCovered
<1>3. ReaderShape'
  BY <1>1, <1>2 DEF ReaderShape
<1>4. ThroughLate' /\ ThroughWhole' /\ BeyondWhole' /\ AnsweredWhole'
  BY <1>1 DEF ThroughLate, ThroughWhole, BeyondWhole, AnsweredWhole
<1> QED BY <1>3, <1>4 DEF RInv

\* The window of the first day reaches to the last refresh, or one that begins later does.
LEMMA ReadLatestRInv ==
    ASSUME BInv, CInv, RInv, ReadLatest
    PROVE  RInv'
<1> DEFINE q == reader.q
           reaching == {w.to : w \in {v \in coverage : v.to >= q.from}}
           last == Max({0} \cup reaching)
<1>1. /\ reader # Nil /\ reader.at = "latest"
      /\ reader' = [reader EXCEPT !.at = "missing", !.through = Lesser(q.to, last)]
      /\ UNCHANGED <<now, published, coverage, steady>>
  BY DEF ReadLatest, store
<1>2. reader' = [at |-> "missing", q |-> q, through |-> Lesser(q.to, last), items |-> reader.items,
                 leapt |-> reader.leapt]
  BY <1>1 DEF RInv, ReaderShape
<1>3. /\ q \in Queries /\ FirstCovered(q) /\ q.from \in Int /\ q.to \in Int
      /\ Day(now) \in Nat /\ MaxOutage \in Nat
  BY <1>1, ReaderTypes DEF RInv, ReaderShape
<1>4. \A w \in coverage : w.to \in 0 .. Day(now) /\ w.from \in Int
  BY <1>3 DEF CInv, CoverageFits, Past, Window
<1>5. last \in {0} \cup reaching /\ \A x \in {0} \cup reaching : x <= last
  <2>1. {0} \cup reaching \in SUBSET (0 .. Day(now)) /\ {0} \cup reaching # {}
    BY <1>3, <1>4
  <2> HIDE DEF reaching
  <2> QED BY <1>3, <2>1, MaxIs
<1>6. last \in Nat
  BY <1>3, <1>4, <1>5
<1>7. /\ \A w \in coverage : w.to <= last
      /\ steady => last + MaxOutage >= Day(now)
  <2>1. PICK v \in coverage : q.from \in Days(v)
    BY <1>3 DEF FirstCovered
  <2>2. PICK w \in coverage : w.to >= Day(refreshed)
    BY <2>1 DEF CInv, CoverageReaches
  <2>3. v.to \in Nat /\ q.from <= v.to
    BY <1>4, <2>1 DEF Days
  <2>4. v.to <= last
    BY <1>5, <2>1, <2>3
  <2>5. ASSUME NEW u \in coverage PROVE u.to <= last
    <3>1. CASE u.to >= q.from
      BY <1>5, <3>1
    <3>2. CASE ~(u.to >= q.from)
      <4>1. u.to \in Nat
        BY <1>3, <1>4
      <4> HIDE DEF last, q
      <4> QED BY <1>3, <1>6, <2>3, <2>4, <3>2, <4>1
    <3> QED BY <3>1, <3>2
  <2>6. Day(refreshed) \in Nat /\ (steady => Day(now) - Day(refreshed) <= MaxOutage)
    BY <2>1, DayOfSlot DEF BInv, Types, Clock
  <2>7. w.to \in Nat /\ w.to <= last
    BY <1>3, <1>4, <2>5
  <2> HIDE DEF last
  <2> QED BY <1>3, <1>6, <2>2, <2>5, <2>6, <2>7
<1> HIDE DEF last, q
<1>8. /\ Lesser(q.to, last) \in Int
      /\ Lesser(q.to, last) < q.to => Lesser(q.to, last) = last
      /\ steady => Lesser(q.to, last) >= q.to \/ Lesser(q.to, last) + MaxOutage >= Day(now)
  BY <1>3, <1>6, <1>7 DEF Lesser
<1>9. reader'.q = q
  BY <1>2
<1>10. FirstCovered(reader.q)'
  BY <1>1, <1>3, <1>9 DEF FirstCovered
<1>11. ReaderShape'
  BY <1>2, <1>3, <1>10 DEF ReaderShape
<1>12. reader'.at = "missing" /\ reader'.through = Lesser(q.to, last)
  BY <1>2
<1>13. ThroughLate' /\ ThroughWhole' /\ AnsweredWhole'
  <2> HIDE DEF Lesser
  <2> QED BY <1>1, <1>8, <1>9, <1>12 DEF ThroughLate, ThroughWhole, AnsweredWhole
<1>14. BeyondWhole'
  <2> SUFFICES ASSUME Lesser(q.to, last) < q.to, NEW d \in Covered
               PROVE  last + 1 .. d = {}
    BY <1>1, <1>8, <1>9, <1>12 DEF BeyondWhole, Covered
  <2>1. d \in Int /\ d <= last
    BY <1>4, <1>6, <1>7 DEF Covered, Days
  <2> QED BY <1>6, <2>1
<1> QED BY <1>11, <1>13, <1>14 DEF RInv

\* Without a gap every day is covered.
LEMMA GaplessCovers ==
    ASSUME CInv, NEW from \in Int, NEW to \in Int, Gapless(from, to)
    PROVE  from .. to \subseteq Covered
<1>1. CASE to < from
  BY <1>1
<1>2. CASE from <= to
  <2>1. /\ coverage \in SUBSET Window /\ IsFiniteSet(coverage)
        /\ \A w \in coverage : w.from <= w.to
    BY DEF CInv, CoverageFits, Past
  <2>2. Listed(from, to, to, coverage, <<>>)
    BY <1>2, <2>1, MissingIs DEF Gapless
  <2>3. \A d \in Int : ~(from <= d /\ d <= to /\ \A w \in coverage : d \notin Days(w))
    BY <2>2 DEF Listed
  <2> QED BY <2>3 DEF Covered
<1> QED BY <1>1, <1>2

\* The question for gaps.
LEMMA ReadMissingRInv ==
    ASSUME BInv, CInv, RInv, ReadMissing
    PROVE  RInv'
<1>1. /\ reader # Nil /\ reader.at = "missing"
      /\ \/ reader' = Nil
         \/ /\ Gapless(reader.q.from, reader.through)
            /\ reader' = [reader EXCEPT !.at = "closes"]
      /\ UNCHANGED <<now, published, coverage, steady>>
  BY DEF ReadMissing, store
<1>2. CASE reader' = Nil
  BY <1>2 DEF RInv, ReaderShape, ThroughLate, ThroughWhole, BeyondWhole, AnsweredWhole
<1>3. CASE Gapless(reader.q.from, reader.through) /\ reader' = [reader EXCEPT !.at = "closes"]
  <2>1. reader' = [at |-> "closes", q |-> reader.q, through |-> reader.through, items |-> reader.items,
                   leapt |-> reader.leapt]
    BY <1>1, <1>3 DEF RInv, ReaderShape
  <2>2. /\ reader.q \in Queries /\ FirstCovered(reader.q) /\ reader.q.from \in Int
        /\ reader.through \in Int
        /\ steady => reader.through >= reader.q.to \/ reader.through + MaxOutage >= Day(now)
    BY <1>1, ReaderTypes DEF RInv, ReaderShape, ThroughLate
  <2>3. reader.q.from .. reader.through \subseteq Covered
    BY <1>3, <2>2, GaplessCovers
  <2>4. /\ reader'.q = reader.q /\ reader'.at = "closes" /\ reader'.through = reader.through
        /\ reader'.leapt = reader.leapt
    BY <2>1
  <2>5. Covered' = Covered /\ FirstCovered(reader.q)'
    BY <1>1, <2>2, <2>4 DEF Covered, FirstCovered
  <2>6. ReaderShape'
    BY <2>1, <2>2, <2>5 DEF ReaderShape
  <2>7. ThroughLate' /\ ThroughWhole' /\ AnsweredWhole'
    BY <1>1, <2>2, <2>3, <2>4, <2>5 DEF ThroughLate, ThroughWhole, AnsweredWhole
  <2>8. BeyondWhole'
    BY <1>1, <2>4, <2>5 DEF RInv, BeyondWhole
  <2> QED BY <2>6, <2>7, <2>8 DEF RInv
<1> QED BY <1>1, <1>2, <1>3

\* The closes of a range that is covered to its end, or to a day not long ago.
LEMMA ReadClosesRInv ==
    ASSUME BInv, NoCloseLost, RInv, ReadCloses
    PROVE  RInv'
<1> DEFINE items == closes \cap Days(reader.q)
<1>1. /\ reader # Nil /\ reader.at = "closes"
      /\ reader' = [reader EXCEPT !.at = "done", !.items = items]
      /\ UNCHANGED <<now, published, coverage, steady>>
  BY DEF ReadCloses, store
<1>2. reader' = [at |-> "done", q |-> reader.q, through |-> reader.through, items |-> items,
                 leapt |-> reader.leapt]
  BY <1>1 DEF RInv, ReaderShape
<1>3. /\ reader.q \in Queries /\ FirstCovered(reader.q)
      /\ reader.q.from \in Int /\ reader.q.to \in Int /\ reader.through \in Int
      /\ steady => reader.through >= reader.q.to \/ reader.through + MaxOutage >= Day(now)
      /\ reader.q.from .. reader.through \subseteq Covered
  BY <1>1, ReaderTypes DEF RInv, ReaderShape, ThroughLate, ThroughWhole
<1>4. ASSUME steady, NEW d \in published \cap Days(reader.q), d \notin items
      PROVE  d + Refresh >= Day(now)
  <2>1. /\ d \in Nat /\ d \notin closes /\ reader.q.from <= d /\ d <= reader.q.to
        /\ Day(now) \in Nat /\ Refresh \in Nat /\ MaxOutage \in Nat /\ MaxOutage <= Refresh
    BY <1>4, ReaderTypes DEF Days
  <2>2. CASE d <= reader.through
    <3>1. d \in Covered \cap published
      BY <1>3, <2>1, <2>2
    <3> QED BY <1>4, <2>1, <3>1 DEF NoCloseLost
  <2>3. CASE d > reader.through
    BY <1>3, <1>4, <2>1, <2>3
  <2> QED BY <1>3, <2>1, <2>2, <2>3
<1>10. ASSUME ~reader.leapt, NEW d \in items, NEW e \in reader.q.from .. d
       PROVE  e \in Covered
  <2>1. d \in Covered /\ d \in Int /\ d <= reader.q.to
    BY <1>3 DEF BInv, StoredIsCovered, Days
  <2>2. CASE e <= reader.through
    BY <1>3, <2>1, <2>2
  <2>3. CASE ~(e <= reader.through)
    <3>1. reader.through + 1 .. d \subseteq Covered
      BY <1>1, <1>3, <1>10, <2>1, <2>3 DEF RInv, BeyondWhole
    <3> QED BY <1>3, <2>1, <2>3, <3>1
  <2> QED BY <2>2, <2>3
<1>5. /\ reader'.q = reader.q /\ reader'.at = "done" /\ reader'.through = reader.through
      /\ reader'.items = items /\ reader'.leapt = reader.leapt /\ Covered' = Covered
  BY <1>1, <1>2 DEF Covered
<1>6. FirstCovered(reader.q)'
  BY <1>1, <1>3, <1>5 DEF FirstCovered
<1>7. ReaderShape'
  BY <1>2, <1>3, <1>6 DEF ReaderShape
<1>8. ThroughLate' /\ ThroughWhole' /\ BeyondWhole'
  BY <1>1, <1>3, <1>5 DEF ThroughLate, ThroughWhole, BeyondWhole
<1>9. AnsweredWhole'
  BY <1>1, <1>4, <1>5, <1>10 DEF AnsweredWhole
<1> QED BY <1>7, <1>8, <1>9 DEF RInv

\* Every step preserves it.
LEMMA NextRInv == BInv /\ CInv /\ NoCloseLost /\ RInv /\ [BenchmarkNext]_benchmarkVars => RInv'
<1> SUFFICES ASSUME BInv, CInv, NoCloseLost, RInv, [BenchmarkNext]_benchmarkVars PROVE RInv'
  OBVIOUS
<1>1. CASE UNCHANGED benchmarkVars
  BY <1>1, AsideRInv DEF benchmarkVars, store
<1>2. CASE Advance \/ Crash \/ AnswerCurve
  <2>1. reader' = Nil
    BY <1>2 DEF Advance, Crash, AnswerCurve
  <2> QED BY <2>1 DEF RInv, ReaderShape, ThroughLate, ThroughWhole, BeyondWhole, AnsweredWhole
<1>3. ASSUME NEW d \in AssetDays \cup {Nil}, SetEarliest(d) PROVE RInv'
  BY <1>3, AsideRInv DEF SetEarliest, store
<1>4. CASE StartTick \/ FetchWindow \/ FailTick \/ Refreshed \/ AskMissing \/ EndTick
  <2>1. UNCHANGED <<reader, now, coverage, published, steady>>
    BY <1>4 DEF StartTick, FetchWindow, FailTick, Refreshed, AskMissing, EndTick, store
  <2> QED BY <2>1, AsideRInv
<1> QED BY <1>1, <1>2, <1>3, <1>4, SaveWindowRInv, PublishRInv, AskCurveRInv, ReadLatestRInv,
        ReadMissingRInv, ReadClosesRInv DEF BenchmarkNext

\* Whatever outages there were, the days from the first to the last close of a curve that is
\* answered have all been fetched, unless between its query for the last covered day and its
\* query for the closes a window was saved that leaps ahead of the others; and in a history
\* without an outage of more than MaxOutage days (steady), whatever windows are saved and closes
\* published between the queries, no close passes for the first that is not there but those the
\* next refresh is to bring (StoredBenchmarks.Fetch against SaveWindow).
THEOREM CurvesHaveNoHole == BenchmarkSpec => []CurveHasNoHole
<1>1. BenchmarkInit => RInv
  BY DEF BenchmarkInit, RInv, ReaderShape, ThroughLate, ThroughWhole, BeyondWhole, AnsweredWhole
<1>2. BInv /\ CInv /\ RInv => CurveHasNoHole
  <2> SUFFICES ASSUME BInv, CInv, RInv, Answered
               PROVE  /\ ~reader.leapt => Span \subseteq Covered
                      /\ steady => \A d \in published \cap Span :
                                      d \notin reader.items => d >= Day(now) - Refresh
    BY DEF CurveHasNoHole
  <2>1. /\ reader.q \in Queries /\ FirstCovered(reader.q)
        /\ reader.q.from \in Int /\ reader.q.to \in Int
        /\ published \subseteq Nat /\ Refresh \in Nat /\ Day(now) \in Nat
    BY ReaderTypes DEF RInv, ReaderShape, Answered
  <2>2. reader.q.from >= 1
    <3>1. PICK w \in coverage : reader.q.from \in Days(w)
      BY <2>1 DEF FirstCovered
    <3>2. w.from \in Int /\ 1 <= w.from
      BY <3>1 DEF CInv, CoverageFits, Past, Window
    <3> QED BY <2>1, <3>1, <3>2 DEF Days
  <2>3. reader.items \subseteq Days(reader.q)
    BY DEF RInv, AnsweredWhole, Answered
  <2>4. reader.q.to \in Nat /\ reader.items \in SUBSET (0 .. reader.q.to) /\ reader.items # {}
    BY <2>1, <2>2, <2>3 DEF Days, Answered
  <2>5. Max(reader.items) \in reader.items
    BY <2>4, MaxIs
  <2>6. ~reader.leapt => Span \subseteq Covered
    BY <2>5 DEF RInv, AnsweredWhole, Answered, Span
  <2>7. ASSUME steady, NEW d \in published \cap Span, d \notin reader.items
        PROVE  d >= Day(now) - Refresh
    <3>1. d \in Days(reader.q) /\ d \in Nat
      BY <2>1, <2>3, <2>5 DEF Days, Span
    <3>2. d + Refresh >= Day(now)
      BY <2>7, <3>1 DEF RInv, AnsweredWhole, Answered
    <3> QED BY <2>1, <3>1, <3>2
  <2> QED BY <2>6, <2>7
<1> QED BY <1>1, <1>2, InitBInv, NextBInv, InitCInv, NextCInv, NextRInv, LateClosesAreKept, PTL DEF BenchmarkSpec
=============================================================================
