------------------------- MODULE LedgerCommands -------------------------
(* The commands of the investment ledger: accounts, the records of an account, its  *)
(* import, its current holdings, its stock journal, and portfolios of accounts.      *)
(* Every command is one immediate SQLite transaction that looks its key up in        *)
(* idempotency_receipts, checks, writes, appends to audit_log and stores its receipt; *)
(* a command by MCP looks the key up, asks a provider over the network, and only then *)
(* opens that transaction.  A command that is refused writes nothing, and is no step. *)
(*                                                                                   *)
(* A row of a table is reduced to its version; what the command wrote into it is told *)
(* apart by that version.  The audit and the receipts are kept for ever.             *)
EXTENDS Integers, FiniteSets

CONSTANTS
    Keys,           \* idempotency keys
    Accounts,       \* account ids
    Portfolios,     \* portfolio ids
    Manual,         \* ids of records entered by hand
    Imported,       \* the id of the record an import writes
    Digests,        \* spreadsheets to import
    MaxCalls,       \* bound: different MCP writes in flight at once
    MaxVersion,     \* bound: versions up to which commands are sent
    None            \* no thing, no row, no owner

Records == Manual \cup {Imported}

ASSUME LedgerAssumption ==
    /\ Imported \notin Manual
    /\ None \notin Keys \cup Accounts \cup Portfolios \cup Records
    /\ MaxVersion \in Nat /\ MaxCalls \in Nat
    /\ IsFiniteSet(Accounts)

-----------------------------------------------------------------------------
\* What has a version.  Things of an account name it as their owner.
Thing(table, account, id) == [table |-> table, owner |-> account, id |-> id]

Account(a)   == Thing("account", a, None)
Record(a, r) == Thing("account_record", a, r)
Holdings(a)  == Thing("current_holdings", a, None)
Journal(a)   == Thing("stock_journal", a, None)
Group(p)     == Thing("portfolio", None, p)

\* Entities that only the audit knows.
Deletion(a)    == Thing("account_delete", a, None)
Manifest(a)    == Thing("import", a, None)
Command(k, a)  == Thing("stock_command", a, k)
McpWrite(k, a) == Thing("mcp_stock_write", a, k)

Groups == {Group(p) : p \in Portfolios}
Tables == {Account(a) : a \in Accounts} \cup {Record(a, r) : a \in Accounts, r \in Records}
            \cup {Holdings(a) : a \in Accounts} \cup {Journal(a) : a \in Accounts} \cup Groups

VARIABLES
    version,        \* the version of the row of a thing, 0 when there is none
    voided,         \* the records that are voided
    members,        \* the accounts of a portfolio, in its payload
    audit,          \* the rows of audit_log: thing, version, what was done, whose key
    receipts,       \* idempotency_receipts: key, request and audit row
    calls,          \* MCP writes between their two transactions
    serving,        \* Open has ended: the store takes commands
    answer          \* the last answer that was sent

vars == <<version, voided, members, audit, receipts, calls, serving, answer>>

Intent(kind, target, expected, data) ==
    [kind |-> kind, target |-> target, expected |-> expected, data |-> data]
Row(t, v, data, k) == [thing |-> t, version |-> v, data |-> data, by |-> k]
Did(action) == [action |-> action]

Live(a) == version[Account(a)] > 0
Deleted(a) == \E r \in audit : r.thing = Deletion(a)
Used(p) == \E r \in audit : r.thing = Group(p)
Manifests(a) == {r \in audit : r.thing = Manifest(a)}
Versions == 0 .. MaxVersion - 1

\* The rows a command appends for things whose next version it writes.
Written(things, data, k) == {Row(t, version[t] + 1, data, k) : t \in things}
Advanced(things) == [t \in Tables |-> version[t] + IF t \in things THEN 1 ELSE 0]

-----------------------------------------------------------------------------
\* A command whose key has no receipt, in a store that serves.
Begin(k) == serving /\ \A r \in receipts : r.key # k

\* appendAudit, saveReceipt and the answer, in the transaction of the command.
Commit(k, intent, proof, rows) ==
    /\ audit' = audit \cup rows
    /\ answer' = [key |-> k, intent |-> intent, proof |-> proof]
    /\ receipts' = receipts \cup {answer'}

\* A command that writes the next version of one thing and nothing else.
WriteOne(k, kind, t, v, data) ==
    /\ version[t] = v
    /\ version' = Advanced({t})
    /\ LET row == Row(t, v + 1, data, k)
       IN Commit(k, Intent(kind, t, v, data), row, {row})

\* Mutant: the id of a deleted account may be taken again.
CreateReservedAccount(k, a) ==
    /\ Begin(k)
    /\ WriteOne(k, "reported_account", Account(a), 0, Did("create"))
    /\ UNCHANGED <<voided, members, calls, serving>>

CreateReportedAccount(k, a) ==
    /\ Begin(k)
    /\ ~Deleted(a)
    /\ WriteOne(k, "reported_account", Account(a), 0, Did("create"))
    /\ UNCHANGED <<voided, members, calls, serving>>

UpdateAccountName(k, a, v) ==
    /\ Begin(k)
    /\ Live(a)
    /\ WriteOne(k, "account_profile", Account(a), v, Did("replace"))
    /\ UNCHANGED <<voided, members, calls, serving>>

CreateRecord(k, a, r) ==
    /\ Begin(k)
    /\ Live(a)
    /\ WriteOne(k, "account_record", Record(a, r), 0, Did("create"))
    /\ UNCHANGED <<voided, members, calls, serving>>

ReviseRecord(k, a, r, v, action) ==
    /\ Begin(k)
    /\ Live(a)
    /\ v > 0
    /\ Record(a, r) \notin voided
    /\ WriteOne(k, "account_record", Record(a, r), v, Did(action))
    /\ voided' = IF action = "void" THEN voided \cup {Record(a, r)} ELSE voided
    /\ UNCHANGED <<members, calls, serving>>

PutCurrentHoldings(k, a, v) ==
    /\ Begin(k)
    /\ Live(a)
    /\ version[Journal(a)] = 0
    /\ WriteOne(k, "current_holdings", Holdings(a), v, Did("replace"))
    /\ UNCHANGED <<voided, members, calls, serving>>

-----------------------------------------------------------------------------
\* removeAccountFromPortfolios: the portfolios the account a is a member of.
MemberOf(a) == {p \in Portfolios : version[Group(p)] > 0 /\ a \in members[p]}

Removal(a, k) ==
    {Row(Group(p), version[Group(p)] + 1,
         Did(IF members[p] = {a} THEN "delete" ELSE "replace"), k) : p \in MemberOf(a)}

\* What an account owns has no rows any more; a portfolio that is left empty is retired.
VersionsWithout(a) ==
    [t \in Tables |->
        IF t.owner = a \/ \E p \in MemberOf(a) : t = Group(p) /\ members[p] = {a} THEN 0
        ELSE IF \E p \in MemberOf(a) : t = Group(p) THEN version[t] + 1
        ELSE version[t]]

DeleteAccount(k, a) ==
    /\ Begin(k)
    /\ Live(a)
    /\ version' = VersionsWithout(a)
    /\ members' = [p \in Portfolios |-> IF p \in MemberOf(a) THEN members[p] \ {a} ELSE members[p]]
    /\ voided' = {t \in voided : t.owner # a}
    /\ LET row == Row(Deletion(a), 1, Did("delete"), k)
       IN Commit(k, Intent("account_delete", Deletion(a), 0, Did("delete")), row,
                 {row} \cup Removal(a, k))
    /\ UNCHANGED <<calls, serving>>

-----------------------------------------------------------------------------
ImportIntent(a, d, create) ==
    Intent("import", Manifest(a), 0, [digest |-> d, create |-> create])

\* ConfirmAccountImport of an account without a manifest: it creates the account, or
\* finds it without records, and writes the manifest and the records.
ConfirmImport(k, a, d, create) ==
    LET new == {Record(a, Imported)} \cup IF create THEN {Account(a)} ELSE {}
        row == Row(Manifest(a), 1, [digest |-> d, create |-> create], k)
    IN  /\ Begin(k)
        /\ ~Deleted(a)
        /\ Manifests(a) = {}
        /\ Live(a) # create
        /\ \A r \in Records : version[Record(a, r)] = 0
        /\ version' = Advanced(new)
        /\ Commit(k, ImportIntent(a, d, create), row, {row} \cup Written(new, Did("create"), k))
        /\ UNCHANGED <<voided, members, calls, serving>>

\* The same spreadsheet under another key gets a receipt for the manifest there is.
ConfirmImportAgain(k, a, d, create) ==
    /\ Begin(k)
    /\ Live(a)
    /\ \E row \in Manifests(a) :
           /\ row.data.digest = d
           /\ create => row.data.create
           /\ version[Record(a, Imported)] > 0
           /\ Commit(k, ImportIntent(a, d, create), row, {})
    /\ UNCHANGED <<version, voided, members, calls, serving>>

-----------------------------------------------------------------------------
PortfolioData(action, accounts) == [action |-> action, members |-> accounts]

CreatePortfolio(k, p, accounts) ==
    /\ Begin(k)
    /\ ~Used(p)
    /\ \A a \in accounts : Live(a)
    /\ WriteOne(k, "portfolio", Group(p), 0, PortfolioData("create", accounts))
    /\ members' = [members EXCEPT ![p] = accounts]
    /\ UNCHANGED <<voided, calls, serving>>

\* Mutant: the members of a portfolio are checked when it is created only.
ReplaceUnchecked(k, p, v, accounts) ==
    /\ Begin(k)
    /\ v > 0
    /\ WriteOne(k, "portfolio", Group(p), v, PortfolioData("replace", accounts))
    /\ members' = [members EXCEPT ![p] = accounts]
    /\ UNCHANGED <<voided, calls, serving>>

ReplacePortfolio(k, p, v, accounts) ==
    /\ Begin(k)
    /\ v > 0
    /\ \A a \in accounts : Live(a)
    /\ WriteOne(k, "portfolio", Group(p), v, PortfolioData("replace", accounts))
    /\ members' = [members EXCEPT ![p] = accounts]
    /\ UNCHANGED <<voided, calls, serving>>

DeletePortfolio(k, p, v) ==
    LET data == PortfolioData("delete", {})
        row == Row(Group(p), v + 1, data, k)
    IN  /\ Begin(k)
        /\ v > 0
        /\ version[Group(p)] = v
        /\ version' = [version EXCEPT ![Group(p)] = 0]
        /\ members' = [members EXCEPT ![p] = {}]
        /\ Commit(k, Intent("portfolio", Group(p), v, data), row, {row})
        /\ UNCHANGED <<voided, calls, serving>>

-----------------------------------------------------------------------------
\* Mutant: a stock command trusts the version it was sent with, and 0 is no row at all.
ApplyStockBlind(k, kind, a, v, proof) ==
    LET things == {Holdings(a), Journal(a)}
    IN  /\ version[Holdings(a)] = v
        /\ version' = Advanced(things)
        /\ Commit(k, Intent(kind, Holdings(a), v, Did("create")), proof,
                  {proof} \cup Written(things, Did("replace"), k))

\* applyStockCommandTx: a stock command saves the holdings and the journal.
ApplyStock(k, kind, a, v, proof) ==
    LET things == {Holdings(a), Journal(a)}
    IN  /\ Live(a)
        /\ version[Holdings(a)] = v
        /\ version' = Advanced(things)
        /\ Commit(k, Intent(kind, Holdings(a), v, Did("create")), proof,
                  {proof} \cup Written(things, Did("replace"), k))

WriteStock(k, a, v) ==
    /\ Begin(k)
    /\ ApplyStock(k, "stock_command", a, v, Row(Command(k, a), 1, Did("create"), k))
    /\ UNCHANGED <<voided, members, calls, serving>>

\* An MCP write has found no receipt and asks for the identity of its instrument; its
\* account and version are checked by the second transaction only.
McpLookup(k, a, v) ==
    /\ Begin(k)
    /\ Cardinality(calls) < MaxCalls
    /\ calls' = calls \cup {[key |-> k, account |-> a, expected |-> v]}
    /\ UNCHANGED <<version, voided, members, audit, receipts, serving, answer>>

\* The identity is known: the second transaction looks the key up again.  The request
\* stays in flight, as it may have been sent more than once.
McpCommit(c) ==
    /\ Begin(c.key)
    /\ ApplyStock(c.key, "mcp_stock_write", c.account, c.expected,
                  Row(McpWrite(c.key, c.account), 1, Did("create"), c.key))
    /\ UNCHANGED <<voided, members, calls, serving>>

\* The provider failed, the key was used, the version has moved or the answer is sent.
McpEnd(c) ==
    /\ calls' = calls \ {c}
    /\ UNCHANGED <<version, voided, members, audit, receipts, serving, answer>>

\* The dividend worker saves a journal without a key, whatever its version is.
SyncDividends(a) ==
    LET things == {Holdings(a), Journal(a)}
    IN  /\ serving
        /\ Live(a)
        /\ version[Journal(a)] > 0
        /\ version[Holdings(a)] < MaxVersion
        /\ version' = Advanced(things)
        /\ audit' = audit \cup Written(things, Did("replace"), None)
        /\ UNCHANGED <<voided, members, receipts, calls, serving, answer>>

-----------------------------------------------------------------------------
\* Mutant: a receipt of a record is held against the version the record has now.
ProvenNow(r) ==
    /\ r.proof \in audit
    /\ r.intent.kind = "account_record" => version[r.intent.target] = r.intent.expected + 1

\* validateAccountReceipt, validateImportReceipt, validatePortfolioReceipt and the
\* checks of the other commands: the state still proves what the receipt r says.
Proven(r) ==
    LET t == r.intent.target
        a == t.owner
        v == r.intent.expected + 1
    IN  /\ r.proof \in audit
        /\ r.intent.kind = "reported_account" => version[t] = 1
        /\ r.intent.kind = "account_profile"  => version[t] = v
        /\ r.intent.kind = "account_delete"   => ~Live(a)
        /\ r.intent.kind = "account_record"   => version[t] >= v
        /\ r.intent.kind = "import"           => /\ Live(a)
                                                 /\ r.proof \in Manifests(a)
                                                 /\ version[Record(a, Imported)] > 0
        /\ r.intent.kind = "portfolio" =>
               IF r.intent.data.action = "delete" THEN version[t] = 0 ELSE version[t] >= v

\* loadReceipt answers no receipt of a deleted account but that of the deletion.
Erased(r) == /\ r.intent.kind # "account_delete"
             /\ r.proof.thing.owner # None
             /\ Deleted(r.proof.thing.owner)

\* A key that has a receipt is sent again, with the request it was sent with.
Replay(k, intent) ==
    /\ serving
    /\ \E r \in receipts :
           /\ r.key = k
           /\ r.intent = intent
           /\ ~Erased(r)
           /\ Proven(r)
           /\ answer' = r
    /\ UNCHANGED <<version, voided, members, audit, receipts, calls, serving>>

-----------------------------------------------------------------------------
\* reconcileDeletedPortfolioMembers: deletions of an earlier version of the program
\* left their accounts in the portfolios; each removal writes a version.
Gone(p) == {a \in members[p] : Deleted(a) /\ ~Live(a)}
Broken == {p \in Portfolios : version[Group(p)] > 0 /\ Gone(p) # {}}

Repairs ==
    UNION {{Row(Group(p), version[Group(p)] + n,
                Did(IF n = Cardinality(members[p]) THEN "delete" ELSE "replace"), None) :
            n \in 1 .. Cardinality(Gone(p))} : p \in Broken}

VersionsRepaired ==
    [t \in Tables |->
        IF \E p \in Broken : t = Group(p) /\ Gone(p) = members[p] THEN 0
        ELSE IF \E p \in Broken : t = Group(p)
             THEN version[t] + Cardinality(Gone(CHOOSE p \in Broken : t = Group(p)))
             ELSE version[t]]

Open ==
    /\ ~serving
    /\ version' = VersionsRepaired
    /\ members' = [p \in Portfolios |-> members[p] \ Gone(p)]
    /\ audit' = audit \cup Repairs
    /\ serving' = TRUE
    /\ UNCHANGED <<voided, receipts, calls, answer>>

\* The process stops or is killed; SQLite keeps what was committed.
Stop ==
    /\ serving
    /\ serving' = FALSE
    /\ calls' = {}
    /\ UNCHANGED <<version, voided, members, audit, receipts, answer>>

\* A database as an earlier version of the program may have left it: some accounts
\* live, some deleted, and portfolios that may still list either.
Init ==
    \E live, dead \in SUBSET Accounts, list \in [Portfolios -> SUBSET Accounts] :
        /\ live \cap dead = {}
        /\ \A p \in Portfolios : list[p] \subseteq live \cup dead
        /\ version = [t \in Tables |->
                          IF \/ \E a \in live : t = Account(a)
                             \/ \E p \in Portfolios : t = Group(p) /\ list[p] # {}
                          THEN 1 ELSE 0]
        /\ voided = {}
        /\ members = list
        /\ audit = {Row(Account(a), 1, Did("create"), None) : a \in live \cup dead}
                     \cup {Row(Deletion(a), 1, Did("delete"), None) : a \in dead}
                     \cup {Row(Group(p), 1, Did("create"), None) : p \in {q \in Portfolios : list[q] # {}}}
        /\ receipts = {}
        /\ calls = {}
        /\ serving = FALSE
        /\ answer = None

Next ==
    \/ Open
    \/ Stop
    \/ \E a \in Accounts : SyncDividends(a)
    \/ \E c \in calls : McpCommit(c) \/ McpEnd(c)
    \/ \E k \in Keys, a \in Accounts :
           \/ CreateReportedAccount(k, a)
           \/ DeleteAccount(k, a)
           \/ \E v \in Versions :
                  \/ UpdateAccountName(k, a, v)
                  \/ PutCurrentHoldings(k, a, v)
                  \/ WriteStock(k, a, v)
                  \/ McpLookup(k, a, v)
                  \/ \E r \in Records, action \in {"replace", "void"} : ReviseRecord(k, a, r, v, action)
           \/ \E r \in Manual : CreateRecord(k, a, r)
           \/ \E d \in Digests, create \in BOOLEAN :
                  ConfirmImport(k, a, d, create) \/ ConfirmImportAgain(k, a, d, create)
    \/ \E k \in Keys, p \in Portfolios, v \in Versions :
           \/ DeletePortfolio(k, p, v)
           \/ \E accounts \in (SUBSET Accounts) \ {{}} :
                  CreatePortfolio(k, p, accounts) \/ ReplacePortfolio(k, p, v, accounts)
    \/ \E k \in Keys : \E r \in receipts : Replay(k, r.intent)

Spec == Init /\ [][Next]_vars

-----------------------------------------------------------------------------
\* Types: what is stored about a thing, a key or a call has the shape its reader expects,
\* and only portfolios that exist have members.
TypeOK ==
    /\ version \in [Tables -> Nat]
    /\ voided \subseteq Tables
    /\ members \in [Portfolios -> SUBSET Accounts]
    /\ \A r \in audit : r.version \in Nat \ {0} /\ r.by \in Keys \cup {None}
    /\ \A r \in receipts : r.key \in Keys /\ r.proof \in audit
    /\ calls \subseteq [key : Keys, account : Accounts, expected : Nat]
    /\ serving \in BOOLEAN
    /\ \A p \in Portfolios : version[Group(p)] > 0 <=> members[p] # {}

\* Commands keep what OnceOnly promises: a key stands for one command, which is
\* performed once, at the version its author saw, together with its receipt, and no
\* version of an account, record, portfolio or holdings is written twice, be ids
\* deleted, databases reopened or calls repeated while they are in flight.
Once == INSTANCE OnceOnly WITH done <- audit, owner <- receipts
ImplementsOnceOnly == Once!Spec

\* A store that serves has no portfolio with an account that does not exist, however
\* deletions, edits of portfolios and databases of an earlier version follow on each other.
MembersLive ==
    serving => \A p \in Portfolios : \A a \in members[p] : Live(a)

\* A deleted account stays deleted: no command, retry or call that was in flight when it
\* was deleted, and no worker, leaves a row behind or brings its id back.
DeletedGone ==
    \A a \in Accounts : Deleted(a) => \A t \in Tables : t.owner = a => version[t] = 0

\* The receipts of records, imports, holdings, stock commands, portfolios and deletions
\* stay provable whatever happens later: a retry is never answered as corrupt data while
\* its account, or its portfolio, exists.
ReceiptsStand ==
    \A r \in receipts :
        \/ Erased(r)
        \/ r.intent.kind \in {"reported_account", "account_profile"}
        \/ r.intent.kind = "portfolio" /\ version[r.intent.target] = 0
        \/ Proven(r)

\* The same request under the same key gets the same result as long as its account exists.
RetryAnswered == \A r \in receipts : Erased(r) \/ Proven(r) \/ r.intent.kind = "portfolio"
=============================================================================
