------------------------- MODULE StockJournalProofs -------------------------
(***************************************************************************)
(* Proofs about StockJournal, for any drafts, announcements, dates and     *)
(* bounds.  What a sync leaves alone needs nothing about sums: Reconcile   *)
(* touches the automatic entry only, and SInv says what that entry is.     *)
(* That the journal is possible on every day, that the holdings are its    *)
(* replay and that a dividend is what the shares of its record date entitle*)
(* to needs the sums: they are defined by a choice of runs over the entries,*)
(* and the second part proves what they do, by induction over the subsets  *)
(* of a finite set.                                                        *)
(***************************************************************************)
EXTENDS StockJournal, SumTheorems

EntryFields == {"seq", "kind", "date", "qty", "amount", "fx", "pay",
                "voided", "override", "opening"}
BookFields == {"opening", "anchored", "cash", "cashDate", "cashSeq", "entries"}

\* An entry is a record with a date.
EntryShape(e) == DOMAIN e = EntryFields /\ e.date \in Int

\* A journal is a record with an entry for every id.
Shaped(b) ==
    /\ DOMAIN b = BookFields
    /\ DOMAIN b.entries = EntryIds
    /\ \A i \in EntryIds : EntryShape(b.entries[i])

\* The entry under the automatic id, when there is one, is an automatic dividend,
\* and only an entry that exists was edited.
AutoShape(e) ==
    /\ e.seq = 0 => ~e.override
    /\ e.seq # 0 => e.kind = "dividend" /\ e.pay # 0

CacheShape(c) ==
    /\ DOMAIN c = {"known", "pay", "share", "split", "fxFor"}
    /\ c.known => c.pay # 0

JournalShape(b) == Shaped(b) /\ AutoShape(b.entries[Event])

SInv == JournalShape(book) /\ CacheShape(cache)

-----------------------------------------------------------------------------
(***************************************************************************)
(* Reconcile.                                                              *)
(***************************************************************************)

\* The automatic entry, and nothing else, differs.
SameByHand(b, r) ==
    [b EXCEPT !.entries[Event] = NoEntry] = [r EXCEPT !.entries[Event] = NoEntry]

\* Reconciling changes at most the automatic entry, and only for an announcement
\* that is due, not blocked by a split, and whose entry nobody edited.
LEMMA ReconcileCases ==
    ASSUME NEW b, NEW c, NEW today
    PROVE  \/ Reconcile(b, c, today) = b
           \/ /\ Applies(b, c, today)
              /\ \/ /\ Exists(b, Event)
                    /\ Reconcile(b, c, today) = [b EXCEPT !.entries[Event].voided = TRUE]
                 \/ Reconcile(b, c, today) = [b EXCEPT !.entries[Event] = Credit(b, c)]
BY DEF Reconcile

\* What users entered is not touched.
LEMMA SameReconciled ==
    ASSUME NEW b, NEW c, NEW today
    PROVE  SameByHand(b, Reconcile(b, c, today))
BY ReconcileCases DEF SameByHand

\* Nor is an automatic entry that a user has edited or voided.
LEMMA OverrideStays ==
    ASSUME NEW b, NEW c, NEW today, AutoShape(b.entries[Event]), b.entries[Event].override
    PROVE  Reconcile(b, c, today) = b
BY ReconcileCases DEF AutoShape, Applies, Exists

\* A split that blocks the dividend stops the reconciliation.
LEMMA BlockedStays ==
    ASSUME NEW b, NEW c, NEW today, Blocked(b, c)
    PROVE  Reconcile(b, c, today) = b
BY ReconcileCases DEF Applies

\* The entry that is credited.
LEMMA CreditShape ==
    ASSUME NEW b, NEW c
    PROVE  /\ EntryShape(Credit(b, c))
           /\ ~Credit(b, c).override
           /\ Credit(b, c).kind = "dividend"
           /\ Credit(b, c).pay = c.pay
<1>1. ExDate \in Int
  BY JournalAssumption DEF Days
<1>2. /\ DOMAIN Credit(b, c) = EntryFields
      /\ Credit(b, c).date = ExDate
      /\ Credit(b, c).kind = "dividend"
      /\ Credit(b, c).pay = c.pay
      /\ Credit(b, c).override = FALSE
  BY ONLY TRUE DEF Credit, NoEntry, EntryFields
<1> QED BY <1>1, <1>2 DEF EntryShape

\* A journal with another entry under one id.
LEMMA EntryChanged ==
    ASSUME NEW b, Shaped(b), NEW i \in EntryIds, NEW e, EntryShape(e)
    PROVE  /\ Shaped([b EXCEPT !.entries[i] = e])
           /\ [b EXCEPT !.entries[i] = e].entries = [b.entries EXCEPT ![i] = e]
BY DEF Shaped, BookFields

\* A reconciled journal is one, and differs in the automatic entry only.
LEMMA ReconcileShape ==
    ASSUME NEW b, NEW c, NEW today, JournalShape(b), CacheShape(c)
    PROVE  /\ JournalShape(Reconcile(b, c, today))
           /\ \A i \in Ids : Reconcile(b, c, today).entries[i] = b.entries[i]
<1> DEFINE r == Reconcile(b, c, today)
           old == b.entries[Event]
<1>0. Event \in EntryIds /\ Ids \subseteq EntryIds /\ Event \notin Ids /\ Shaped(b) /\ AutoShape(old)
  BY JournalAssumption DEF EntryIds, JournalShape
<1>1. CASE r = b
  BY <1>1 DEF JournalShape
<1>2. CASE Applies(b, c, today) /\ Exists(b, Event) /\ r = [b EXCEPT !.entries[Event].voided = TRUE]
  <2> DEFINE e == [old EXCEPT !.voided = TRUE]
  <2>1. EntryShape(old)
    BY <1>0 DEF Shaped
  <2>2. EntryShape(e) /\ e.seq = old.seq /\ e.override = old.override /\ e.kind = old.kind /\ e.pay = old.pay
    BY <2>1 DEF EntryShape, EntryFields
  <2>3. r = [b EXCEPT !.entries[Event] = e]
    BY <1>2
  <2>a. EntryShape(e)
    BY <2>2
  <2>b. \A x : EntryShape(x) => /\ Shaped([b EXCEPT !.entries[Event] = x])
                               /\ [b EXCEPT !.entries[Event] = x].entries = [b.entries EXCEPT ![Event] = x]
    BY <1>0, EntryChanged
  <2>4. Shaped(r) /\ r.entries = [b.entries EXCEPT ![Event] = e]
    <3> HIDE DEF r, e
    <3> QED BY <2>a, <2>b, <2>3
  <2>5. r.entries[Event] = e /\ \A i \in Ids : r.entries[i] = b.entries[i]
    BY <2>4, <1>0 DEF Shaped
  <2>6. AutoShape(e)
    BY <2>2, <1>0 DEF AutoShape
  <2> QED BY <2>4, <2>5, <2>6 DEF JournalShape
<1>3. CASE Applies(b, c, today) /\ r = [b EXCEPT !.entries[Event] = Credit(b, c)]
  <2>1. Shaped(r) /\ r.entries = [b.entries EXCEPT ![Event] = Credit(b, c)]
    BY <1>3, <1>0, CreditShape, EntryChanged
  <2>2. r.entries[Event] = Credit(b, c) /\ \A i \in Ids : r.entries[i] = b.entries[i]
    BY <2>1, <1>0 DEF Shaped
  <2>3. AutoShape(Credit(b, c))
    BY <1>3, CreditShape DEF AutoShape, Applies, CacheShape
  <2> QED BY <2>1, <2>2, <2>3 DEF JournalShape
<1> QED BY <1>1, <1>2, <1>3, ReconcileCases

-----------------------------------------------------------------------------
(***************************************************************************)
(* Edits by users.                                                         *)
(***************************************************************************)

\* The automatic entry is as it was, or edited.
Edited(b) ==
    /\ JournalShape(b)
    /\ b.entries[Event] = book.entries[Event] \/ b.entries[Event].override

\* A step that commits an edit of the journal, reconciled with the cache.
Commit == \E b : Edited(b) /\ book' = Reconcile(b, cache, day) /\ UNCHANGED cache

\* Saving an edit.
LEMMA SaveCommits ==
    ASSUME NEW b, Edited(b), Save(b), UNCHANGED cache
    PROVE  Commit
BY DEF Save, Commit

\* Another entry under an id of the users.
LEMMA HandEdited ==
    ASSUME SInv, NEW i \in Ids, NEW e, EntryShape(e)
    PROVE  Edited([book EXCEPT !.entries[i] = e])
<1>1. Shaped(book) /\ Event # i /\ i \in EntryIds /\ Event \in EntryIds
  BY JournalAssumption DEF SInv, JournalShape, EntryIds
<1>2. [book EXCEPT !.entries[i] = e].entries = [book.entries EXCEPT ![i] = e]
  BY <1>1, EntryChanged
<1>3. [book EXCEPT !.entries[i] = e].entries[Event] = book.entries[Event]
  BY <1>1, <1>2 DEF Shaped
<1> QED BY <1>1, <1>3, EntryChanged DEF Edited, SInv, JournalShape

\* Other cash or openings.
LEMMA CashEdited ==
    ASSUME SInv, NEW b, DOMAIN b = BookFields, b.entries = book.entries
    PROVE  Edited(b)
BY DEF Edited, SInv, JournalShape, Shaped

\* A draft filled into an entry.
LEMMA FilledShape ==
    ASSUME NEW e, DOMAIN e = EntryFields, NEW d \in Drafts
    PROVE  EntryShape(Filled(e, d))
<1>1. d.date \in Int
  BY JournalAssumption DEF Draft, Days
<1> QED BY <1>1 DEF Filled, EntryShape, EntryFields

-----------------------------------------------------------------------------
(***************************************************************************)
(* Every action.                                                           *)
(***************************************************************************)

\* An entry under an id that has none starts from a full record.
LEMMA NewEntryShape ==
    ASSUME NEW n, NEW o, NEW d \in Drafts
    PROVE  /\ EntryShape(Filled([NoEntry EXCEPT !.seq = n], d))
           /\ EntryShape(Filled([NoEntry EXCEPT !.seq = n, !.opening = o], d))
<1>1. /\ DOMAIN [NoEntry EXCEPT !.seq = n] = EntryFields
      /\ DOMAIN [NoEntry EXCEPT !.seq = n, !.opening = o] = EntryFields
  BY DEF NoEntry, EntryFields
<1> QED BY <1>1, FilledShape

\* A new entry.
LEMMA CreateCommits ==
    ASSUME SInv, NEW i \in Ids, NEW d \in Drafts, Create(i, d)
    PROVE  Commit
<1> DEFINE e == Filled([NoEntry EXCEPT !.seq = NextSeq(book)], d)
<1>1. EntryShape(e)
  BY NewEntryShape
<1>2. Save([book EXCEPT !.entries[i] = e]) /\ UNCHANGED cache
  BY DEF Create
<1> HIDE DEF e
<1> QED BY <1>1, <1>2, HandEdited, SaveCommits

\* The purchase of the opening shares: a new entry and another opening.
LEMMA OpeningCommits ==
    ASSUME SInv, NEW i \in Ids, NEW d \in Drafts, ReplaceOpening(i, d)
    PROVE  Commit
<1> DEFINE e == Filled([NoEntry EXCEPT !.seq = NextSeq(book), !.opening = TRUE], d)
<1>1. EntryShape(e)
  BY NewEntryShape
<1>2. Save([book EXCEPT !.opening = 0, !.entries[i] = e]) /\ UNCHANGED cache
  BY DEF ReplaceOpening
<1> HIDE DEF e
<1>3. DOMAIN book = BookFields
  BY DEF SInv, JournalShape, Shaped
<1>4. /\ DOMAIN [book EXCEPT !.opening = 0, !.entries[i] = e] = BookFields
      /\ [book EXCEPT !.opening = 0, !.entries[i] = e].entries = [book EXCEPT !.entries[i] = e].entries
  BY ONLY <1>3 DEF BookFields
<1>5. Edited([book EXCEPT !.entries[i] = e])
  BY <1>1, HandEdited
<1>6. Edited([book EXCEPT !.opening = 0, !.entries[i] = e])
  BY <1>4, <1>5 DEF Edited, JournalShape, Shaped
<1> QED BY <1>2, <1>6, SaveCommits

\* A correction of the automatic entry, or an edit that marks it.
LEMMA AutoEdited ==
    ASSUME SInv, NEW e, EntryShape(e), e.override, e.seq # 0, e.kind = "dividend", e.pay # 0
    PROVE  Edited([book EXCEPT !.entries[Event] = e])
<1>1. Shaped(book) /\ Event \in EntryIds
  BY DEF SInv, JournalShape, EntryIds
<1>2. /\ Shaped([book EXCEPT !.entries[Event] = e])
      /\ [book EXCEPT !.entries[Event] = e].entries[Event] = e
  BY <1>1, EntryChanged DEF Shaped
<1> QED BY <1>2 DEF Edited, JournalShape, AutoShape

\* A correction: of an entry by hand, or of the automatic one, which is then marked.
LEMMA ReplaceCommits ==
    ASSUME SInv, NEW i \in EntryIds, NEW d \in Drafts, Replace(i, d)
    PROVE  Commit
<1> DEFINE old  == book.entries[i]
           auto == [old EXCEPT !.amount = d.amount, !.fx = d.fx, !.override = TRUE]
           e    == IF IsAutomatic(old) THEN auto ELSE Filled(old, d)
<1>1. EntryShape(old)
  BY DEF SInv, JournalShape, Shaped
<1>2. DOMAIN auto = EntryFields /\ auto.date = old.date /\ auto.seq = old.seq
      /\ auto.kind = old.kind /\ auto.pay = old.pay /\ auto.override = TRUE
  BY <1>1 DEF EntryShape, EntryFields
<1>3. EntryShape(auto)
  BY <1>1, <1>2 DEF EntryShape
<1>4. EntryShape(Filled(old, d))
  BY <1>1, FilledShape DEF EntryShape
<1>5. EntryShape(e)
  BY <1>3, <1>4
<1>6. Save([book EXCEPT !.entries[i] = e]) /\ UNCHANGED cache /\ old.seq # 0
  BY DEF Replace, Live, Exists
<1>7. CASE i = Event
  <2>1. old.kind = "dividend" /\ old.pay # 0
    BY <1>6, <1>7 DEF SInv, JournalShape, AutoShape
  <2>2. e = auto
    BY <2>1 DEF IsAutomatic
  <2>3. e.override /\ e.seq # 0 /\ e.kind = "dividend" /\ e.pay # 0
    BY <1>2, <1>6, <2>1, <2>2
  <2> HIDE DEF e
  <2> QED BY <1>5, <1>6, <1>7, <2>3, AutoEdited, SaveCommits
<1>8. CASE i \in Ids
  <2> HIDE DEF e
  <2> QED BY <1>5, <1>6, <1>8, HandEdited, SaveCommits
<1> QED BY <1>7, <1>8 DEF EntryIds

\* Voiding an entry, which marks it.
LEMMA VoidCommits ==
    ASSUME SInv, NEW i \in EntryIds, Void(i)
    PROVE  Commit
<1> DEFINE old == book.entries[i]
           e   == [old EXCEPT !.voided = TRUE, !.override = TRUE]
<1>1. EntryShape(old) /\ old.seq # 0
  BY DEF SInv, JournalShape, Shaped, Void, Live, Exists
<1>2. DOMAIN e = EntryFields /\ e.date = old.date /\ e.seq = old.seq
      /\ e.kind = old.kind /\ e.pay = old.pay /\ e.override = TRUE
  BY <1>1 DEF EntryShape, EntryFields
<1>3. EntryShape(e)
  BY <1>1, <1>2 DEF EntryShape
<1>4. [book EXCEPT !.entries[i].voided = TRUE, !.entries[i].override = TRUE] = [book EXCEPT !.entries[i] = e]
  BY DEF SInv, JournalShape, Shaped, BookFields
<1>5. Save([book EXCEPT !.entries[i] = e]) /\ UNCHANGED cache
  BY <1>4 DEF Void
<1>6. CASE i = Event
  <2>1. old.kind = "dividend" /\ old.pay # 0
    BY <1>1, <1>6 DEF SInv, JournalShape, AutoShape
  <2>2. e.override /\ e.seq # 0 /\ e.kind = "dividend" /\ e.pay # 0
    BY <1>1, <1>2, <2>1
  <2> HIDE DEF e
  <2> QED BY <1>3, <1>5, <1>6, <2>2, AutoEdited, SaveCommits
<1>7. CASE i \in Ids
  <2> HIDE DEF e
  <2> QED BY <1>3, <1>5, <1>7, HandEdited, SaveCommits
<1> QED BY <1>6, <1>7 DEF EntryIds

\* Entering cash, or dropping the opening shares, touches no entry.
LEMMA CashCommits ==
    ASSUME SInv, NEW amount, SetCash(amount) \/ ClearOpening
    PROVE  Commit
<1>0. DOMAIN book = BookFields
  BY DEF SInv, JournalShape, Shaped
<1>1. CASE SetCash(amount)
  <2> DEFINE b == [book EXCEPT !.anchored = TRUE, !.cash = amount, !.cashDate = day, !.cashSeq = NextSeq(book) - 1]
  <2>1. DOMAIN b = BookFields /\ b.entries = book.entries
    BY ONLY <1>0 DEF BookFields
  <2>2. Save(b) /\ UNCHANGED cache
    BY <1>1 DEF SetCash
  <2> HIDE DEF b
  <2> QED BY <2>1, <2>2, CashEdited, SaveCommits
<1>2. CASE ClearOpening
  <2> DEFINE b == [book EXCEPT !.opening = 0]
  <2>1. DOMAIN b = BookFields /\ b.entries = book.entries
    BY ONLY <1>0 DEF BookFields
  <2>2. Save(b) /\ UNCHANGED cache
    BY <1>2 DEF ClearOpening
  <2> HIDE DEF b
  <2> QED BY <2>1, <2>2, CashEdited, SaveCommits
<1> QED BY <1>1, <1>2

\* A sync commits the journal as it is, or changes nothing.
LEMMA SettleCommits ==
    ASSUME SInv, Settle
    PROVE  \/ UNCHANGED book /\ UNCHANGED cache
           \/ Commit /\ book' = Reconcile(book, cache, day)
<1>1. Edited(book)
  BY DEF Edited, SInv
<1> QED BY <1>1, SaveCommits DEF Settle, Save

\* The holdings saved before the journal: no entries.
LEMMA HoldingsShape ==
    ASSUME NEW h, PutHoldings(h)
    PROVE  /\ JournalShape(book')
           /\ \A i \in EntryIds : book'.entries[i] = NoEntry
           /\ UNCHANGED cache
<1>1. UNCHANGED cache
  BY DEF PutHoldings
<1>2. book' = [Blank EXCEPT !.opening = h.qty, !.anchored = h.cash > 0, !.cash = h.cash,
                            !.cashDate = IF h.cash > 0 THEN day ELSE 0]
  BY DEF PutHoldings
<1>3. DOMAIN book' = BookFields /\ book'.entries = [i \in EntryIds |-> NoEntry]
  BY ONLY <1>2 DEF Blank, BookFields
<1>4. EntryShape(NoEntry) /\ NoEntry.seq = 0 /\ ~NoEntry.override
  BY DEF NoEntry, EntryShape, EntryFields
<1>5. Event \in EntryIds
  BY DEF EntryIds
<1> QED BY <1>1, <1>3, <1>4, <1>5 DEF JournalShape, Shaped, AutoShape

\* What is fetched is an announcement with a payment date.
LEMMA FetchShape ==
    ASSUME CacheShape(cache), FetchDividends
    PROVE  CacheShape(cache')
<1> DEFINE Fields == {"known", "pay", "share", "split", "fxFor"}
<1>1. ASSUME NEW a \in Announcements
      PROVE  CacheShape(Announced(a))
  <2>1. a.pay # 0
    BY JournalAssumption DEF Days
  <2>2. DOMAIN Announced(a) = DOMAIN cache /\ Announced(a).pay = a.pay
    BY DEF CacheShape, Announced
  <2> QED BY <2>1, <2>2 DEF CacheShape
<1>2. PICK c \in {cache} \cup {Announced(a) : a \in Announcements} :
        \/ cache' = [c EXCEPT !.fxFor = c.pay]
        \/ cache' = c
  BY DEF FetchDividends
<1>3. CacheShape(c)
  BY <1>1, <1>2
<1>4. CacheShape([c EXCEPT !.fxFor = c.pay])
  <2>1. /\ DOMAIN [c EXCEPT !.fxFor = c.pay] = DOMAIN c
        /\ [c EXCEPT !.fxFor = c.pay].pay = c.pay
        /\ [c EXCEPT !.fxFor = c.pay].known = c.known
    BY <1>3 DEF CacheShape
  <2> QED BY <1>3, <2>1 DEF CacheShape
<1> QED BY <1>2, <1>3, <1>4

\* Every step leaves the journal alone, saves holdings before it, or commits an edit.
LEMMA Steps ==
    ASSUME SInv, [Next]_vars
    PROVE  \/ UNCHANGED book /\ CacheShape(cache')
           \/ \E h \in Holdings : PutHoldings(h)
           \/ Commit
<1>1. CASE UNCHANGED vars
  BY <1>1 DEF vars, SInv
<1>2. CASE Tomorrow \/ ReadBook \/ GiveUp
  BY <1>2 DEF Tomorrow, ReadBook, GiveUp, SInv
<1>3. CASE FetchDividends
  BY <1>3, FetchShape DEF FetchDividends, SInv
<1>4. CASE Settle
  BY <1>4, SettleCommits DEF SInv
<1>5. CASE Users
  BY <1>5, CreateCommits, OpeningCommits, ReplaceCommits, VoidCommits, CashCommits DEF Users
<1> QED BY <1>1, <1>2, <1>3, <1>4, <1>5 DEF Next

\* The invariant holds at first.
LEMMA InitSInv == Init => SInv
<1> SUFFICES ASSUME Init PROVE SInv
  OBVIOUS
<1>1. DOMAIN book = BookFields /\ book.entries = [i \in EntryIds |-> NoEntry]
  BY DEF Init, Blank, BookFields
<1>2. EntryShape(NoEntry) /\ NoEntry.seq = 0 /\ ~NoEntry.override
  BY DEF NoEntry, EntryShape, EntryFields
<1>3. CacheShape(cache)
  BY DEF Init, Unannounced, CacheShape
<1> QED BY <1>1, <1>2, <1>3 DEF SInv, JournalShape, Shaped, AutoShape, EntryIds

\* And is preserved.
LEMMA NextSInv == SInv /\ [Next]_vars => SInv'
<1> SUFFICES ASSUME SInv, [Next]_vars PROVE SInv'
  OBVIOUS
<1>1. CASE UNCHANGED book /\ CacheShape(cache')
  BY <1>1 DEF SInv, JournalShape
<1>2. CASE \E h \in Holdings : PutHoldings(h)
  BY <1>2, HoldingsShape DEF SInv
<1>3. CASE Commit
  BY <1>3, ReconcileShape DEF Commit, Edited, SInv
<1> QED BY <1>1, <1>2, <1>3, Steps

-----------------------------------------------------------------------------
(***************************************************************************)
(* The properties.                                                         *)
(***************************************************************************)

\* The worker's commit changes nothing that users entered, and no automatic entry
\* that a user has edited or voided, also when they did so while it was fetching.
THEOREM SyncYields == Spec => WorkerYields
<1>1. ASSUME [Next]_vars, worker.pc = "settle", worker'.pc = "idle"
      PROVE  Settle \/ UNCHANGED book
  <2>1. CASE Users
    <3>1. UNCHANGED worker
      BY <2>1 DEF Users, PutHoldings, Create, ReplaceOpening, Replace, Void, SetCash, ClearOpening
    <3> QED BY <1>1, <3>1
  <2>2. CASE Tomorrow \/ ReadBook \/ FetchDividends \/ GiveUp \/ UNCHANGED vars
    BY <2>2 DEF vars, Tomorrow, ReadBook, FetchDividends, GiveUp
  <2> QED BY <1>1, <2>1, <2>2 DEF Next
<1>2. ASSUME SInv, [Next]_vars, worker.pc = "settle", worker'.pc = "idle"
      PROVE  /\ SameByHand(book, book')
             /\ book.entries[Event].override => book'.entries[Event] = book.entries[Event]
  <2>1. book' = book \/ book' = Reconcile(book, cache, day)
    BY <1>1, <1>2, SettleCommits
  <2>2. SameByHand(book, book')
    <3>1. SameByHand(book, book)
      BY DEF SameByHand
    <3>2. SameByHand(book, Reconcile(book, cache, day))
      BY SameReconciled
    <3> QED BY <2>1, <3>1, <3>2
  <2>3. ASSUME book.entries[Event].override
        PROVE  book'.entries[Event] = book.entries[Event]
    <3>1. Reconcile(book, cache, day) = book
      BY <1>2, <2>3, OverrideStays DEF SInv, JournalShape
    <3> QED BY <2>1, <3>1
  <2> QED BY <2>2, <2>3
<1>3. ASSUME SInv, [Next]_vars
      PROVE  worker.pc = "settle" /\ worker'.pc = "idle" =>
               /\ [book EXCEPT !.entries[Event] = NoEntry] = [book' EXCEPT !.entries[Event] = NoEntry]
               /\ book.entries[Event].override => book'.entries[Event] = book.entries[Event]
  BY <1>2, <1>3 DEF SameByHand
<1> QED BY <1>3, InitSInv, NextSInv, PTL DEF Spec, WorkerYields

\* No command and no sync touches the automatic entry of a dividend that a split
\* leaves in doubt, except a user who edits or voids it.
THEOREM SplitsAreSkipped == Spec => SplitSkipped
<1> DEFINE T == {i \in Live(book) : book.entries[i].kind # "dividend" /\ book.entries[i].date <= SplitDate}
<1>1. ASSUME SInv, [Next]_vars, cache'.split, T' # {}, book'.entries[Event] # book.entries[Event]
      PROVE  book'.entries[Event].override
  <2>1. CASE \E h \in Holdings : PutHoldings(h)
    <3>1. \A i \in EntryIds : book'.entries[i] = NoEntry
      BY <2>1, HoldingsShape
    <3>2. T' = {}
      BY <3>1 DEF Live, Exists, NoEntry
    <3> QED BY <1>1, <3>2
  <2>2. CASE Commit
    <3>1. PICK b : Edited(b) /\ book' = Reconcile(b, cache, day) /\ UNCHANGED cache
      BY <2>2 DEF Commit
    <3>2. JournalShape(b) /\ JournalShape(book') /\ \A i \in Ids : book'.entries[i] = b.entries[i]
      BY <1>1, <3>1, ReconcileShape DEF Edited, SInv
    <3>3. PICK i \in EntryIds : /\ book'.entries[i].seq # 0 /\ ~book'.entries[i].voided
                               /\ book'.entries[i].kind # "dividend"
                               /\ book'.entries[i].date <= SplitDate
      BY <1>1 DEF Live, Exists
    <3>4. i \in Ids
      BY <3>2, <3>3 DEF JournalShape, AutoShape, EntryIds
    <3>5. b.entries[i] = book'.entries[i] /\ b.entries[i].date \in Int
      BY <3>2, <3>4 DEF JournalShape, Shaped, EntryShape, EntryIds
    <3>6. b.entries[i].date <= LastEntitled
      BY <3>3, <3>5, JournalAssumption DEF Days
    <3>7. Blocked(b, cache)
      BY <1>1, <3>1, <3>3, <3>5, <3>6 DEF Blocked, EntitlingTrades, Live, Exists
    <3>8. book' = b
      BY <3>1, <3>7, BlockedStays
    <3> QED BY <1>1, <3>1, <3>8 DEF Edited
  <2> QED BY <1>1, <2>1, <2>2, Steps
<1>2. ASSUME SInv, [Next]_vars
      PROVE  cache'.split /\ T' # {} /\ book'.entries[Event] # book.entries[Event]
             => book'.entries[Event].override
  BY <1>1, <1>2
<1> QED BY <1>2, InitSInv, NextSInv, PTL DEF Spec, SplitSkipped
-----------------------------------------------------------------------------
(***************************************************************************)
(* What a commit checks, on every day.                                     *)
(***************************************************************************)

\* A journal whose automatic entry may still be of any amount.
LooseEntry == [seq: Nat, kind: Kinds, date: Days, qty: Int, amount: Int, fx: BOOLEAN,
               pay: {0} \cup PayDates, voided: BOOLEAN, override: BOOLEAN, opening: BOOLEAN]

LooseBook == [opening: Nat, anchored: BOOLEAN, cash: Nat, cashDate: 0..MaxDay, cashSeq: Nat,
              entries: [EntryIds -> LooseEntry]]

\* Only the entry under the automatic id is automatic, it is a dividend, and what
\* users enter is not of the future.
Proper(b, today) ==
    /\ AutoShape(b.entries[Event])
    /\ \A i \in Ids : /\ b.entries[i] \in Entry
                      /\ b.entries[i].pay = 0
                      /\ b.entries[i].seq # 0 => b.entries[i].date <= today

JInv == TypeOK /\ Proper(book, day) /\ HoldingsAreReplay /\ NeverNegative

\* There are finitely many entries.
LEMMA FiniteEntries ==
    ASSUME NEW S \in SUBSET EntryIds
    PROVE  IsFiniteSet(S)
<1>1. IsFiniteSet(EntryIds)
  BY JournalAssumption, FS_AddElement DEF EntryIds
<1> QED BY <1>1, FS_Subset

\* A strict journal is a loose one.
LEMMA BookIsLoose == ASSUME NEW b \in Book PROVE b \in LooseBook
  BY DEF Book, LooseBook, Entry, LooseEntry

\* What the entries of a journal add.
LEMMA Weights ==
    ASSUME NEW b \in LooseBook
    PROVE  \A i \in EntryIds :
             /\ Shares(b)[i] \in Int /\ Payments(b)[i] \in Int
             /\ b.entries[i] \in LooseEntry
             /\ b.entries[i].kind = "dividend" => Shares(b)[i] = 0 /\ Payments(b)[i] = b.entries[i].amount
             /\ b.entries[i].kind = "buy" => Shares(b)[i] = b.entries[i].qty
<1> SUFFICES ASSUME NEW i \in EntryIds
             PROVE  /\ Shares(b)[i] \in Int /\ Payments(b)[i] \in Int
                    /\ b.entries[i] \in LooseEntry
                    /\ b.entries[i].kind = "dividend" => Shares(b)[i] = 0 /\ Payments(b)[i] = b.entries[i].amount
                    /\ b.entries[i].kind = "buy" => Shares(b)[i] = b.entries[i].qty
  OBVIOUS
<1>1. b.entries[i] \in LooseEntry
  BY DEF LooseBook
<1>2. b.entries[i].qty \in Int /\ b.entries[i].amount \in Int
  BY <1>1 DEF LooseEntry
<1> QED BY <1>1, <1>2 DEF Shares, Payments

\* Quantities and balances are numbers.
LEMMA HeldInt ==
    ASSUME NEW b \in LooseBook, NEW S \in SUBSET EntryIds
    PROVE  Held(b, S) \in Int /\ CashAfter(b, S) \in Int
<1>1. b.opening \in Int /\ b.cash \in Int
  BY DEF LooseBook
<1>2. SumFunctionOnSet(Shares(b), S) \in Int /\ SumFunctionOnSet(Payments(b), S) \in Int
  BY Weights, FiniteEntries, SumInt
<1> QED BY <1>1, <1>2 DEF Held, CashAfter

\* The replay order is total and transitive.
LEMMA ReplayOrder ==
    ASSUME NEW b \in LooseBook
    PROVE  /\ \A i, j \in EntryIds : \/ NoLaterThan(b.entries[i], b.entries[j])
                                     \/ NoLaterThan(b.entries[j], b.entries[i])
           /\ \A i, j, k \in EntryIds :
                NoLaterThan(b.entries[i], b.entries[j]) /\ NoLaterThan(b.entries[j], b.entries[k])
                  => NoLaterThan(b.entries[i], b.entries[k])
<1>1. \A i \in EntryIds : /\ b.entries[i].date \in Int /\ b.entries[i].seq \in Int
                          /\ IsAutomatic(b.entries[i]) \in BOOLEAN
  BY DEF LooseBook, LooseEntry, Days, IsAutomatic
<1> QED BY <1>1 DEF NoLaterThan

\* When no sale oversells, there are never less than no shares, on any day.
LEMMA NeverShort ==
    ASSUME NEW b \in LooseBook, NEW S \in SUBSET EntryIds, NeverOversold(b, S),
           \A i \in S : b.entries[i].kind # "dividend" => b.entries[i].qty >= 0,
           NEW T \in SUBSET S, \A i \in T : UpTo(b, S, i) \subseteq T
    PROVE  Held(b, T) >= 0
<1> DEFINE Sales == {i \in T : b.entries[i].kind = "sell"}
           f == Shares(b)
<1>0. /\ \A i \in T : f[i] \in Int
      /\ \A i \in T \ Sales : f[i] >= 0
      /\ b.opening \in Nat
      /\ IsFiniteSet(T) /\ IsFiniteSet(Sales)
  <2>1. \A i \in T \ Sales : b.entries[i].kind \in {"buy", "dividend"}
    BY Weights DEF LooseEntry, Kinds
  <2>2. \A i \in T \ Sales : f[i] >= 0
    BY <2>1, Weights
  <2> QED BY <2>2, Weights, FiniteEntries DEF LooseBook
<1>1. CASE Sales = {}
  <2>1. SumFunctionOnSet(f, {}) <= SumFunctionOnSet(f, T) /\ SumFunctionOnSet(f, T) \in Int
    <3>1. {} \in SUBSET T /\ \A i \in T \ {} : f[i] >= 0
      BY <1>0, <1>1
    <3> QED BY <1>0, <3>1, SumGrows, SumInt
  <2>2. SumFunctionOnSet(f, {}) = 0
    BY FS_EmptySet, SumStep
  <2> QED BY <1>0, <2>1, <2>2 DEF Held
<1>2. CASE Sales # {}
  <2> DEFINE R == {ij \in T \X T : NoLaterThan(b.entries[ij[1]], b.entries[ij[2]])}
  <2>1. \A i, j \in T : <<i, j>> \in R <=> NoLaterThan(b.entries[i], b.entries[j])
    OBVIOUS
  <2>2. /\ \A i, j \in Sales : <<i, j>> \in R \/ <<j, i>> \in R
        /\ \A i, j, k \in Sales : <<i, j>> \in R /\ <<j, k>> \in R => <<i, k>> \in R
    BY <2>1, ReplayOrder
  <2>3. PICK m \in Sales : \A i \in Sales : <<i, m>> \in R
    <3> HIDE DEF R, Sales
    <3> QED BY <1>0, <1>2, <2>2, GreatestOf
  <2> DEFINE U == UpTo(b, S, m)
  <2>4. U \in SUBSET T /\ \A i \in Sales : i \in U
    BY <2>1, <2>3 DEF UpTo
  <2>5. \A i \in T \ U : f[i] >= 0
    BY <1>0, <2>4
  <2>6. SumFunctionOnSet(f, U) <= SumFunctionOnSet(f, T)
    BY <1>0, <2>4, <2>5, SumGrows
  <2>7. Held(b, U) >= 0
    BY <2>3 DEF NeverOversold
  <2>8. SumFunctionOnSet(f, U) \in Int /\ SumFunctionOnSet(f, T) \in Int
    BY <1>0, <2>4, SumInt, FS_Subset
  <2> QED BY <1>0, <2>6, <2>7, <2>8 DEF Held
<1> QED BY <1>1, <1>2

\* The days on which cash moves.
LEMMA CashDates ==
    ASSUME NEW b \in LooseBook
    PROVE  \A i \in EntryIds : CashDate(b.entries[i]) \in Int /\ b.entries[i].seq \in Int
<1>1. PayDates \subseteq Nat
  BY JournalAssumption DEF PayDates
<1>2. \A i \in EntryIds : /\ b.entries[i].date \in Int /\ b.entries[i].seq \in Int
                          /\ b.entries[i].pay \in {0} \cup PayDates
  BY DEF LooseBook, LooseEntry, Days
<1>3. \A i \in EntryIds : b.entries[i].pay \in Int
  <2>1. \A x \in {0} \cup PayDates : x \in Int
    BY <1>1
  <2> QED BY <1>2, <2>1
<1> QED BY <1>2, <1>3 DEF CashDate

\* When no payment overdraws the account, there is never less than no cash, on any day.
LEMMA NeverShortOfCash ==
    ASSUME NEW b \in LooseBook, NEW F \in SUBSET EntryIds, NeverOverdrawn(b, F),
           NEW T \in SUBSET F, \A i \in T : CashUpTo(b, F, i) \subseteq T
    PROVE  CashAfter(b, T) >= 0
<1>1. CASE T = {}
  <2>1. SumFunctionOnSet(Payments(b), {}) = 0
    BY FS_EmptySet, SumStep
  <2> QED BY <1>1, <2>1 DEF CashAfter, LooseBook
<1>2. CASE T # {}
  <2> DEFINE Before(i, j) ==
               LET e == b.entries[i]
                   f == b.entries[j] IN
               CashDate(e) < CashDate(f) \/ (CashDate(e) = CashDate(f) /\ e.seq <= f.seq)
             R == {ij \in T \X T : Before(ij[1], ij[2])}
  <2>1. \A i, j \in T : <<i, j>> \in R <=> Before(i, j)
    OBVIOUS
  <2>2. /\ \A i, j \in T : Before(i, j) \/ Before(j, i)
        /\ \A i, j, k \in T : Before(i, j) /\ Before(j, k) => Before(i, k)
    BY CashDates
  <2>3. /\ \A i, j \in T : <<i, j>> \in R \/ <<j, i>> \in R
        /\ \A i, j, k \in T : <<i, j>> \in R /\ <<j, k>> \in R => <<i, k>> \in R
    <3> HIDE DEF R, Before
    <3> QED BY <2>1, <2>2
  <2>4. PICK m \in T : \A i \in T : <<i, m>> \in R
    <3> HIDE DEF R
    <3>1. IsFiniteSet(T)
      BY FiniteEntries
    <3> QED BY <1>2, <2>3, <3>1, GreatestOf
  <2>5. CashUpTo(b, F, m) = T
    <3>1. \A i \in T : Before(i, m)
      <4> HIDE DEF R
      <4> QED BY <2>1, <2>4
    <3>2. T \subseteq CashUpTo(b, F, m)
      BY <3>1 DEF CashUpTo
    <3> QED BY <3>2
  <2> QED BY <2>5 DEF NeverOverdrawn
<1> QED BY <1>1, <1>2

\* Another entry under one id.
LEMMA BookChanged ==
    ASSUME NEW b \in LooseBook, NEW i \in EntryIds, NEW e \in LooseEntry
    PROVE  LET r == [b EXCEPT !.entries[i] = e] IN
           /\ r \in LooseBook
           /\ r.entries = [b.entries EXCEPT ![i] = e]
           /\ r.entries[i] = e
           /\ \A j \in EntryIds \ {i} : r.entries[j] = b.entries[j]
           /\ r.opening = b.opening
           /\ (\A j \in EntryIds : r.entries[j] \in Entry) => r \in Book
<1> DEFINE r == [b EXCEPT !.entries[i] = e]
<1>1. b.entries \in [EntryIds -> LooseEntry]
  BY DEF LooseBook
<1>2. r = [b EXCEPT !.entries = [b.entries EXCEPT ![i] = e]]
  OBVIOUS
<1>3. [b.entries EXCEPT ![i] = e] \in [EntryIds -> LooseEntry]
  BY <1>1
<1>4. r \in LooseBook /\ r.entries = [b.entries EXCEPT ![i] = e] /\ r.opening = b.opening
  BY <1>2, <1>3 DEF LooseBook
<1>5. ASSUME \A j \in EntryIds : r.entries[j] \in Entry PROVE r \in Book
  <2> HIDE DEF r
  <2>1. r.entries \in [EntryIds -> Entry]
    BY <1>4, <1>5 DEF LooseBook
  <2> QED BY <1>4, <2>1 DEF Book, LooseBook
<1> QED BY <1>1, <1>4, <1>5

\* The number of the next entry.
LEMMA NextSeqOf ==
    ASSUME NEW b, \A i \in EntryIds : b.entries[i].seq \in Nat
    PROVE  NextSeq(b) \in Nat \ {0}
<1> DEFINE S == {b.entries[i].seq : i \in EntryIds}
           f == [i \in EntryIds |-> b.entries[i].seq]
<1>1. S \in SUBSET Nat
  OBVIOUS
<1>2. b.entries[Event].seq \in S
  BY DEF EntryIds
<1>3. IsFiniteSet(S)
  <2>1. f \in Surjection(EntryIds, S)
    BY DEF Surjection
  <2>2. IsFiniteSet(EntryIds)
    BY FiniteEntries
  <2> QED BY <2>1, <2>2, FS_Surjection
<1>4. S \in SUBSET Int
  BY <1>1
<1>5. Max(S) \in S
  <2> HIDE DEF S
  <2> QED BY <1>2, <1>3, <1>4, MaxIs
<1> QED BY <1>1, <1>5 DEF NextSeq

\* That of a journal.
LEMMA NextSeqIs == ASSUME NEW b \in LooseBook PROVE NextSeq(b) \in Nat \ {0}
<1>1. \A i \in EntryIds : b.entries[i].seq \in Nat
  BY DEF LooseBook, LooseEntry
<1> QED BY <1>1, NextSeqOf

\* An automatic dividend.
LEMMA DividendTyped ==
    ASSUME NEW n \in Nat, NEW d \in Days, NEW q \in Int, NEW a \in Int, NEW x \in BOOLEAN,
           NEW p \in {0} \cup PayDates, p # 0
    PROVE  LET e == [NoEntry EXCEPT !.seq = n, !.kind = "dividend", !.date = d, !.qty = q,
                                    !.amount = a, !.fx = x, !.pay = p] IN
           /\ e \in LooseEntry /\ (q \in Nat /\ a \in Nat => e \in Entry)
           /\ AutoShape(e)
<1> DEFINE e == [NoEntry EXCEPT !.seq = n, !.kind = "dividend", !.date = d, !.qty = q,
                                !.amount = a, !.fx = x, !.pay = p]
<1>1. NoEntry \in Entry /\ NoEntry \in LooseEntry
  <2>1. 1 \in Days
    BY JournalAssumption DEF Days
  <2> QED BY <2>1 DEF NoEntry, Entry, LooseEntry, Kinds
<1>2. e \in LooseEntry
  BY <1>1 DEF LooseEntry, Kinds
<1>3. q \in Nat /\ a \in Nat => e \in Entry
  BY <1>1 DEF Entry, Kinds
<1>4. e.override = NoEntry.override /\ e.kind = "dividend" /\ e.pay = p
  BY <1>1 DEF LooseEntry
<1>5. AutoShape(e)
  <2> HIDE DEF e
  <2> QED BY <1>4 DEF AutoShape, NoEntry
<1> QED BY <1>2, <1>3, <1>5

\* The cache of the announcement.
CacheTyped(c) ==
    /\ c \in [known: BOOLEAN, pay: {0} \cup PayDates, share: {0} \cup PerShare,
              split: BOOLEAN, fxFor: {0} \cup PayDates]
    /\ c.known => c.pay # 0

\* A reconciled journal is loosely one, and strictly when no sale oversells: then
\* the shares of the record date are not negative.
LEMMA ReconciledBook ==
    ASSUME NEW b \in Book, NEW c, CacheTyped(c), NEW today \in Days, Proper(b, today)
    PROVE  LET r == Reconcile(b, c, today) IN
           /\ r \in LooseBook
           /\ Proper(r, today)
           /\ NeverOversold(r, Live(r)) => r \in Book
<1> DEFINE r == Reconcile(b, c, today)
           old == b.entries[Event]
<1>0. /\ b \in LooseBook /\ Event \in EntryIds /\ Ids = EntryIds \ {Event}
      /\ old \in Entry /\ \A i \in EntryIds : b.entries[i] \in Entry
  BY BookIsLoose, JournalAssumption DEF Book, EntryIds
<1>1. CASE r = b
  BY <1>0, <1>1
<1>2. ASSUME NEW e \in LooseEntry, r = [b EXCEPT !.entries[Event] = e], AutoShape(e)
      PROVE  /\ r \in LooseBook /\ Proper(r, today) /\ r.opening = b.opening
             /\ r.entries[Event] = e /\ \A i \in Ids : r.entries[i] = b.entries[i]
             /\ e \in Entry => r \in Book
  <2> HIDE DEF r
  <2>1. /\ r \in LooseBook /\ r.opening = b.opening /\ r.entries[Event] = e
        /\ \A i \in Ids : r.entries[i] = b.entries[i]
        /\ (\A i \in EntryIds : r.entries[i] \in Entry) => r \in Book
    BY <1>0, <1>2, BookChanged
  <2>2. Proper(r, today)
    BY <1>2, <2>1 DEF Proper
  <2>3. e \in Entry => \A i \in EntryIds : r.entries[i] \in Entry
    BY <1>0, <2>1
  <2> QED BY <2>1, <2>2, <2>3
<1>3. CASE Exists(b, Event) /\ r = [b EXCEPT !.entries[Event].voided = TRUE]
  <2> DEFINE e == [old EXCEPT !.voided = TRUE]
  <2>0. Entry \subseteq LooseEntry
    BY DEF Entry, LooseEntry
  <2>1. e \in Entry /\ e \in LooseEntry
    <3>1. e \in Entry
      BY ONLY <1>0 DEF Entry
    <3> QED BY <2>0, <3>1
  <2>2. AutoShape(e)
    BY <1>0 DEF AutoShape, Entry, Proper
  <2>3. r = [b EXCEPT !.entries[Event] = e]
    BY <1>3
  <2>4. r \in LooseBook /\ Proper(r, today) /\ r \in Book
    <3> HIDE DEF r, e
    <3> QED BY <1>2, <2>1, <2>2, <2>3
  <2> QED BY <2>4
<1>4. CASE Applies(b, c, today) /\ r = [b EXCEPT !.entries[Event] = Credit(b, c)]
  <2> DEFINE e == Credit(b, c)
             E == EntitlingTrades(b)
             T == {i \in Live(r) : r.entries[i].date <= LastEntitled}
  <2>1. c.known /\ c.pay \in PayDates /\ c.pay # 0 /\ c.share \in Nat /\ (~Foreign \/ c.fxFor = c.pay) \in BOOLEAN
    <3>1. PerShare \subseteq Nat
      BY JournalAssumption DEF PerShare
    <3> QED BY <1>4, <3>1 DEF Applies, CacheTyped
  <2>2. E \in SUBSET EntryIds
    BY DEF EntitlingTrades, Live
  <2>3. Entitled(b) \in Int
    BY <1>0, <2>2, HeldInt DEF Entitled
  <2>4. (IF Exists(b, Event) THEN old.seq ELSE NextSeq(b)) \in Nat
    BY <1>0, NextSeqIs DEF Entry
  <2>5. Entitled(b) * c.share \in Int /\ ExDate \in Days
    BY <2>1, <2>3, JournalAssumption
  <2>6. e \in LooseEntry /\ (Entitled(b) \in Nat => e \in Entry) /\ AutoShape(e)
    <3> DEFINE q == Entitled(b)
               n == IF Exists(b, Event) THEN old.seq ELSE NextSeq(b)
               x == (~Foreign \/ c.fxFor = c.pay)
               a == q * c.share
    <3>1. e = [NoEntry EXCEPT !.seq = n, !.kind = "dividend", !.date = ExDate, !.qty = q,
                              !.amount = a, !.fx = x, !.pay = c.pay]
      BY Zenon DEF Credit
    <3>2. /\ n \in Nat /\ ExDate \in Days /\ q \in Int /\ a \in Int /\ x \in BOOLEAN
          /\ c.pay \in {0} \cup PayDates /\ c.pay # 0
      BY <2>1, <2>3, <2>4, <2>5
    <3>3. q \in Nat => a \in Nat
      BY <2>1
    <3> HIDE DEF e, q, n, x, a
    <3>4. /\ e \in LooseEntry /\ (q \in Nat /\ a \in Nat => e \in Entry)
          /\ AutoShape(e)
      BY <3>1, <3>2, DividendTyped
    <3> QED BY <3>3, <3>4 DEF q
  <2>7. /\ r \in LooseBook /\ Proper(r, today) /\ r.opening = b.opening
        /\ r.entries[Event] = e /\ \A i \in Ids : r.entries[i] = b.entries[i]
        /\ e \in Entry => r \in Book
    <3> HIDE DEF r, e
    <3> QED BY <1>2, <1>4, <2>6 DEF e
  <2>8. ASSUME NeverOversold(r, Live(r)) PROVE Entitled(b) \in Nat
    <3> HIDE DEF r, e
    <3>1. /\ T \in SUBSET Live(r) /\ Live(r) \in SUBSET EntryIds
          /\ \A i \in T : UpTo(r, Live(r), i) \subseteq T
      <4>1. Live(r) \in SUBSET EntryIds /\ T \in SUBSET Live(r)
        BY DEF Live
      <4>2. \A i \in EntryIds : r.entries[i].date \in Int /\ LastEntitled \in Int
        BY <2>7, JournalAssumption DEF LooseBook, LooseEntry, Days
      <4> QED BY <4>1, <4>2 DEF UpTo, NoLaterThan
    <3>2. \A i \in Live(r) : r.entries[i].kind # "dividend" => r.entries[i].qty >= 0
      <4>1. e.kind = "dividend"
        BY CreditShape DEF e
      <4>2. \A i \in Ids : b.entries[i].qty \in Nat
        BY <1>0 DEF Entry
      <4> QED BY <1>0, <2>7, <3>1, <4>1, <4>2
    <3>3. Held(r, T) >= 0
      BY <2>7, <2>8, <3>1, <3>2, NeverShort
    <3>4. \A i \in E : i \in Ids
      BY <1>0, <2>2 DEF EntitlingTrades, Live, Exists, Proper, AutoShape
    <3>5. E \in SUBSET T
      BY <1>0, <2>7, <3>4 DEF EntitlingTrades, Live, Exists
    <3>6. \A i \in T \ E : r.entries[i].kind = "dividend"
      <4>1. e.kind = "dividend"
        BY CreditShape DEF e
      <4>2. \A i \in Ids : i \in T /\ i \notin E => r.entries[i].kind = "dividend"
        BY <1>0, <2>7 DEF EntitlingTrades, Live, Exists
      <4> QED BY <1>0, <2>7, <3>1, <4>1, <4>2
    <3>7. SumFunctionOnSet(Shares(r), E) = SumFunctionOnSet(Shares(r), T)
      <4>1. /\ IsFiniteSet(T) /\ \A i \in T : Shares(r)[i] \in Int
            /\ \A i \in T \ E : Shares(r)[i] = 0
        BY <2>7, <3>1, <3>6, Weights, FiniteEntries
      <4> QED BY <3>5, <4>1, SumSkip
    <3>8. SumFunctionOnSet(Shares(b), E) = SumFunctionOnSet(Shares(r), E)
      <4>1. IsFiniteSet(E)
        BY <2>2, FiniteEntries
      <4>2. \A i \in E : Shares(b)[i] = Shares(r)[i]
        BY <1>0, <2>7, <3>4 DEF Shares
      <4> QED BY <4>1, <4>2, SumSame
    <3>9. Held(b, E) >= 0
      BY <2>7, <3>3, <3>7, <3>8 DEF Held
    <3> QED BY <2>3, <3>9 DEF Entitled
  <2> QED BY <2>6, <2>7, <2>8
<1> QED BY <1>1, <1>3, <1>4, ReconcileCases

-----------------------------------------------------------------------------
(***************************************************************************)
(* Every step keeps the journal possible and the holdings in step with it. *)
(***************************************************************************)

WorkerTyped(w) == w \in [pc: {"idle", "fetch", "settle"}, book: Book, day: Days]

\* A journal that replays was possible on every day, and stays so: what falls due
\* later are automatic dividends.
LEMMA ReplaysForGood ==
    ASSUME NEW b \in Book, NEW today \in Days, Proper(b, today), Replays(b, today), NEW d \in Days
    PROVE  /\ Held(b, {i \in Live(b) : b.entries[i].date <= d}) >= 0
           /\ b.anchored =>
                CashAfter(b, {i \in Flows(b, MaxDay) : CashDate(b.entries[i]) <= d}) >= 0
           /\ QtyOf(b) \in Nat /\ CashOf(b, today) \in Nat
<1> DEFINE T == {i \in Live(b) : b.entries[i].date <= d}
           F == Flows(b, today)
           G == Flows(b, MaxDay)
           K == {i \in F : CashDate(b.entries[i]) <= d}
           L == {i \in G : CashDate(b.entries[i]) <= d}
<1>0. /\ b \in LooseBook /\ Event \in EntryIds /\ Ids = EntryIds \ {Event}
      /\ \A i \in EntryIds : b.entries[i] \in Entry
      /\ today \in Int /\ today <= MaxDay /\ MaxDay \in Nat
  BY BookIsLoose, JournalAssumption DEF Book, EntryIds, Days
<1>1. /\ Live(b) \in SUBSET EntryIds /\ F \in SUBSET EntryIds /\ G \in SUBSET EntryIds
      /\ F \in SUBSET Live(b) /\ G \in SUBSET Live(b)
      /\ T \in SUBSET Live(b) /\ K \in SUBSET F /\ L \in SUBSET G
  BY DEF Live, Flows
<1>2. \A i \in Live(b) : b.entries[i].kind # "dividend" => b.entries[i].qty >= 0
  BY <1>0, <1>1 DEF Entry
<1>3. NeverOversold(b, Live(b))
  BY DEF Replays
<1>4. Held(b, T) >= 0
  <2>1. \A i \in EntryIds : b.entries[i].date \in Int /\ d \in Int
    BY <1>0 DEF Entry, Days
  <2>2. \A i \in T : UpTo(b, Live(b), i) \subseteq T
    BY <1>1, <2>1 DEF UpTo, NoLaterThan
  <2> QED BY <1>0, <1>1, <1>2, <1>3, <2>2, NeverShort
<1>5. QtyOf(b) \in Nat
  <2>1. \A i \in Live(b) : UpTo(b, Live(b), i) \subseteq Live(b)
    BY DEF UpTo
  <2>2. Held(b, Live(b)) >= 0
    BY <1>0, <1>1, <1>2, <1>3, <2>1, NeverShort
  <2> QED BY <1>0, <1>1, <2>2, HeldInt DEF QtyOf
<1>6. CashOf(b, today) \in Nat
  <2>1. CASE ~b.anchored
    BY <2>1 DEF CashOf
  <2>2. CASE b.anchored
    <3>1. NeverOverdrawn(b, F)
      BY <2>2 DEF Replays
    <3>2. \A i \in F : CashUpTo(b, F, i) \subseteq F
      BY DEF CashUpTo
    <3>3. CashAfter(b, F) >= 0
      BY <1>0, <1>1, <3>1, <3>2, NeverShortOfCash
    <3> QED BY <1>0, <1>1, <2>2, <3>3, HeldInt DEF CashOf
  <2> QED BY <2>1, <2>2
<1>7. ASSUME b.anchored PROVE CashAfter(b, L) >= 0
  <2>1. NeverOverdrawn(b, F)
    BY <1>7 DEF Replays
  <2>2. \A i \in EntryIds : CashDate(b.entries[i]) \in Int /\ d \in Int
    BY <1>0, CashDates DEF Days
  <2>3. \A i \in K : CashUpTo(b, F, i) \subseteq K
    BY <1>1, <2>2 DEF CashUpTo
  <2>4. CashAfter(b, K) >= 0
    BY <1>0, <1>1, <2>1, <2>3, NeverShortOfCash
  <2>5. K \in SUBSET L
    <3>1. F \subseteq G
      BY <1>0, <1>1, <2>2 DEF Flows
    <3> QED BY <3>1
  <2>6. ASSUME NEW i \in L \ K PROVE i = Event
    <3>1. i \in Live(b) /\ i \in EntryIds /\ i \notin F /\ i \in G
      BY <1>1, <2>6
    <3>2. ~(CashDate(b.entries[i]) <= today)
      BY <3>1 DEF Flows
    <3>3. i \in Ids => CashDate(b.entries[i]) <= today
      BY <3>1 DEF Proper, Live, Exists, CashDate, IsAutomatic
    <3> QED BY <1>0, <3>1, <3>2, <3>3
  <2>7. ASSUME NEW i \in L \ K PROVE Payments(b)[i] >= 0
    <3>1. i = Event /\ i \in Live(b)
      BY <1>1, <2>6, <2>7
    <3>2. b.entries[i].kind = "dividend" /\ b.entries[i].amount \in Nat
      BY <1>0, <3>1 DEF Live, Exists, Proper, AutoShape, Entry
    <3> QED BY <1>0, <3>1, <3>2, Weights
  <2>8. SumFunctionOnSet(Payments(b), K) <= SumFunctionOnSet(Payments(b), L)
    <3>1. IsFiniteSet(L) /\ \A i \in L : Payments(b)[i] \in Int
      BY <1>0, <1>1, Weights, FiniteEntries
    <3> QED BY <2>5, <2>7, <3>1, SumGrows
  <2>9. SumFunctionOnSet(Payments(b), K) \in Int /\ SumFunctionOnSet(Payments(b), L) \in Int
    <3>1. K \in SUBSET EntryIds /\ L \in SUBSET EntryIds
      BY <1>1
    <3> QED BY <1>0, <3>1, Weights, FiniteEntries, SumInt
  <2>10. b.cash \in Int
    BY DEF Book
  <2> QED BY <2>4, <2>8, <2>9, <2>10 DEF CashAfter
<1> QED BY <1>4, <1>5, <1>6, <1>7

\* A commit.
LEMMA SaveKeeps ==
    ASSUME JInv, SInv, NEW b \in Book, Proper(b, day), Save(b), UNCHANGED <<day, cache>>,
           WorkerTyped(worker')
    PROVE  JInv'
<1>1. CacheTyped(cache) /\ day \in Days /\ day' = day /\ cache' = cache
  BY DEF JInv, TypeOK, SInv, CacheTyped, CacheShape
<1> DEFINE r == Reconcile(b, cache, day)
<1>2. /\ book' = r /\ Replays(r, day) /\ managed' = TRUE
      /\ snapshot' = [version |-> snapshot.version + 1, qty |-> QtyOf(r), cash |-> CashOf(r, day)]
  BY DEF Save
<1> HIDE DEF r
<1>3. r \in Book /\ Proper(r, day)
  <2>1. /\ r \in LooseBook /\ Proper(r, day)
        /\ NeverOversold(r, Live(r)) => r \in Book
    BY <1>1, ReconciledBook DEF r
  <2> QED BY <1>2, <2>1 DEF Replays
<1>4. \A d \in Days :
        /\ Held(r, {i \in Live(r) : r.entries[i].date <= d}) >= 0
        /\ r.anchored =>
             CashAfter(r, {i \in Flows(r, MaxDay) : CashDate(r.entries[i]) <= d}) >= 0
  BY <1>1, <1>2, <1>3, ReplaysForGood
<1>5. QtyOf(r) \in Nat /\ CashOf(r, day) \in Nat
  BY <1>1, <1>2, <1>3, ReplaysForGood
<1>6. TypeOK'
  <2>1. snapshot' \in [version: Nat, qty: Nat, cash: Nat]
    BY <1>2, <1>5 DEF JInv, TypeOK
  <2> QED BY <1>1, <1>2, <1>3, <2>1 DEF JInv, TypeOK, WorkerTyped
<1>7. HoldingsAreReplay'
  <2>1. snapshot'.qty = QtyOf(book') /\ snapshot'.cash = CashOf(book', day)
    BY <1>2
  <2>2. day \in 1..day
    BY <1>1 DEF Days
  <2> QED BY <1>1, <2>1, <2>2 DEF HoldingsAreReplay
<1>8. NeverNegative'
  BY <1>2, <1>4 DEF NeverNegative
<1> QED BY <1>1, <1>2, <1>3, <1>6, <1>7, <1>8 DEF JInv

\* A step that leaves the account alone; the calendar may advance.
LEMMA RestKeeps ==
    ASSUME JInv, UNCHANGED <<managed, book, snapshot>>, TypeOK', day <= day'
    PROVE  JInv'
<1>1. day \in Nat /\ day' \in Nat
  BY DEF JInv, TypeOK, Days
<1>2. Proper(book, day)'
  <2>1. \A i \in EntryIds : book.entries[i].date \in Int
    BY DEF JInv, TypeOK, Book, Entry, Days
  <2>2. Ids \subseteq EntryIds
    BY DEF EntryIds
  <2> QED BY <1>1, <2>1, <2>2 DEF JInv, Proper
<1>3. HoldingsAreReplay'
  <2>1. 1..day \subseteq 1..day'
    BY <1>1
  <2>2. PICK d \in 1..day : snapshot.cash = CashOf(book, d)
    BY DEF JInv, HoldingsAreReplay
  <2>3. d \in 1..day' /\ snapshot'.cash = CashOf(book', d)
    BY <2>1, <2>2
  <2> QED BY <2>3 DEF JInv, HoldingsAreReplay
<1>4. NeverNegative'
  BY DEF JInv, NeverNegative
<1> QED BY <1>2, <1>3, <1>4 DEF JInv

\* A journal without entries.
LEMMA BlankIs ==
    ASSUME NEW b \in Book, \A i \in EntryIds : b.entries[i] = NoEntry, NEW today
    PROVE  /\ Proper(b, today)
           /\ Live(b) = {} /\ Flows(b, today) = {}
           /\ QtyOf(b) = b.opening
           /\ CashOf(b, today) = IF b.anchored THEN b.cash ELSE 0
           /\ \A S \in SUBSET Live(b) : Held(b, S) = b.opening /\ CashAfter(b, S) = b.cash
<1>1. /\ NoEntry.seq = 0 /\ NoEntry.pay = 0 /\ ~NoEntry.override
  BY DEF NoEntry
<1>2. Proper(b, today)
  <2>1. Event \in EntryIds /\ Ids \subseteq EntryIds
    BY DEF EntryIds
  <2>2. \A i \in EntryIds : b.entries[i] \in Entry
    BY DEF Book
  <2> QED BY <1>1, <2>1, <2>2 DEF Proper, AutoShape
<1>3. Live(b) = {} /\ Flows(b, today) = {}
  BY <1>1 DEF Live, Exists, Flows
<1>4. Held(b, {}) = b.opening /\ CashAfter(b, {}) = b.cash
  <2>1. b.opening \in Nat /\ b.cash \in Nat
    BY DEF Book
  <2>2. SumFunctionOnSet(Shares(b), {}) = 0 /\ SumFunctionOnSet(Payments(b), {}) = 0
    BY FS_EmptySet, SumStep
  <2> QED BY <2>1, <2>2 DEF Held, CashAfter
<1> QED BY <1>2, <1>3, <1>4 DEF QtyOf, CashOf

\* The account starts without a journal.
LEMMA BlankTyped == Blank \in Book /\ \A i \in EntryIds : Blank.entries[i] = NoEntry
<1>1. NoEntry \in Entry
  <2>1. 1 \in Days
    BY JournalAssumption DEF Days
  <2> QED BY <2>1 DEF NoEntry, Entry, Kinds
<1>2. [i \in EntryIds |-> NoEntry] \in [EntryIds -> Entry]
  BY <1>1
<1>3. 0 \in 0..MaxDay
  BY JournalAssumption
<1> QED BY <1>2, <1>3 DEF Blank, Book

\* The invariant holds at first.
LEMMA InitJInv == Init => JInv
<1> SUFFICES ASSUME Init PROVE JInv
  OBVIOUS
<1>1. book = Blank /\ day = 1 /\ managed = FALSE
  BY DEF Init
<1>2. 1 \in Days
  BY JournalAssumption DEF Days
<1>3. TypeOK
  <2>1. snapshot \in [version: Nat, qty: Nat, cash: Nat]
    BY DEF Init
  <2>2. cache \in [known: BOOLEAN, pay: {0} \cup PayDates, share: {0} \cup PerShare,
                  split: BOOLEAN, fxFor: {0} \cup PayDates]
    BY DEF Init, Unannounced
  <2>3. worker \in [pc: {"idle", "fetch", "settle"}, book: Book, day: Days]
    BY <1>2, BlankTyped DEF Init, Resting
  <2> QED BY <1>1, <1>2, <2>1, <2>2, <2>3, BlankTyped DEF TypeOK
<1>4. Proper(book, day) /\ QtyOf(book) = book.opening
      /\ CashOf(book, day) = IF book.anchored THEN book.cash ELSE 0
  BY <1>1, BlankTyped, BlankIs
<1>5. book.opening = 0 /\ book.anchored = FALSE /\ snapshot.qty = 0 /\ snapshot.cash = 0
  BY <1>1 DEF Init, Blank
<1>6. HoldingsAreReplay
  <2>1. 1 \in 1..day
    BY <1>1
  <2>2. snapshot.qty = QtyOf(book) /\ snapshot.cash = CashOf(book, 1)
    BY <1>1, <1>4, <1>5
  <2> QED BY <2>1, <2>2 DEF HoldingsAreReplay
<1>7. NeverNegative
  <2>1. \A S \in SUBSET Live(book) : Held(book, S) = 0
    BY <1>1, <1>5, BlankTyped, BlankIs
  <2>2. \A d \in Days : {i \in Live(book) : book.entries[i].date <= d} \in SUBSET Live(book)
    OBVIOUS
  <2>3. \A d \in Days : Held(book, {i \in Live(book) : book.entries[i].date <= d}) = 0
    BY <2>1, <2>2
  <2> QED BY <1>1, <2>3 DEF NeverNegative
<1> QED BY <1>3, <1>4, <1>6, <1>7 DEF JInv

\* The worker at rest.
LEMMA RestingTyped == WorkerTyped(Resting)
<1>1. 1 \in Days
  BY JournalAssumption DEF Days
<1> QED BY <1>1, BlankTyped DEF Resting, WorkerTyped

\* The stored journal with another entry under one id: of the users, not of the
\* future, or the automatic one.
LEMMA EntryKept ==
    ASSUME JInv, NEW i \in EntryIds, NEW e \in Entry,
           i = Event => AutoShape(e),
           i # Event => e.pay = 0 /\ (e.seq # 0 => e.date <= day)
    PROVE  /\ [book EXCEPT !.entries[i] = e] \in Book
           /\ Proper([book EXCEPT !.entries[i] = e], day)
<1> DEFINE r == [book EXCEPT !.entries[i] = e]
<1>1. /\ book \in Book /\ book \in LooseBook /\ e \in LooseEntry
      /\ \A j \in EntryIds : book.entries[j] \in Entry
      /\ Event \in EntryIds /\ Ids = EntryIds \ {Event}
      /\ Proper(book, day)
  <2>1. book \in Book /\ Proper(book, day)
    BY DEF JInv, TypeOK
  <2>2. Entry \subseteq LooseEntry
    BY DEF Entry, LooseEntry
  <2>3. \A j \in EntryIds : book.entries[j] \in Entry
    BY <2>1 DEF Book
  <2>4. Event \in EntryIds /\ Ids = EntryIds \ {Event}
    BY JournalAssumption DEF EntryIds
  <2> QED BY <2>1, <2>2, <2>3, <2>4, BookIsLoose
<1>2. /\ r.entries[i] = e
      /\ \A j \in EntryIds \ {i} : r.entries[j] = book.entries[j]
      /\ (\A j \in EntryIds : r.entries[j] \in Entry) => r \in Book
  BY <1>1, BookChanged
<1> HIDE DEF r
<1>3. \A j \in EntryIds : r.entries[j] \in Entry
  BY <1>1, <1>2
<1>4. Proper(r, day)
  BY <1>1, <1>2, <1>3 DEF Proper
<1> QED BY <1>2, <1>3, <1>4 DEF r

\* A draft filled into an entry.
LEMMA FilledTyped ==
    ASSUME NEW e \in Entry, NEW d \in Drafts
    PROVE  /\ Filled(e, d) \in Entry
           /\ Filled(e, d).pay = e.pay /\ Filled(e, d).date = d.date
<1>1. d \in Draft
  BY JournalAssumption
<1> QED BY <1>1 DEF Filled, Entry, Draft

\* A new entry.
LEMMA NewTyped ==
    ASSUME NEW n \in Nat, NEW o \in BOOLEAN, NEW d \in Drafts
    PROVE  LET e == Filled([NoEntry EXCEPT !.seq = n, !.opening = o], d) IN
           /\ e \in Entry /\ e.pay = 0 /\ e.date = d.date
           /\ Filled([NoEntry EXCEPT !.seq = n], d) \in Entry
           /\ Filled([NoEntry EXCEPT !.seq = n], d).pay = 0
           /\ Filled([NoEntry EXCEPT !.seq = n], d).date = d.date
<1>1. NoEntry \in Entry
  BY BlankTyped DEF Blank, Book, EntryIds
<1>2. /\ [NoEntry EXCEPT !.seq = n] \in Entry
      /\ [NoEntry EXCEPT !.seq = n, !.opening = o] \in Entry
      /\ [NoEntry EXCEPT !.seq = n].pay = NoEntry.pay
      /\ [NoEntry EXCEPT !.seq = n, !.opening = o].pay = NoEntry.pay
  BY <1>1 DEF Entry
<1>3. NoEntry.pay = 0
  BY DEF NoEntry
<1> QED BY <1>2, <1>3, FilledTyped

\* The holdings saved before the journal are its opening.
LEMMA PutHoldingsKeeps ==
    ASSUME JInv, NEW h \in Holdings, PutHoldings(h)
    PROVE  JInv'
<1>0. /\ h \in [qty: Nat, cash: Nat] /\ day \in Days /\ 0 \in 0..MaxDay /\ Days \subseteq 0..MaxDay
      /\ day' = day
  BY JournalAssumption DEF JInv, TypeOK, PutHoldings, Days
<1>1. /\ book' = [Blank EXCEPT !.opening = h.qty, !.anchored = h.cash > 0, !.cash = h.cash,
                               !.cashDate = IF h.cash > 0 THEN day ELSE 0]
      /\ snapshot' = [version |-> snapshot.version + 1, qty |-> h.qty, cash |-> h.cash]
      /\ managed = FALSE /\ managed' = managed /\ cache' = cache /\ worker' = worker
  BY DEF PutHoldings, JInv, TypeOK
<1>2. /\ book' \in Book /\ book'.entries = Blank.entries
      /\ book'.opening = h.qty /\ book'.cash = h.cash /\ book'.anchored = (h.cash > 0)
  <2> DEFINE a == h.cash > 0
             x == IF h.cash > 0 THEN day ELSE 0
             q == h.qty
             c == h.cash
  <2>1. a \in BOOLEAN /\ x \in 0..MaxDay /\ q \in Nat /\ c \in Nat
    BY <1>0
  <2>2. book' = [Blank EXCEPT !.opening = q, !.anchored = a, !.cash = c, !.cashDate = x]
    BY <1>1
  <2>3. Blank \in Book
    BY BlankTyped
  <2> HIDE DEF a, x, q, c
  <2>4. /\ book' \in Book /\ book'.entries = Blank.entries
        /\ book'.opening = q /\ book'.cash = c /\ book'.anchored = a
    BY <2>1, <2>2, <2>3 DEF Book
  <2> QED BY <2>4 DEF a, q, c
<1>3. \A i \in EntryIds : book'.entries[i] = NoEntry
  BY <1>2, BlankTyped
<1>4. /\ Proper(book', day) /\ QtyOf(book') = book'.opening
      /\ CashOf(book', day) = IF book'.anchored THEN book'.cash ELSE 0
      /\ \A S \in SUBSET Live(book') : Held(book', S) = book'.opening
  BY <1>2, <1>3, BlankIs
<1>5. TypeOK'
  <2>1. snapshot' \in [version: Nat, qty: Nat, cash: Nat]
    BY <1>0, <1>1 DEF JInv, TypeOK
  <2> QED BY <1>0, <1>1, <1>2, <2>1 DEF JInv, TypeOK
<1>6. HoldingsAreReplay'
  <2>1. snapshot'.qty = h.qty /\ snapshot'.cash = h.cash
    BY <1>1
  <2>2. h.cash = IF book'.anchored THEN book'.cash ELSE 0
    <3>1. book'.anchored <=> h.cash > 0
      BY Zenon, <1>2
    <3>2. ~(h.cash > 0) => h.cash = 0
      BY <1>0
    <3>3. book'.cash = h.cash
      BY <1>2
    <3> QED BY Zenon, <3>1, <3>2, <3>3
  <2>3. snapshot'.qty = QtyOf(book') /\ snapshot'.cash = CashOf(book', day)
    BY <1>2, <1>4, <2>1, <2>2
  <2>4. day \in 1..day
    BY <1>0 DEF Days
  <2> QED BY <1>0, <2>3, <2>4 DEF HoldingsAreReplay
<1>7. NeverNegative'
  <2>1. \A d \in Days : {i \in Live(book') : book'.entries[i].date <= d} \in SUBSET Live(book')
    OBVIOUS
  <2>2. \A d \in Days : Held(book', {i \in Live(book') : book'.entries[i].date <= d}) >= 0
    BY <1>0, <1>2, <1>4, <2>1
  <2> QED BY <1>1, <2>2 DEF NeverNegative
<1> QED BY <1>0, <1>4, <1>5, <1>6, <1>7 DEF JInv

\* A new entry.
LEMMA CreateKeeps ==
    ASSUME JInv, SInv, NEW i \in Ids, NEW d \in Drafts, Create(i, d)
    PROVE  JInv'
<1> DEFINE e == Filled([NoEntry EXCEPT !.seq = NextSeq(book)], d)
<1>1. NextSeq(book) \in Nat
  BY BookIsLoose, NextSeqIs DEF JInv, TypeOK
<1>2. e \in Entry /\ e.pay = 0 /\ e.date = d.date
  BY <1>1, NewTyped
<1>3. d.date <= day /\ Save([book EXCEPT !.entries[i] = e]) /\ UNCHANGED <<day, cache, worker>>
  BY DEF Create, Admissible
<1>4. i \in EntryIds /\ i # Event
  BY JournalAssumption DEF EntryIds
<1>5. WorkerTyped(worker')
  BY <1>3 DEF JInv, TypeOK, WorkerTyped
<1> HIDE DEF e
<1> QED BY <1>2, <1>3, <1>4, <1>5, EntryKept, SaveKeeps

\* The purchase of the opening shares.
LEMMA OpeningKeeps ==
    ASSUME JInv, SInv, NEW i \in Ids, NEW d \in Drafts, ReplaceOpening(i, d)
    PROVE  JInv'
<1> DEFINE e == Filled([NoEntry EXCEPT !.seq = NextSeq(book), !.opening = TRUE], d)
           b == [book EXCEPT !.entries[i] = e]
           r == [book EXCEPT !.opening = 0, !.entries[i] = e]
<1>1. NextSeq(book) \in Nat
  BY BookIsLoose, NextSeqIs DEF JInv, TypeOK
<1>2. e \in Entry /\ e.pay = 0 /\ e.date = d.date
  BY <1>1, NewTyped
<1>3. d.date <= day /\ Save(r) /\ UNCHANGED <<day, cache, worker>>
  BY DEF ReplaceOpening, Admissible
<1>4. i \in EntryIds /\ i # Event
  BY JournalAssumption DEF EntryIds
<1>5. WorkerTyped(worker')
  BY <1>3 DEF JInv, TypeOK, WorkerTyped
<1> HIDE DEF e
<1>6. b \in Book /\ Proper(b, day)
  BY <1>2, <1>3, <1>4, EntryKept
<1>7. r = [b EXCEPT !.opening = 0]
  <2>1. DOMAIN book = BookFields
    BY DEF SInv, JournalShape, Shaped
  <2> QED BY ONLY <2>1 DEF BookFields
<1> HIDE DEF b, r
<1>8. r \in Book /\ r.entries = b.entries
  BY <1>6, <1>7 DEF Book
<1>9. Proper(r, day)
  BY <1>6, <1>8 DEF Proper
<1> QED BY <1>3, <1>5, <1>8, <1>9, SaveKeeps

\* A correction.
LEMMA ReplaceKeeps ==
    ASSUME JInv, SInv, NEW i \in EntryIds, NEW d \in Drafts, Replace(i, d)
    PROVE  JInv'
<1> DEFINE old  == book.entries[i]
           auto == [old EXCEPT !.amount = d.amount, !.fx = d.fx, !.override = TRUE]
           e    == IF IsAutomatic(old) THEN auto ELSE Filled(old, d)
<1>1. /\ old \in Entry /\ old.seq # 0 /\ Proper(book, day) /\ d \in Draft
      /\ d.date <= day /\ Save([book EXCEPT !.entries[i] = e]) /\ UNCHANGED <<day, cache, worker>>
  BY JournalAssumption DEF JInv, TypeOK, Book, Replace, Live, Exists, Admissible
<1>2. WorkerTyped(worker')
  BY <1>1 DEF JInv, TypeOK, WorkerTyped
<1>3. auto \in Entry /\ auto.kind = old.kind /\ auto.pay = old.pay /\ auto.override = TRUE
      /\ auto.seq = old.seq
  <2>1. d.amount \in Nat /\ d.fx \in BOOLEAN
    BY <1>1 DEF Draft
  <2> QED BY <1>1, <2>1 DEF Entry
<1>4. CASE i = Event
  <2>1. AutoShape(old) /\ IsAutomatic(old)
    BY <1>1, <1>4 DEF Proper, AutoShape, IsAutomatic
  <2>2. e = auto
    BY <2>1
  <2>3. AutoShape(auto)
    BY <1>1, <1>3, <2>1 DEF AutoShape
  <2> HIDE DEF e, auto
  <2> QED BY <1>1, <1>2, <1>3, <1>4, <2>2, <2>3, EntryKept, SaveKeeps
<1>5. CASE i \in Ids
  <2>1. i # Event /\ ~IsAutomatic(old) /\ old.pay = 0
    BY <1>1, <1>5, JournalAssumption DEF Proper, IsAutomatic
  <2>2. e = Filled(old, d)
    BY <2>1
  <2>3. e \in Entry /\ e.pay = 0 /\ e.date = d.date
    BY <1>1, <2>1, <2>2, FilledTyped
  <2> HIDE DEF e
  <2> QED BY <1>1, <1>2, <2>1, <2>3, EntryKept, SaveKeeps
<1> QED BY <1>4, <1>5 DEF EntryIds

\* A voided entry.
LEMMA VoidKeeps ==
    ASSUME JInv, SInv, NEW i \in EntryIds, Void(i)
    PROVE  JInv'
<1> DEFINE old == book.entries[i]
           e   == [old EXCEPT !.voided = TRUE, !.override = TRUE]
<1>1. /\ old \in Entry /\ old.seq # 0 /\ Proper(book, day) /\ UNCHANGED <<day, cache, worker>>
  BY DEF JInv, TypeOK, Book, Void, Live, Exists
<1>2. WorkerTyped(worker')
  BY <1>1 DEF JInv, TypeOK, WorkerTyped
<1>3. e \in Entry /\ e.kind = old.kind /\ e.pay = old.pay /\ e.seq = old.seq /\ e.date = old.date
  BY <1>1 DEF Entry
<1>4. Save([book EXCEPT !.entries[i] = e])
  <2>1. [book EXCEPT !.entries[i].voided = TRUE, !.entries[i].override = TRUE] = [book EXCEPT !.entries[i] = e]
    BY DEF SInv, JournalShape, Shaped, BookFields
  <2> QED BY <2>1 DEF Void
<1>5. i = Event => AutoShape(e)
  BY <1>1, <1>3 DEF Proper, AutoShape
<1>6. i # Event => e.pay = 0 /\ e.date <= day
  BY <1>1, <1>3 DEF Proper, EntryIds
<1> HIDE DEF e
<1> QED BY <1>1, <1>2, <1>3, <1>4, <1>5, <1>6, EntryKept, SaveKeeps

\* The same entries with other openings or cash.
LEMMA SameEntriesKeep ==
    ASSUME JInv, SInv, NEW b \in Book, b.entries = book.entries, Save(b),
           UNCHANGED <<day, cache, worker>>
    PROVE  JInv'
<1>1. Proper(b, day)
  BY DEF JInv, Proper
<1>2. WorkerTyped(worker')
  BY DEF JInv, TypeOK, WorkerTyped
<1> QED BY <1>1, <1>2, SaveKeeps

\* Another balance.
LEMMA CashKeeps ==
    ASSUME JInv, SInv, NEW amount \in CashInputs, SetCash(amount)
    PROVE  JInv'
<1> DEFINE n == NextSeq(book) - 1
           b == [book EXCEPT !.anchored = TRUE, !.cash = amount, !.cashDate = day, !.cashSeq = n]
<1>1. /\ book \in Book /\ day \in 0..MaxDay /\ amount \in Nat /\ n \in Nat
      /\ UNCHANGED <<day, cache, worker>>
  BY JournalAssumption, BookIsLoose, NextSeqIs DEF JInv, TypeOK, SetCash, Days
<1>2. Save(b)
  BY DEF SetCash
<1>3. b \in Book /\ b.entries = book.entries
  <2> HIDE DEF n
  <2> QED BY <1>1 DEF Book
<1> HIDE DEF b
<1> QED BY <1>1, <1>2, <1>3, SameEntriesKeep

\* No opening shares.
LEMMA ClearOpeningKeeps ==
    ASSUME JInv, SInv, ClearOpening
    PROVE  JInv'
<1> DEFINE b == [book EXCEPT !.opening = 0]
<1>1. b \in Book /\ b.entries = book.entries
  BY DEF JInv, TypeOK, Book
<1>2. Save(b) /\ UNCHANGED <<day, cache, worker>>
  BY DEF ClearOpening
<1> HIDE DEF b
<1> QED BY <1>1, <1>2, SameEntriesKeep

\* A sync commits the journal as it is, or changes nothing.
LEMMA SettleKeeps ==
    ASSUME JInv, SInv, Settle
    PROVE  JInv'
<1>1. worker' = Resting /\ UNCHANGED <<day, cache>> /\ day \in Nat
  BY DEF Settle, JInv, TypeOK, Days
<1>2. WorkerTyped(worker')
  BY <1>1, RestingTyped
<1>3. CASE Save(book)
  BY <1>1, <1>2, <1>3, SaveKeeps DEF JInv, TypeOK
<1>4. CASE UNCHANGED <<managed, book, snapshot>>
  <2>1. TypeOK'
    BY <1>1, <1>2, <1>4 DEF JInv, TypeOK, WorkerTyped
  <2> QED BY <1>1, <1>4, <2>1, RestKeeps
<1> QED BY <1>3, <1>4 DEF Settle

\* What is fetched is an announcement, with the rate of its payment date or none.
LEMMA FetchKeeps ==
    ASSUME JInv, FetchDividends
    PROVE  JInv'
<1> DEFINE C == [known: BOOLEAN, pay: {0} \cup PayDates, share: {0} \cup PerShare,
                 split: BOOLEAN, fxFor: {0} \cup PayDates]
<1>1. cache \in C /\ day \in Nat /\ UNCHANGED <<day, managed, book, snapshot>>
  BY DEF JInv, TypeOK, FetchDividends, Days
<1>2. ASSUME NEW a \in Announcements PROVE Announced(a) \in C
  <2>1. a.pay \in PayDates /\ a.share \in PerShare
    BY DEF PayDates, PerShare
  <2>2. a.split \in BOOLEAN
    BY JournalAssumption
  <2> DEFINE s == cache.split \/ a.split
  <2>3. s \in BOOLEAN /\ Announced(a) = [cache EXCEPT !.known = TRUE, !.pay = a.pay, !.share = a.share, !.split = s]
    BY <1>1, <2>2 DEF Announced
  <2> HIDE DEF s
  <2> QED BY <1>1, <2>1, <2>3
<1>3. PICK c \in {cache} \cup {Announced(a) : a \in Announcements} :
        \/ cache' = [c EXCEPT !.fxFor = c.pay]
        \/ cache' = c
  BY DEF FetchDividends
<1>4. c \in C
  BY <1>1, <1>2
<1>5. cache' \in C
  BY <1>3, <1>4
<1>6. WorkerTyped(worker')
  BY DEF FetchDividends, JInv, TypeOK, WorkerTyped
<1>7. TypeOK'
  BY <1>1, <1>5, <1>6 DEF JInv, TypeOK, WorkerTyped
<1> QED BY <1>1, <1>7, RestKeeps

\* And every step preserves the invariant.
LEMMA NextJInv == JInv /\ SInv /\ [Next]_vars => JInv'
<1> SUFFICES ASSUME JInv, SInv, [Next]_vars PROVE JInv'
  OBVIOUS
<1>0. day \in Nat /\ day \in Days
  BY DEF JInv, TypeOK, Days
<1>1. CASE UNCHANGED vars
  <2>1. TypeOK' /\ UNCHANGED <<day, managed, book, snapshot>>
    BY <1>1 DEF vars, JInv, TypeOK
  <2> QED BY <1>0, <2>1, RestKeeps
<1>2. CASE Tomorrow
  <2>1. TypeOK' /\ UNCHANGED <<managed, book, snapshot>> /\ day' = day + 1
    BY <1>0, <1>2, JournalAssumption DEF Tomorrow, JInv, TypeOK, Days
  <2> QED BY <1>0, <2>1, RestKeeps
<1>3. CASE ReadBook
  <2>1. WorkerTyped(worker')
    BY <1>3 DEF ReadBook, JInv, TypeOK, WorkerTyped
  <2>2. TypeOK' /\ UNCHANGED <<day, managed, book, snapshot>>
    BY <1>3, <2>1 DEF ReadBook, JInv, TypeOK, WorkerTyped
  <2> QED BY <1>0, <2>2, RestKeeps
<1>4. CASE GiveUp
  <2>1. TypeOK' /\ UNCHANGED <<day, managed, book, snapshot>>
    BY <1>4, RestingTyped DEF GiveUp, JInv, TypeOK, WorkerTyped
  <2> QED BY <1>0, <2>1, RestKeeps
<1>5. CASE FetchDividends
  BY <1>5, FetchKeeps
<1>6. CASE Settle
  BY <1>6, SettleKeeps
<1>7. CASE Users
  <2>1. CASE \E h \in Holdings : PutHoldings(h)
    BY <2>1, PutHoldingsKeeps
  <2>2. CASE \E i \in Ids, d \in Drafts : Create(i, d) \/ ReplaceOpening(i, d)
    BY <2>2, CreateKeeps, OpeningKeeps
  <2>3. CASE \E i \in EntryIds, d \in Drafts : Replace(i, d)
    BY <2>3, ReplaceKeeps
  <2>4. CASE \E i \in EntryIds : Void(i)
    BY <2>4, VoidKeeps
  <2>5. CASE \E amount \in CashInputs : SetCash(amount)
    BY <2>5, CashKeeps
  <2>6. CASE ClearOpening
    BY <2>6, ClearOpeningKeeps
  <2> QED BY <1>7, <2>1, <2>2, <2>3, <2>4, <2>5, <2>6 DEF Users
<1> QED BY <1>1, <1>2, <1>3, <1>4, <1>5, <1>6, <1>7 DEF Next

\* Every variable stays in its type: in particular no entry, no automatic dividend
\* and no stored holding is ever negative.
THEOREM Typing == Spec => []TypeOK
<1>1. JInv => TypeOK
  BY DEF JInv
<1> QED BY <1>1, InitJInv, NextJInv, InitSInv, NextSInv, PTL DEF Spec

\* The stored holdings are those of the journal: the shares at any time, the cash
\* but for dividends that have fallen due since the last commit.
THEOREM HoldingsFollow == Spec => []HoldingsAreReplay
<1>1. JInv => HoldingsAreReplay
  BY DEF JInv
<1> QED BY <1>1, InitJInv, NextJInv, InitSInv, NextSInv, PTL DEF Spec

\* On no day of the calendar, past or to come, does a stored journal hold less than
\* no shares, or less than no cash after the balance a user entered.
THEOREM NothingNegative == Spec => []NeverNegative
<1>1. JInv => NeverNegative
  BY DEF JInv
<1> QED BY <1>1, InitJInv, NextJInv, InitSInv, NextSInv, PTL DEF Spec

-----------------------------------------------------------------------------
(***************************************************************************)
(* The automatic dividend.                                                 *)
(***************************************************************************)
\* The entitlement depends on the entries of users only.
LEMMA SameEntitled ==
    ASSUME NEW b, NEW r, JournalShape(b), JournalShape(r), r.opening = b.opening,
           \A i \in Ids : r.entries[i] = b.entries[i]
    PROVE  Entitled(r) = Entitled(b)
<1> DEFINE S == EntitlingTrades(b)
<1>1. EntitlingTrades(r) = S /\ S \subseteq Ids
  <2>1. Event \notin EntitlingTrades(r) /\ Event \notin S
    BY DEF EntitlingTrades, Live, Exists, JournalShape, AutoShape
  <2> QED BY <2>1 DEF EntitlingTrades, Live, Exists, EntryIds
<1>2. ASSUME NEW T \in SUBSET S PROVE Held(r, T) = Held(b, T)
  <2>1. IsFiniteSet(T)
    BY <1>1, FiniteEntries DEF EntryIds
  <2>2. \A i \in T : Shares(r)[i] = Shares(b)[i]
    BY <1>1 DEF Shares, EntryIds
  <2>3. SumFunctionOnSet(Shares(r), T) = SumFunctionOnSet(Shares(b), T)
    BY <2>1, <2>2, SumSame
  <2> QED BY <2>3 DEF Held
<1> HIDE DEF S
<1>3. \A i \in S : UpTo(r, S, i) = UpTo(b, S, i)
  BY <1>1 DEF UpTo
<1>4. CostKnown(r, S) <=> CostKnown(b, S)
  <2>1. \A i \in S : Held(r, UpTo(r, S, i) \ {i}) = Held(b, UpTo(b, S, i) \ {i})
    <3> TAKE i \in S
    <3>1. UpTo(b, S, i) \ {i} \in SUBSET S
      BY DEF UpTo
    <3> QED BY <1>2, <1>3, <3>1
  <2>2. \A i \in S : r.entries[i].kind = b.entries[i].kind
    BY <1>1
  <2> QED BY <2>1, <2>2 DEF CostKnown
<1>5. Held(r, S) = Held(b, S)
  BY <1>2
<1> QED BY <1>1, <1>4, <1>5 DEF Entitled, S

\* A step that changes the holdings saves them before the journal, or commits an edit.
LEMMA HoldingsSteps ==
    ASSUME SInv, [Next]_vars, snapshot' # snapshot, managed'
    PROVE  Commit /\ day' = day
<1>1. CASE Tomorrow \/ ReadBook \/ GiveUp \/ FetchDividends \/ UNCHANGED vars
  BY <1>1 DEF Tomorrow, ReadBook, GiveUp, FetchDividends, vars
<1>2. CASE Settle
  <2>1. Save(book) /\ UNCHANGED <<day, cache>>
    BY <1>2 DEF Settle
  <2>2. Edited(book)
    BY DEF Edited, SInv
  <2> QED BY <2>1, <2>2, SaveCommits
<1>3. ASSUME NEW h \in Holdings, PutHoldings(h) PROVE FALSE
  BY <1>3 DEF PutHoldings
<1>4. CASE \E i \in Ids, d \in Drafts : Create(i, d) \/ ReplaceOpening(i, d)
  BY <1>4, CreateCommits, OpeningCommits DEF Create, ReplaceOpening
<1>5. CASE \E i \in EntryIds, d \in Drafts : Replace(i, d)
  BY <1>5, ReplaceCommits DEF Replace
<1>6. CASE (\E i \in EntryIds : Void(i)) \/ (\E amount \in CashInputs : SetCash(amount)) \/ ClearOpening
  BY <1>6, VoidCommits, CashCommits DEF Void, SetCash, ClearOpening
<1> QED BY <1>1, <1>2, <1>3, <1>4, <1>5, <1>6 DEF Next, Users

\* The entry that reconciling leaves pays what the journal it leaves entitles to.
LEMMA ReconcilePays ==
    ASSUME NEW b, NEW c, NEW today, JournalShape(b), CacheShape(c),
           \A i \in EntryIds : Reconcile(b, c, today).entries[i].seq \in Nat,
           c.known, ExDate <= today, ~Blocked(Reconcile(b, c, today), c),
           ~Reconcile(b, c, today).entries[Event].override,
           ~PaidByHand(Reconcile(b, c, today), c)
    PROVE  LET r == Reconcile(b, c, today) IN
           IF Event \in Live(r) THEN r.entries[Event].amount = Entitled(r) * c.share
                                ELSE Entitled(r) = 0
<1> DEFINE r == Reconcile(b, c, today)
<1>1. JournalShape(r) /\ \A i \in Ids : r.entries[i] = b.entries[i]
  BY ReconcileShape
<1>2. r.opening = b.opening
  <2>1. "opening" \in DOMAIN b /\ \A e : [b EXCEPT !.entries[Event] = e].opening = b.opening
    BY DEF JournalShape, Shaped, BookFields
  <2>2. [b EXCEPT !.entries[Event].voided = TRUE].opening = b.opening
    BY DEF JournalShape, Shaped, BookFields
  <2> QED BY <2>1, <2>2, ReconcileCases
<1>3. Entitled(r) = Entitled(b)
  <2> HIDE DEF r
  <2> QED BY <1>1, <1>2, SameEntitled
<1>4. Event \in EntryIds /\ Ids \subseteq EntryIds
  BY DEF EntryIds
<1>5. Applies(b, c, today)
  <2> SUFFICES ASSUME ~Applies(b, c, today) PROVE FALSE
    OBVIOUS
  <2>1. r = b
    BY DEF Reconcile
  <2> QED BY <2>1 DEF Applies
<1>6. CASE Entitled(b) = 0
  <2>1. Event \notin Live(r)
    <3>1. CASE Exists(b, Event)
      <4>1. r = [b EXCEPT !.entries[Event].voided = TRUE]
        BY <1>5, <1>6, <3>1 DEF Reconcile
      <4>2. r.entries[Event].voided
        BY <1>4, <4>1 DEF JournalShape, Shaped, EntryShape, BookFields, EntryFields
      <4> QED BY <4>2 DEF Live
    <3>2. CASE ~Exists(b, Event)
      <4>1. r = b
        BY <1>5, <1>6, <3>2 DEF Reconcile
      <4> QED BY <3>2, <4>1 DEF Live
    <3> QED BY <3>1, <3>2
  <2> QED BY <1>3, <1>6, <2>1
<1>7. CASE Entitled(b) # 0
  <2>1. ~PaidByHand(b, c)
    BY <1>5, <1>7 DEF Reconcile
  <2>2. r = [b EXCEPT !.entries[Event] = Credit(b, c)]
    BY <1>5, <1>7, <2>1 DEF Reconcile
  <2>3. r.entries[Event] = Credit(b, c)
    BY <1>4, <2>2 DEF JournalShape, Shaped, BookFields
  <2>4. Credit(b, c).amount = Entitled(b) * c.share
    BY DEF Credit, NoEntry
  <2>5. Credit(b, c).seq # 0 /\ ~Credit(b, c).voided
    <3>1. CASE Exists(b, Event)
      BY <3>1 DEF Exists, Credit, NoEntry
    <3>2. CASE ~Exists(b, Event)
      <4>1. \A i \in EntryIds : b.entries[i].seq \in Nat
        BY <1>1, <3>2 DEF Exists, EntryIds
      <4>2. NextSeq(b) \in Nat \ {0}
        BY <4>1, NextSeqOf
      <4> HIDE DEF r
      <4> QED BY <3>2, <4>2 DEF Credit, NoEntry
    <3> QED BY <3>1, <3>2
  <2>6. Event \in Live(r)
    BY <1>4, <2>3, <2>5 DEF Live, Exists
  <2> QED BY <1>3, <2>3, <2>4, <2>6
<1> QED BY <1>6, <1>7

\* After every commit the automatic entry pays exactly the announced dividend on the
\* shares of the record date, however trades were corrected, or there is none when
\* there were no shares (reconcileStockDividends).
THEOREM DividendsPayRecordDate == Spec => PaysRecordDate
<1>1. ASSUME JInv, JInv', SInv, [Next]_vars, managed', snapshot' # snapshot,
             cache'.known, ExDate <= day', ~Blocked(book', cache'),
             ~book'.entries[Event].override, ~PaidByHand(book', cache')
      PROVE  IF Event \in Live(book')
             THEN book'.entries[Event].amount = Entitled(book') * cache'.share
             ELSE Entitled(book') = 0
  <2>1. Commit /\ day' = day
    BY <1>1, HoldingsSteps
  <2>2. PICK b : Edited(b) /\ book' = Reconcile(b, cache, day) /\ UNCHANGED cache
    BY <2>1 DEF Commit
  <2>3. JournalShape(b) /\ CacheShape(cache)
    BY <1>1, <2>2 DEF Edited, SInv
  <2>4. \A i \in EntryIds : book'.entries[i].seq \in Nat
    BY <1>1 DEF JInv, TypeOK, Book, Entry
  <2> QED BY <1>1, <2>1, <2>2, <2>3, <2>4, ReconcilePays
<1>2. HeldOnRecordDate' = Entitled(book')
  BY DEF HeldOnRecordDate, Entitled, EntitlingTrades, Live, Exists, CostKnown, Held, Shares, UpTo, NoLaterThan, IsAutomatic
<1>3. ASSUME JInv, JInv', SInv, [Next]_vars
      PROVE  LET e == book'.entries[Event] IN
             /\ managed' /\ snapshot' # snapshot
             /\ cache'.known /\ ExDate <= day' /\ ~Blocked(book', cache')
             /\ ~e.override /\ ~PaidByHand(book', cache')
             => IF Event \in Live(book')
                THEN e.amount = HeldOnRecordDate' * cache'.share
                ELSE HeldOnRecordDate' = 0
  BY <1>1, <1>2, <1>3
<1> QED BY <1>3, InitJInv, NextJInv, InitSInv, NextSInv, PTL DEF Spec, PaysRecordDate

=============================================================================
