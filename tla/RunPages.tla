----------------------------- MODULE RunPages -----------------------------
(***************************************************************************)
(* Reading the rows of a run while it appends them: the audit and activity *)
(* pages of storage (src/storage/runs/read.rs, behind src/paper.rs and     *)
(* src/api/trading.rs) and the console that joins them                     *)
(* (src/web/trading.js).  Each page is two queries on one connection, and  *)
(* rows may be written between the two and between two pages.              *)
(*                                                                         *)
(* Pages tell rows apart by run_sequence, here their place in the          *)
(* sequence, and by whether they are equity rows.                          *)
(***************************************************************************)
EXTENDS Integers, Sequences, FiniteSets, FiniteSetsExt, SequencesExt

CONSTANTS
  AuditLimit,     \* rows of an audit page: the console asks for 250 or 500
  ActivityLimit,  \* rows of an activity page: 60
  MaxRows         \* bound on the rows the run writes

ASSUME PagesAssumption ==
  /\ AuditLimit \in Nat \ {0}
  /\ ActivityLimit \in Nat \ {0}
  /\ MaxRows \in Nat \ {0}

VARIABLES
  rows,      \* trading_run_events.event_kind by run_sequence: "equity" or "activity"
  audit,     \* the technical audit of the console
  activity,  \* its activity list
  request    \* the request in flight and what its first query answered

pagesVars == <<rows, audit, activity, request>>

RowSequences == 1..Len(rows)
Activities == {n \in RowSequences : rows[n] # "equity"}

None == 0
NoRequest == [kind |-> "none"]

\* The console's lists hold sequences the run has.
PagesTypeOK ==
  /\ rows \in Seq({"equity", "activity"}) /\ Len(rows) \in 1..MaxRows
  /\ audit.events \in Seq(RowSequences) /\ {audit.full, audit.hasMore} \subseteq BOOLEAN
  /\ activity.items \subseteq Activities /\ activity.hasMore \in BOOLEAN
  /\ request.kind \in {"none", "tail", "complete", "next", "append", "newest", "older"}

-----------------------------------------------------------------------------
(* Storage *)

\* ORDER BY run_sequence, ascending or descending, with a LIMIT.
FirstRows(S, limit) == {n \in S : Cardinality({m \in S : m < n}) < limit}
LastRows(S, limit) == {n \in S : Cardinality({m \in S : m > n}) < limit}
Sorted(S) ==
  [i \in 1..Cardinality(S) |-> CHOOSE n \in S : Cardinality({m \in S : m < n}) = i - 1]

\* trading_run_audit_page, its first query: COUNT, MIN and MAX.
AuditCounts == [total |-> Len(rows), min |-> 1, max |-> Len(rows)]

\* Defect: the page begins with the row it should come after.
AuditRowsFrom(after) ==
  Sorted(FirstRows({n \in RowSequences : n >= after}, AuditLimit))

\* Its second query: the rows after a sequence, or without one the newest, in order.
AuditRowsAfter(after) ==
  Sorted(FirstRows({n \in RowSequences : n > after}, AuditLimit))
AuditTail == Sorted(LastRows(RowSequences, AuditLimit))

\* The page: has_earlier and has_more compare it with the first query's answer.
AuditPage(events, counts) ==
  [events |-> events, total |-> counts.total,
   last |-> IF events = <<>> THEN None ELSE Last(events),
   hasEarlier |-> events # <<>> /\ Head(events) > counts.min,
   hasMore |-> events # <<>> /\ Last(events) < counts.max]

\* trading_run_activity_page, its first query: the counts, and the first row that is not
\* an equity row.
ActivityCounts ==
  [total |-> Cardinality(Activities), canonical |-> Len(rows),
   min |-> IF Activities = {} THEN None ELSE Min(Activities)]

\* Its second query: the newest rows, or the newest before a sequence.
ActivityRows(before) ==
  LastRows({n \in Activities : before = None \/ n < before}, ActivityLimit)

ActivityPage(items, counts) ==
  [items |-> items,
   suppressed |-> counts.canonical - counts.total,
   oldest |-> IF items = {} THEN None ELSE Min(items),
   hasMore |-> items # {} /\ counts.min # None /\ Min(items) > counts.min]

\* The actor's storage calls: allocate_event gives each row the next sequence.
AppendRow(kind) ==
  /\ Len(rows) < MaxRows
  /\ rows' = Append(rows, kind)
  /\ UNCHANGED <<audit, activity, request>>

-----------------------------------------------------------------------------
(* The console: one audit or activity request at a time *)

Ask(kind, asked, counts) ==
  /\ request = NoRequest
  /\ request' = [kind |-> kind, asked |-> asked, counts |-> counts, got |-> <<>>]
  /\ UNCHANGED <<rows, audit, activity>>

\* loadAuditTail, unless the whole audit is shown: then appendNewAuditEvents.
AskTail == ~audit.full /\ Ask("tail", None, AuditCounts)
AskNewer ==
  /\ audit.full
  /\ Ask("append", IF audit.events = <<>> THEN 0 ELSE Last(audit.events), AuditCounts)

\* loadCompleteAudit asks for the rows after 0, and after each page for the rows after it.
AskComplete == Ask("complete", 0, AuditCounts)

AskNewest == Ask("newest", None, ActivityCounts)
AskOlder == activity.hasMore /\ Ask("older", activity.oldest, ActivityCounts)

AnswerTail ==
  LET page == AuditPage(AuditTail, request.counts)
  IN /\ request.kind = "tail"
     /\ audit' = [events |-> page.events, total |-> page.total,
                  full |-> ~page.hasEarlier, hasMore |-> page.hasMore]
     /\ request' = NoRequest
     /\ UNCHANGED <<rows, activity>>

AnswerNewer ==
  LET page == AuditPage(AuditRowsAfter(request.asked), request.counts)
  IN /\ request.kind = "append"
     /\ audit' = [audit EXCEPT !.events = Sorted(Range(@) \cup Range(page.events)),
                               !.total = page.total, !.hasMore = page.hasMore]
     /\ request' = NoRequest
     /\ UNCHANGED <<rows, activity>>

\* A page of the complete audit; the last one, that nothing follows, replaces what is shown.
AnswerComplete ==
  LET page == AuditPage(AuditRowsAfter(request.asked), request.counts)
      all == request.got \o page.events
  IN /\ request.kind = "complete"
     /\ IF page.hasMore
        THEN /\ request' = [request EXCEPT !.kind = "next", !.asked = page.last, !.got = all]
             /\ UNCHANGED audit
        ELSE /\ audit' = [events |-> all, total |-> page.total, full |-> TRUE,
                          hasMore |-> FALSE]
             /\ request' = NoRequest
     /\ UNCHANGED <<rows, activity>>

\* The first query of the next page.
CountNextPage ==
  /\ request.kind = "next"
  /\ request' = [request EXCEPT !.kind = "complete", !.counts = AuditCounts]
  /\ UNCHANGED <<rows, audit, activity>>

\* loadActivity: the newest page replaces the list, an older one joins it.
AnswerActivity ==
  LET page == ActivityPage(ActivityRows(request.asked), request.counts)
  IN /\ request.kind \in {"newest", "older"}
     /\ activity' = [items |-> IF request.kind = "older" THEN activity.items \cup page.items
                               ELSE page.items,
                     suppressed |-> page.suppressed,
                     oldest |-> page.oldest, hasMore |-> page.hasMore]
     /\ request' = NoRequest
     /\ UNCHANGED <<rows, audit>>

-----------------------------------------------------------------------------
\* create_trading_run writes the first row.
PagesInit ==
  /\ rows = <<"activity">>
  /\ audit = [events |-> <<>>, total |-> 0, full |-> FALSE, hasMore |-> FALSE]
  /\ activity = [items |-> {}, suppressed |-> 0, oldest |-> None, hasMore |-> FALSE]
  /\ request = NoRequest

PagesNext ==
  \/ \E kind \in {"equity", "activity"} : AppendRow(kind)
  \/ AskTail \/ AskNewer \/ AskComplete \/ AskNewest \/ AskOlder
  \/ AnswerTail \/ AnswerNewer \/ AnswerComplete \/ CountNextPage \/ AnswerActivity

-----------------------------------------------------------------------------
Stretch(a, b) == [i \in 1..(b - a + 1) |-> a + i - 1]

\* Pages are whole (read.rs:283, 384): however pages and new rows interleave, the audit is
\* an unbroken run of sequences with none twice, from the first one when the console says
\* it is complete, and then it holds every row there was when its last page was asked for
\* or says that more follow; the activity list is every activity from its oldest to its
\* newest, and from the very first when no older page is offered.
PagesAreWhole ==
  /\ audit.events # <<>> =>
       /\ audit.events = Stretch(Head(audit.events), Last(audit.events))
       /\ audit.full => Head(audit.events) = 1
       /\ audit.hasMore \/ Last(audit.events) >= audit.total
  /\ activity.items # {} =>
       /\ activity.items = {n \in Activities : n >= activity.oldest /\ n <= Max(activity.items)}
       /\ ~activity.hasMore => activity.oldest = Min(Activities)
       /\ activity.suppressed <= Len(rows) - Cardinality(Activities)
=============================================================================
