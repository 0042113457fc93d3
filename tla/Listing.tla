------------------------------- MODULE Listing -------------------------------
(***************************************************************************)
(* A client that reads a list page by page, with offset and limit, while   *)
(* other requests insert, change and delete the rows it lists.  Every page *)
(* is a request of its own that sees what is committed then; nothing of    *)
(* the listing is kept between two pages but the client's offset.          *)
(*                                                                         *)
(* The rows of the table are numbered in the order of its list: by id, and *)
(* messages by created_at and id.  A row takes its place in that order     *)
(* when it is inserted, a message when its transaction begins, and is seen *)
(* when that commits, which may be after rows with higher places.          *)
(***************************************************************************)
EXTENDS Integers, FiniteSets

CONSTANTS
  None,         \* a list that is not filtered
  MaxRow,       \* rows are 1..MaxRow
  MaxChanges    \* bound on the rows that leave and enter during a listing

ASSUME ListingBounds == MaxRow \in Nat /\ MaxChanges \in Nat

VARIABLES query, rows, listing

listingVars == <<query, rows, listing>>

Rows == 1..MaxRow

-----------------------------------------------------------------------------
(***************************************************************************)
(* The lists: the columns each may filter by, and which of these columns   *)
(* the handlers ever change                                                *)
(***************************************************************************)

UserFilters         == {}
AgentFilters        == {}
CustomerFilters     == {}
MessageFilters      == {"conversation_id"}
ConversationFilters == {"status", "customer_id", "assigned_agent_id", "channel"}
EscalationFilters   == {"conversation_id", "assigned_agent_id", "status", "priority"}
CallFilters         == {"conversation_id", "agent_id", "status", "direction"}

Tables ==
  {"users", "agents", "customers", "messages", "conversations", "escalations", "calls"}

FiltersOf(table) ==
  CASE table = "users"         -> UserFilters
    [] table = "agents"        -> AgentFilters
    [] table = "customers"     -> CustomerFilters
    [] table = "messages"      -> MessageFilters
    [] table = "conversations" -> ConversationFilters
    [] table = "escalations"   -> EscalationFilters
    [] table = "calls"         -> CallFilters

\* Columns that a PATCH, an assignment or a transition writes.
WrittenColumns(table) ==
  CASE table = "conversations" -> {"status", "assigned_agent_id"}
    [] table = "escalations"   -> {"status", "assigned_agent_id", "priority"}
    [] table = "calls"         -> {"status"}
    [] OTHER                   -> {}

\* Only customers have a DELETE.
DeletedRows == {"customers"}

Query == {q \in [table : Tables, column : UNION {FiltersOf(t) : t \in Tables} \cup {None}] :
            q.column \in FiltersOf(q.table) \cup {None}}

-----------------------------------------------------------------------------
\* place: where the row is; match: whether it has the value the client filters by.
Row == [place : {"free", "inserted", "committed", "gone"}, match : BOOLEAN]

\* offset and limit of the next page; how often the client has been shown each row;
\* due, the rows that were listed when it began and ever since; and how many rows
\* left the list and entered it meanwhile.
Progress ==
  [offset : Nat, limit : 1..MaxRow, shown : [Rows -> Nat], due : SUBSET Rows,
   left : Nat, entered : Nat, ended : BOOLEAN]

ListingTypeOK ==
  /\ query \in Query
  /\ rows \in [Rows -> Row]
  /\ listing \in Progress \cup {None}

ListingInit ==
  /\ query \in Query
  /\ rows = [r \in Rows |-> [place |-> "free", match |-> FALSE]]
  /\ listing = None

Committed(r) == rows[r].place = "committed"

\* The rows the list has, at this moment.
Listed == {r \in Rows : Committed(r) /\ rows[r].match}

\* How many rows of the list come before r.
Rank(r) == Cardinality({q \in Listed : q < r})

\* A row enters the list or leaves it; a listing that goes on takes note.
Enter(r) ==
  listing' = IF listing = None THEN None ELSE [listing EXCEPT !.entered = @ + 1]

Leave(r) ==
  listing' = IF listing = None THEN None
             ELSE [listing EXCEPT !.left = @ + 1, !.due = @ \ {r}]

Bounded == listing # None => listing.left + listing.entered < MaxChanges

-----------------------------------------------------------------------------
(***************************************************************************)
(* The requests of others                                                  *)
(***************************************************************************)

\* Faulty variant of Matches: the value of a filter that was not given, NULL, is
\* compared as well.
MatchesNull(value) == IF query.column = None THEN None ELSE value

\* A row is compared with the filters that were given, no others.
Matches(value) == IF query.column = None THEN TRUE ELSE value

Insert(r, value) ==
  /\ rows[r].place = "free"
  /\ \A q \in Rows : q < r => rows[q].place # "free"
  /\ rows' = [rows EXCEPT ![r] = [place |-> "inserted", match |-> Matches(value)]]
  /\ UNCHANGED <<query, listing>>

CommitInsert(r) ==
  /\ rows[r].place = "inserted"
  /\ Bounded
  /\ rows' = [rows EXCEPT ![r].place = "committed"]
  /\ IF rows[r].match THEN Enter(r) ELSE UNCHANGED listing
  /\ UNCHANGED query

RollbackInsert(r) ==
  /\ rows[r].place = "inserted"
  /\ rows' = [rows EXCEPT ![r].place = "gone"]
  /\ UNCHANGED <<query, listing>>

\* A handler commits a change of the column the list is filtered by.
Change(r) ==
  /\ Committed(r)
  /\ query.column \in WrittenColumns(query.table)
  /\ Bounded
  /\ rows' = [rows EXCEPT ![r].match = ~@]
  /\ IF rows[r].match THEN Leave(r) ELSE Enter(r)
  /\ UNCHANGED query

\* DELETE /customers/{id}
Delete(r) ==
  /\ Committed(r)
  /\ query.table \in DeletedRows
  /\ Bounded
  /\ rows' = [rows EXCEPT ![r].place = "gone"]
  /\ IF rows[r].match THEN Leave(r) ELSE UNCHANGED listing
  /\ UNCHANGED query

-----------------------------------------------------------------------------
(***************************************************************************)
(* The client                                                              *)
(***************************************************************************)

Begin(limit) ==
  /\ listing = None
  /\ listing' = [offset |-> 0, limit |-> limit, shown |-> [r \in Rows |-> 0],
                 due |-> Listed, left |-> 0, entered |-> 0, ended |-> FALSE]
  /\ UNCHANGED <<query, rows>>

\* Faulty variant of Pages: without ORDER BY the database may choose.
PagesUnordered(offset, limit) ==
  {page \in SUBSET Listed :
     Cardinality(page) = IF Cardinality(Listed) < offset + limit
                         THEN IF Cardinality(Listed) < offset THEN 0
                              ELSE Cardinality(Listed) - offset
                         ELSE limit}

\* Faulty variant of Pages: the offset counts the rows the filter leaves out.
PagesBeforeFilter(offset, limit) ==
  {{r \in Listed : Cardinality({q \in Rows : Committed(q) /\ q < r})
                     \in offset..(offset + limit - 1)}}

\* ORDER BY, OFFSET and LIMIT: the one page the list has there.
Pages(offset, limit) == {{r \in Listed : Rank(r) \in offset..(offset + limit - 1)}}

\* GET with the next offset; a page that is not full is the last one.
ReadPage ==
  /\ listing # None
  /\ ~listing.ended
  /\ \E page \in Pages(listing.offset, listing.limit) :
       listing' = [listing EXCEPT
         !.offset = @ + listing.limit,
         !.shown  = [r \in Rows |-> IF r \in page THEN @[r] + 1 ELSE @[r]],
         !.ended  = Cardinality(page) < listing.limit]
  /\ UNCHANGED <<query, rows>>

\* The client starts over, or does something else.
Forget ==
  /\ listing # None
  /\ listing' = None
  /\ UNCHANGED <<query, rows>>

ListingNext ==
  \/ \E r \in Rows :
       \/ \E value \in BOOLEAN : Insert(r, value)
       \/ CommitInsert(r)
       \/ RollbackInsert(r)
       \/ Change(r)
       \/ Delete(r)
  \/ \E limit \in 1..MaxRow : Begin(limit)
  \/ ReadPage
  \/ Forget

ListingSpec == ListingInit /\ [][ListingNext]_listingVars

-----------------------------------------------------------------------------
\* README: "Offset pagination does not provide a frozen snapshot during concurrent
\* writes."  What it does provide: of the rows that were there all along, those the
\* client has passed without being shown them are no more than the rows that left
\* the list meanwhile.  A row that commits late makes it miss none of the others,
\* so a list whose rows stay, of users, agents or messages, is read completely.
FewRowsSkipped ==
  listing # None =>
    LET passed(r) == listing.ended \/ Rank(r) < listing.offset
    IN  Cardinality({r \in listing.due : passed(r) /\ listing.shown[r] = 0}) <= listing.left

\* The rows the client is shown more than once are no more than the rows that entered
\* the list meanwhile: where nothing is inserted it sees each row once.
FewRowsRepeated ==
  listing # None =>
    LET again == {r \in Rows : listing.shown[r] > 1}
    IN  Cardinality(again) <= listing.entered
=============================================================================
