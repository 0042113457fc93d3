# A TLA+ model of the customer support desk

This directory specifies the backend in `src/` (FastAPI, SQLAlchemy over
PostgreSQL): what its services do to conversations, escalations, calls,
messages, users, agent profiles, customers, tokens and lists, what happens when
requests interleave, and which promises of the repository's README hold. TLC checks the models on small
instances; TLAPS proves the most important results for every size.

Paths below are those of the repository, `src/services/call_service.py` being
the file of that name in the Python package.

## 1. The system

Every HTTP request gets a session and a transaction of its own
(`get_db_session`): routes call a controller, which calls a service, which reads
and writes through repositories. The transaction commits when the handler
returns and rolls back when anything raises. PostgreSQL runs it at READ
COMMITTED. Components share nothing but the database; they call each other
directly (the escalation, call and message services use the conversation
service or repository).

| component | state it keeps | operations that change state | hard because |
|---|---|---|---|
| conversations | status, assigned agent, ended_at | create, assign, transition (PATCH, /resolve, /close) | three other services write or read the same row |
| escalations | status, assignee, priority, resolved_at; one unresolved per conversation | create, update | writes two tables; reads a row before the lock and again after |
| calls | status, agent, answered_at, ended_at; one per conversation | create, update | resolution and assignment depend on it |
| sessions and locks | row locks, uncommitted writes | lock, commit, roll back | requests wait, fail and retry at every point |
| messages | rows ordered by created_at, id | create | reads the conversation without a lock |
| users | email, role, is_active | register, bootstrap_admin, update_user | check, then act, without locks |
| agent profiles | one per user, availability | create, update_status | consistent with users only through checks of two services |
| customers | profile, conversations by foreign key | create, update, delete | deletion races with new conversations |
| tokens, login | nothing in the database; the client keeps the token, the process its key | login | a token outlives what it was issued for; the password is verified while the row may change; clocks and keys change |
| listing | nothing; the client keeps its offset | none | pages of a table that changes |
| schemas, controllers, application, migrations | nothing | none | |

What makes each correct:

- **Conversations, escalations, calls together**: ESCALATED exactly while one
  escalation is unresolved; no call active on a finished conversation; assignees
  and statuses agree across tables; timestamps stamped once; nothing finished is
  rewritten; only the responsible change a case, judged when the change takes
  effect; requests that race act as if they ran one at a time, and end.
- **Calls**: the duration is the time talked, as far as the clocks allow, and a
  call that is over keeps its dates.
- **Messages**: the timeline shows an answer after what it answers; a finished
  conversation takes no messages but those already on their way.
- **Customers**: a conversation's customer is never deleted; a PATCH leaves alone
  what it omits; nobody comes back from deletion.
- **Users and profiles**: one user per email, one profile per user, a profile's
  user is an AGENT, an inactive user is OFFLINE, an administrator remains, only
  the first administrator comes from the command line; no request that begins after
  a deactivation acts for the user or on it.
- **Tokens**: a token is accepted for its lifetime and no longer, only under the key
  that signed it, and never for a user that was inactive all through the login.
- **Lists**: reading page by page misses no more rows than left the list meanwhile
  and repeats no more than entered it.

## 2. The modules

```
Domain ─┬─ Cases ── SerialDesk ──┬── ConcurrentDesk ── MCConcurrentDesk
        │              │         └── Timeline ──────── MCTimeline
        │              ├── MCSerialDesk
        │              └ INSTANCE CaseContract
        └─ CallTimes (INSTANCE SerialDesk)
Accounts ─┬─ Deactivation ── Races ── MCAccounts
          └─ Clients ── MCClients
Customers ── MCCustomers         Listing

theorems:  SerialDesk_proofs ──┬── ConcurrentDesk_proofs
                               └── Timeline_proofs
           Accounts_proofs ─── Staff_proofs (of Accounts, Races, Clients)
           Customers_proofs    CallTimes_proofs    Listing_proofs
```

**Domain** holds the enumerations and the two transition tables.

**Cases** is about one *case*: a conversation row, the escalations raised on it
and its call. For every handler it has the guard (`MayAssign`, `MayTransition`,
`MayEscalate`, `MayUpdateEscalation`, `MayCreateCall`, `MayUpdateCall`) and the
effect on the rows (`Assign`, `Transition`, ...), translated from the service;
where a guard does not hold the service raises and nothing changes. It has no
variables. A caller is an agent (by its profile), `Manager` (ADMIN or
SUPPORT_HEAD; the services never tell them apart) or `NoProfile` (role AGENT
without a profile). A timestamp is how often the column was stamped, so a second
stamp shows. A row not yet inserted has the status `"ABSENT"`. Ids an assignment
names are real agents; whether `eligible_agent` finds one AVAILABLE is any set
of agents, chosen anew at each step, because the agent and auth services may
change it at any time.

**SerialDesk** has the variable `cases` and serves one request at a time: an
action per route. **CaseContract** is the abstract specification: a case is
absent, live, escalated, resolved or closed, and its line unused, active or
over. `KeepsContract` says SerialDesk implements it, with `PhaseOf` and `LineOf`
as the refinement mapping.

**ConcurrentDesk** adds `requests`, slots for requests in flight. A request
reads the row its path names (`Begin`), waits for the lock of the conversation
(`AcquireLock`, `SELECT ... FOR UPDATE`), decides on freshly read rows
(`Decide`, one disjunct per handler), and commits what it flushed (`Commit`) or
rolls back at any point (`Rollback`: an error, a disconnect, a crash of the
server). What is flushed is invisible to others until the commit. Reading and
deciding is one step, which is sound because nobody else can write those rows
while the lock is held; that is what `DecisionsStayValid` says. Whether an agent or a
manager sends the request is settled when it begins.

**Timeline** adds messages to the serial desk, whose requests lock the row and
commit later: a message request begins (fixing created_at), reads and checks,
inserts (taking an id from the sequence, and a KEY SHARE lock through the foreign
key, which a FOR UPDATE lock blocks), and commits. created_at is the clock of the
database, which is assumed never to step back: if it did, an answer could be dated before
what it answers, and nothing in the code would notice.

**Accounts** models users and profiles, with each request cut at its SELECTs and
its commit: authentication, first read, second read and decision, commit. It keeps
two facts of the ORM: the caller's own row is the copy read at authentication,
and an UPDATE writes only columns that changed since they were loaded (`Dirty`).
A request that assigns an agent (by /assign, an escalation or a call) is here too, for
its `eligible_agent` (`MayAssign`): what it writes is the matter of Cases. With one
session requests run one after the other.

**Deactivation** adds a history variable to Accounts, the users that were inactive at
every moment of a request, to say what a deactivation does to the requests after it.

**Races** adds two more. `raced` holds the users whom one request was about to PATCH while
another rested on what it had read of them: one that makes a profile for the user, that
changes the status of the user's profile, or that the user makes to change a status.
`OnlyRacesMisplaceRoles` and `OnlyRacesLeaveOnDuty` say that what the README promises of
roles and availability is lost to such races and to nothing else: however many requests
run at once, a user that is not in `raced` is in order. `contested` holds the bootstrap
commands that met another, or began while a request that may make an administrator was on
its way (that of an administrator demoted just before, since the command found none).
`UncontestedIsFirst` says that beside any other command no administrator appears.

**Clients** composes Accounts with a client, its token, the clock and the server's key.
Login reads the user (`BeginLogin`), has the password verified in a thread and then
decides on the row it had read (`IssueToken`). Every request presents the token
(`Request`, which is `Authenticate` of Accounts behind `Decodes`). `SetClock` moves the
clock anywhere; `Restart` reads the settings anew, with a key or none.

**CallTimes** is PATCH /calls with real dates: one call, the clock that stamps it, which
may be corrected or be another host's, and how long the two really talked. Cases only
counts stamps; both take the transitions from Domain, and `FollowsDesk` says that the
dates set here are those SerialDesk stamps, with `CallCase` as the mapping.

**Listing** is about all seven lists. A client reads page after page while others
insert (taking a place in the order first, becoming visible later), change and delete
rows. The lists differ in their filters and in what handlers change or delete, which
is what `FiltersOf`, `WrittenColumns` and `DeletedRows` say.

**Customers** models customers and the reference from conversations. A request
reads the customer without a lock (`ReadCustomer`, `ReadForUpdate`), flushes its
statement (`Flush...`, which takes the row lock and checks what the database
checks: the row is there, the foreign key holds), and commits. `Conflict` is
PostgreSQL's table of row locks: UPDATE, DELETE, and KEY SHARE of the foreign key.
A DELETE of a row that has gone is only a warning of SQLAlchemy and succeeds; an
UPDATE or refresh of it raises.

Definitions named "faulty variant" are not used by any specification. Each is a
definition with a plausible mistake, and `PROJECT.json` ("mutants") names the
property that notices when it takes the place of the right one.

## 3. What TLC checks

| run | instance | shows |
|---|---|---|
| serial_desk | 2 agents, 2 escalations, 2 priorities, 1 conversation; 7,651 states up to symmetry | the invariants of a case, `HistoryIsKept`, `KeepsContract` |
| concurrent_desk | 2 requests, 2 agents, 1 escalation; about a million states | `DecisionsStayValid`, `Serializable` (refinement of SerialDesk), `OnlyTheResponsibleWrites` |
| concurrent_live | 2 requests, callers that are nobody's assignee, fairness | `RequestsFinish` |
| accounts_one | 1 session, 3 users, 2 profiles, 2 keys, tokens of 2 seconds; 270,000 states | `StaffInOrder`; `TokensLiveTheirTime`, `LoginIsForTheActive` |
| accounts_two | 2 sessions, 2 users, 2 profiles; 1.28 million states | `EmailsAreUnique`, `OneProfilePerUser`, `DeactivationIsFelt`, `OnlyRaces...`, `UncontestedIsFirst`, `OnlyTheDeposedTakeTheLast` |
| timeline | 2 writers, 3 ids, 2 clock values, no agents; about a million states | `AnswersComeAfter`, `FewLateMessages` |
| customers | 2 requests, 2 customers, 2 conversations, columns null or not; 1.2 million states | `NoOrphans`, `OmittedIsKept`, `DeletedForGood` |
| call_times | 4 seconds in halves, corrections up to 3 seconds; 94,000 states | `DurationIsTalk`, `EndedCallKeepsItsTimes`, `FollowsDesk` |
| listing | 4 rows, pages of 1 to 4, 3 rows that leave or enter, every list and filter | `FewRowsSkipped`, `FewRowsRepeated` |

Three more runs show that a promise of the documentation does not hold of the code;
each ends in TLC's counterexample:

| run | promise | what happens |
|---|---|---|
| call_pins_assignee | "Conversations cannot resolve or change assignee while a call is active" (README:463) | a call starts on an unassigned conversation, a manager escalates it naming an agent |
| accounts_profile_role | "An account with a profile must retain its AGENT role" (README:188) | profile creation and role change read each other's old state |
| accounts_two_bootstraps | the bootstrap command "refuses to create another initial administrator if one already exists" (README:50) | two commands both find none, and both create one: between `has_admin` and the insert a password is hashed in a thread, and no lock or index decides |

The last two are races. `StaffInOrder`, the conjunction of what is promised of roles,
availability and administrators, holds of requests that run one at a time (accounts_one).
Of requests that race, roles and availability hold of all users that are not raced, and
the bootstrap of every command that met no rival (accounts_two). Staff_proofs proves all
of this. Three more races are known and have no run of their own:

- A status change has found the user active; the user is deactivated, which finds the
  profile OFFLINE and writes nothing of it; then AVAILABLE commits. An inactive user is
  on duty, although "Inactive users cannot change agent availability"
  (agent_service.py:53) and deactivation "sets their profile OFFLINE in the same
  transaction" (README:197). `OnlyRacesLeaveOnDuty` says that no other user is.
- A message whose checks ran before the resolution is inserted after it (README:423
  says finished conversations reject messages). `FewLateMessages` bounds how many,
  whatever is sent again. The same race lets a reply through beside an assignment to
  another.
- Two administrators who disable each other at the same moment both succeed, which no
  document excludes. `OnlyTheDeposedTakeTheLast` says, whatever else races, that the last
  active administrator falls only to the PATCH of one who was disabled or demoted after
  it had been authenticated.

That an agent goes OFFLINE while an assignment is on its way is not in the list: the
assignment can always be read as having come first, and `DeactivationIsFelt` says that
no later one is made.

**Bounds.** One conversation is enough for the desk: every handler reads and
writes the rows of a single case, the lock is per conversation, and the theorems
cover several. Two agents let a case change hands; two escalations let it be
escalated again; two priorities show that priority is independent of the rest.
Two requests are what a race needs; `ConcurrentDesk_proofs` covers any number.
Three users are an administrator, an agent and a third to demote. A token of two
seconds on a clock of two and a half is seen valid, expired, dated in the future and
with half a second lost to rounding. A clock of four seconds lets a call last one or
more and a correction put its end before the answer; `MaxSkew` caps the sum of the
corrections during a call. Four rows are two pages of two, or a page that is left
short, and `MaxChanges` caps the rows that leave or enter during one listing. With three ids
and two writers a slot is used twice, so that `FewLateMessages` (at most two) could
fail: it does when the check of the status is dropped. Of customers, two show that
locks are per row, and one value beside null is what a column needs to change and
to be lost. `MaxId` and `MaxClock` bound
the sequence and the clock of Timeline; with the two bounds just named and the
`MaxClock` of CallTimes and Clients they are the only ones. Timeline runs without
agents, whose replies would take it past the time limit: customers' messages meet
every step of a request, and that a reply is ordered like any other is proved.

**Symmetry** is declared for agents, escalation ids, users, profiles, emails,
customers, conversations of customers, keys, request and writer slots, which no
definition tells apart; the liveness run has none.

**Deadlock** is checked everywhere but in accounts_two and the two runs like it: two
administrators who disable each other at the same moment both succeed, and then no
account may do anything. No document excludes it, and accounts_two shows it to be a
race (`OnlyTheDeposedTakeTheLast`).

**Fairness** (`FairSpec`). A request that has its lock answers, or raises and rolls
back: weak fairness of deciding, committing and rolling back together, since the
handlers contain no unbounded wait after the lock. The wait for the row lock is
strongly fair, because PostgreSQL queues the waiters of a row; weak fairness would
not do, since a newcomer may hold the row in between. Nobody is assumed to send
requests.

## 4. What is proved

The first part of `SerialDesk_proofs` shows, for any agents, escalation ids and priorities, that every
handler keeps the type of a case and `CaseInv`, the conjunction of the case
invariants of `Cases`. None of them is inductive alone: that `Transition` keeps
`EscalatedIffUnresolved` needs that no path leads out of ESCALATED; that an
escalation hands back a conversation into OPEN only without an agent needs
`AssigneesFollowStatus`; that `FinishedHasNoActiveCall` survives the update of an
escalation needs `EscalatedIffUnresolved`, since only an unresolved escalation
writes the conversation's status. `StampsFollowStatus` needs
the statuses that precede each stamp.

- **SerialDesk_proofs**: `DeskInv` (`TypeOK` and `CaseInv` of every case) is
  inductive; from it `DeskTypeCorrect`, `EscalationsInForce`, `CallsEndFirst`,
  `AssigneesConsistent`, `StampedOnce`, and the action property in
  `HistoryTheorem`. Its last part is the refinement, `DeskKeepsContract`: for each
  handler, the phase and line before and after are related by one step of the contract
  or are the same; `DeskInv` supplies that a resolving case has no active call.
- **ConcurrentDesk_proofs**: `ConcurrentInv` (types, `DecisionsStayValid`, and that a
  row has one holder, which is PostgreSQL's part) is inductive: a request that decided holds its conversation,
  so that no other can commit to it and the decision stays what the handler would
  answer on the committed rows. Hence a commit is a step of SerialDesk and all other
  steps leave `cases` alone: `DeskSerializable`. `ConcurrentDeskSafe` carries the
  serial invariants, the history and the contract over, and `ResponsibleWrites` follows from the guard that still
  holds at the commit.
- **Accounts_proofs**: for any number of sessions, `AccountsTypeCorrect`,
  `EmailsUnique` and `ProfilesUnique`. `AccountsInv` strengthens them with
  `ProfilesHaveUsers` and `NamesRows`: a request in flight names rows that exist, so
  that an UPDATE whose row was read several steps earlier never writes to nothing.
- **Staff_proofs**, roles and availability, for any number of sessions. The invariant of a
  user that is not raced (`UserInv`) has two parts: its profile agrees with its row
  (`Agrees`), and what any request has found of it is still so (`Finds`): the role read for
  a new profile, the activity read for a status, and of a decided PATCH that it sets
  OFFLINE whatever it finds on duty. Neither part is inductive alone. Nobody else can have
  changed the row, or the user would be raced: `RolesAreMisplacedByRaces` and
  `InactiveAreLeftByRaces`, with no condition on the behaviour; where nobody is raced
  (`NoRace`), `ProfilesKeptInOrder`.
- **Staff_proofs**, administrators, for any number of sessions. `TheDeposedTakeTheLast`
  rests on `RequestsInv`: a request in flight was authenticated as what its operation asks
  for, and a decided PATCH writes nothing of its own caller. `UncontestedBootstraps` needs
  more than it says: beside such a command there is neither an administrator nor a request
  that could make one, since whoever registers or PATCHes must be an administrator when it
  begins. Requests that run one at a time change no caller (`CallersStand`) and race with
  nobody, so that `StaffInOrder` holds of them (`OneAtATime`) and of a client with tokens
  (`OneClientAtATime`).
- **Staff_proofs**, the rest: `DeactivationTakesEffect`, since a row read during a request
  shows the user active only if it was active at some moment of it
  (`RacesKeepDeactivation` carries it over to Races), and `ClientsKeepAccounts`,
  by which a client's requests are behaviours of Accounts. `TokensExpire` needs only that
  a token's claims are what `NewToken` computed, and arithmetic; `LoginsAreOfTheActive`
  that the row a login holds was the user's at some moment since it began.
- **CallTimes_proofs**: `CallTimesTypeCorrect`, `DurationsAreTalk`,
  `EndedCallsKeepTimes`, for any bounds of clock and skew. The invariant relates the
  date of the answer, the clock, the talk and the skew while the call is on.
  `CallsFollowDesk` is the refinement of SerialDesk's `PatchCall`: it needs that a date is
  still missing when the transition that sets it is taken.
- **Timeline_proofs**: `TimelineKeepsDesk`, `TimelineTypeCorrect`, `TimelineOrder`,
  `LateMessagesAreFew`, for any agents, writers and conversations. The order needs that
  ids and dates of what could be read are below those of what is still being written;
  the count, that the late messages and the writers that may still be late are together
  no more than the writers once the conversation is finished. `TimelineDeskSafe` has the
  invariants and the contract of the desk beside messages.
- **Listing_proofs**: `ListingTypeCorrect`, `FewAreSkipped`, `FewAreRepeated`, for any
  number of rows and of changes. What a finished listing shows is not inductive; the
  invariant counts, at any moment of it, the rows the client has already passed without
  seeing them (`Skipped`) and those it saw twice or is about to see again (`Repeated`),
  and bounds them by the rows that left and entered. The lemmas are about ranks: the
  rows of a list have the ranks 0, 1, 2, ... without a gap, a page takes those from the
  offset on, and a row that leaves or enters moves at most one row across the offset.
- **Customers_proofs**: for any number of requests, `CustomersTypeCorrect`,
  `HistoryKeepsCustomer`, `PatchKeepsOmitted` and `DeletionIsFinal`. `NoOrphans` is not
  inductive: that a statement was allowed when it ran says nothing about the commit.
  `LocksProtect` says that what it checked stays true, because `LocksAgree` keeps
  every conflicting request from the row until the commit.

The proofs assume `NoneIsNoValue`, `ActorsDistinct`, `NoneIsNoId`, `NoneIsNoCustomer`,
`NoneIsNoRow`, `NoneIsNoKey`, `NoneIsNoTime`, `CustomerIsNoAgent` (NULL is no id, row, key or
time; the named callers and senders differ), that the bounds are natural numbers
(`TokenBounds`, `ClockBounds`, `BoundsAreNatural`, `ListingBounds`) and the writers finitely many
(`WritersAreFinite`), which TLC evaluates in the runs.

Only model-checked: `RequestsFinish`, since liveness is out of the prover's reach.

## 5. What is not modelled

- **Controllers** hand each call on to the service method of the same name.
- **Application, health, logging, error answers** keep no state. That an error rolls back
  is part of every module; its status code is not.
- **Migrations and container files** run before the server. The constraints they create
  (unique indexes, foreign keys, the CHECK of a duration) are part of the modules.
- **Cryptography**: a signature is known by its key, a password by the verdict on it. The
  issuer, audience and token_type of a token are constants of the one server.
- **Data no handler reads**: message contents, reasons, phone numbers, providers,
  names of profiles; lengths and patterns of fields.
- **The connection pool**: a request that finds no connection waits or fails before it
  does anything, which is a request that has not begun or rolls back.
- **Texts of a call that is over**: a transcript or a recording may still be PATCHed; they
  are in CallTimes and not in Cases, so that "nothing over is rewritten" is said of
  statuses, assignees, stamps and dates.
- **A manager demoted while its request waits** for a conversation: the desk knows callers,
  not their rows. What a request does with the row it was authenticated by is in Accounts.
- **Deadlocks outside the conversation's row**: each request locks the conversation first,
  then at most one row of its own.
- **Two filters at once** in a listing: the rows they leave are the rows of one filter
  that matches both.

`PROJECT.json` lists the hazards no property covers, with the reason: a reply beside a
reassignment, and the mixture two PATCHes of several columns may leave, neither of
which contradicts anything the repository says.

## 6. Plan

Done: Domain, Cases, SerialDesk, CaseContract, ConcurrentDesk, Timeline, Accounts,
Deactivation, Races, Clients, Customers, CallTimes, Listing, and the proofs above. Left:

1. Customers: what two PATCHes of several columns may mix, should the README come to
   promise something about it.
2. Timeline: an instance with an agent, once a smaller desk beside it is enough.
3. Liveness of the requests of Accounts and Customers, which wait only on row locks of
   single statements.
