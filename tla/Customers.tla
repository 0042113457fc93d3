----------------------------- MODULE Customers ------------------------------
(***************************************************************************)
(* Customers, and the conversations that refer to them: CustomerService    *)
(* and ConversationService.create_conversation, as transactions at READ    *)
(* COMMITTED.  A request reads the customer without a lock and writes      *)
(* later.  In between the customer may change or be deleted.               *)
(*                                                                         *)
(* The database locks the customer's row for what a request wrote until it *)
(* ends: an UPDATE against UPDATE and DELETE, a DELETE against everything, *)
(* and the foreign key of a new conversation against DELETE.               *)
(*                                                                         *)
(* An UPDATE writes the columns that differ from what was loaded.          *)
(***************************************************************************)
CONSTANTS
  Customers,      \* ids a customer may get
  Conversations,  \* ids a conversation may get
  Requests,       \* requests that may be in flight at once
  Values,         \* what a column may hold
  None            \* NULL

ASSUME NoneIsNoCustomer == None \notin Customers \cup Values

VARIABLES customers, conversations, requests

vars == <<customers, conversations, requests>>

Columns == {"name", "email", "phone"}

ASSUME NoneIsNoRow == None \notin [Columns -> Values \cup {None}]

Row == {row \in [Columns -> Values \cup {None}] : row["name"] # None}

\* No row yet, and no row any more.
Unused == None
Deleted == [col \in Columns |-> None]

\* Faulty variant of CustomerUpdate: the name may be null.
CustomerUpdateNull == UNION {[sent -> Values \cup {None}] : sent \in SUBSET Columns}

\* What a PATCH sends: some of the columns; the name is not null.
CustomerUpdate ==
  {body \in UNION {[sent -> Values \cup {None}] : sent \in SUBSET Columns} :
     "name" \in DOMAIN body => body["name"] # None}

Operations == {"update", "delete", "converse"}

Request ==
  [pc : {"begun"}, op : Operations, customer : Customers]
    \cup [pc : {"read", "flushed"}, op : {"update"}, customer : Customers,
          loaded : Row, body : CustomerUpdate]
    \cup [pc : {"read", "flushed"}, op : {"delete", "converse"}, customer : Customers]

Idle == [pc |-> "idle"]

CustomersTypeOK ==
  /\ customers \in [Customers -> Row \cup {Unused, Deleted}]
  /\ conversations \in [Conversations -> Customers \cup {None}]
  /\ requests \in [Requests -> Request \cup {Idle}]

Init ==
  /\ customers = [c \in Customers |-> Unused]
  /\ conversations = [k \in Conversations |-> None]
  /\ requests = [r \in Requests |-> Idle]

-----------------------------------------------------------------------------
(***************************************************************************)
(* What the statements of a request see                                    *)
(***************************************************************************)

Exists(c) == customers[c] \in Row

\* The columns whose new value is not the loaded one.
Dirty(body, loaded) ==
  LET changed == {col \in DOMAIN body : body[col] # loaded[col]} IN
  [col \in changed |-> body[col]]

\* Faulty variant of Written: the UPDATE writes every column of the row as it was
\* loaded, with the changes.
WrittenWhole(row, body, loaded) ==
  [col \in Columns |-> IF col \in DOMAIN body THEN body[col] ELSE loaded[col]]

\* The row after the UPDATE, which starts from what is committed.
Written(row, body, loaded) ==
  LET dirty == Dirty(body, loaded) IN
  [col \in Columns |-> IF col \in DOMAIN dirty THEN dirty[col] ELSE row[col]]

\* Faulty variant of MayInsert: no foreign key, only what the service has read.
InsertUnchecked(c) == TRUE

\* The foreign key, for the conversation that is inserted and for the customer
\* that is deleted.
MayInsert(c) == Exists(c)
MayRemove(c) == \A k \in Conversations : conversations[k] # c

\* Whether the request keeps a lock of its customer's row.
Locks(r) ==
  /\ requests[r].pc = "flushed"
  /\ requests[r].op = "update" =>
       DOMAIN Dirty(requests[r].body, requests[r].loaded) # {}

Conflict(op1, op2) ==
  "delete" \in {op1, op2} \/ {op1, op2} = {"update"}

Unlocked(r) ==
  \A q \in Requests \ {r} :
    Locks(q) /\ requests[q].customer = requests[r].customer
      => ~Conflict(requests[q].op, requests[r].op)

-----------------------------------------------------------------------------
(***************************************************************************)
(* The steps of a request                                                  *)
(***************************************************************************)

Move(r, request) ==
  /\ requests' = [requests EXCEPT ![r] = request]
  /\ UNCHANGED <<customers, conversations>>

\* create_customer reads nothing and nothing refers to its row yet: one step.
CreateCustomer(c, row) ==
  /\ customers[c] = Unused
  /\ customers' = [customers EXCEPT ![c] = row]
  /\ UNCHANGED <<conversations, requests>>

Begin(r, op, c) ==
  /\ requests[r] = Idle
  /\ Move(r, [pc |-> "begun", op |-> op, customer |-> c])

\* get_customer, or 404.
ReadCustomer(r) ==
  /\ requests[r].pc = "begun"
  /\ requests[r].op \in {"delete", "converse"}
  /\ Exists(requests[r].customer)
  /\ Move(r, [requests[r] EXCEPT !.pc = "read"])

ReadForUpdate(r, body) ==
  LET c == requests[r].customer IN
  /\ requests[r].pc = "begun"
  /\ requests[r].op = "update"
  /\ Exists(c)
  /\ Move(r, [pc |-> "read", op |-> "update", customer |-> c,
              loaded |-> customers[c], body |-> body])

\* Faulty variant of FlushUpdate: whether the row is still there is not asked.
FlushUpdateUnchecked(r) ==
  /\ requests[r].pc = "read"
  /\ requests[r].op = "update"
  /\ Unlocked(r)
  /\ Move(r, [requests[r] EXCEPT !.pc = "flushed"])

\* The UPDATE, if a column changed, and the refresh: both fail when the row is
\* gone.  An UPDATE waits for a lock; the refresh alone does not.
FlushUpdate(r) ==
  /\ requests[r].pc = "read"
  /\ requests[r].op = "update"
  /\ Unlocked(r) \/ DOMAIN Dirty(requests[r].body, requests[r].loaded) = {}
  /\ Exists(requests[r].customer)
  /\ Move(r, [requests[r] EXCEPT !.pc = "flushed"])

\* A row that another request has deleted meanwhile is no error.
FlushDelete(r) ==
  /\ requests[r].pc = "read"
  /\ requests[r].op = "delete"
  /\ Unlocked(r)
  /\ Exists(requests[r].customer) => MayRemove(requests[r].customer)
  /\ Move(r, [requests[r] EXCEPT !.pc = "flushed"])

FlushConversation(r) ==
  /\ requests[r].pc = "read"
  /\ requests[r].op = "converse"
  /\ Unlocked(r)
  /\ MayInsert(requests[r].customer)
  /\ Move(r, [requests[r] EXCEPT !.pc = "flushed"])

Finish(r) == requests' = [requests EXCEPT ![r] = Idle]

CommitUpdate(r) ==
  LET request == requests[r] IN
  /\ request.pc = "flushed"
  /\ request.op = "update"
  /\ customers' = IF Locks(r)
       THEN [customers EXCEPT ![request.customer] =
               Written(@, request.body, request.loaded)]
       ELSE customers
  /\ Finish(r)
  /\ UNCHANGED conversations

CommitDelete(r) ==
  /\ requests[r].pc = "flushed"
  /\ requests[r].op = "delete"
  /\ customers' = [customers EXCEPT ![requests[r].customer] = Deleted]
  /\ Finish(r)
  /\ UNCHANGED conversations

CommitConversation(r, k) ==
  /\ requests[r].pc = "flushed"
  /\ requests[r].op = "converse"
  /\ conversations[k] = None
  /\ conversations' = [conversations EXCEPT ![k] = requests[r].customer]
  /\ Finish(r)
  /\ UNCHANGED customers

\* 404, a constraint, a row that is gone, a client that went away.
Rollback(r) ==
  /\ requests[r] # Idle
  /\ Finish(r)
  /\ UNCHANGED <<customers, conversations>>

Next ==
  \/ \E c \in Customers, row \in Row : CreateCustomer(c, row)
  \/ \E r \in Requests :
       \/ \E op \in Operations, c \in Customers : Begin(r, op, c)
       \/ ReadCustomer(r)
       \/ \E body \in CustomerUpdate : ReadForUpdate(r, body)
       \/ FlushUpdate(r)
       \/ FlushDelete(r)
       \/ FlushConversation(r)
       \/ CommitUpdate(r)
       \/ CommitDelete(r)
       \/ \E k \in Conversations : CommitConversation(r, k)
       \/ Rollback(r)

Spec == Init /\ [][Next]_vars

-----------------------------------------------------------------------------
(***************************************************************************)
(* Properties                                                              *)
(***************************************************************************)

\* README: "Deleting a customer with conversation history is blocked by the
\* database", also when the conversation is created while the deletion runs, so
\* that each has found the customer before the other wrote.
NoOrphans ==
  \A k \in Conversations : conversations[k] # None => Exists(conversations[k])

\* README: "PATCH preserves omitted fields", also what another PATCH wrote there
\* after this one had loaded the row.
OmittedIsKept ==
  [][\A r \in Requests :
       requests[r].pc = "flushed" /\ requests[r].op = "update"
         /\ requests'[r] = Idle /\ customers' # customers
       => \A col \in Columns \ DOMAIN requests[r].body :
            customers'[requests[r].customer][col]
              = customers[requests[r].customer][col]]_vars

\* A customer that is deleted does not come back by a PATCH that had loaded it.
DeletedForGood ==
  [][\A c \in Customers : customers[c] = Deleted => customers'[c] = Deleted]_vars
=============================================================================
