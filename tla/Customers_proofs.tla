-------------------------- MODULE Customers_proofs --------------------------
(***************************************************************************)
(* What holds of customers for every number of requests.  The argument: a  *)
(* request that has written keeps a lock until it ends, so that what its   *)
(* statement checked (the row is there, nothing refers to it) is still     *)
(* true when it commits.                                                   *)
(***************************************************************************)
EXTENDS Customers, TLAPS

\* Two requests that locked one row do not conflict.
LocksAgree ==
  \A r, q \in Requests :
    r # q /\ Locks(r) /\ Locks(q) /\ requests[r].customer = requests[q].customer
      => ~Conflict(requests[r].op, requests[q].op)

\* What a statement checked holds as long as the lock is kept.
LocksProtect ==
  \A r \in Requests :
    Locks(r) =>
      IF requests[r].op = "delete"
      THEN Exists(requests[r].customer) => MayRemove(requests[r].customer)
      ELSE Exists(requests[r].customer)

\* The inductive invariant.
CustomersInv ==
  /\ CustomersTypeOK
  /\ NoOrphans
  /\ LocksAgree
  /\ LocksProtect

-----------------------------------------------------------------------------
\* A request in flight is a Request record.
LEMMA BusyRequest ==
  ASSUME CustomersTypeOK, NEW r \in Requests, requests[r] # Idle
  PROVE  /\ requests[r] \in Request
         /\ requests[r].customer \in Customers
         /\ requests[r].op \in Operations
BY DEF CustomersTypeOK, Request, Operations

\* A request that is past its beginning is no idle one.
LEMMA BusyPhase ==
  ASSUME NEW r \in Requests, requests[r].pc \in {"begun", "read", "flushed"}
  PROVE  requests[r] # Idle
BY DEF Idle

\* An update that has read carries the row and the body.
LEMMA UpdateRequest ==
  ASSUME CustomersTypeOK, NEW r \in Requests, requests[r].op = "update",
         requests[r].pc \in {"read", "flushed"}
  PROVE  /\ requests[r].customer \in Customers
         /\ requests[r].loaded \in Row
         /\ requests[r].body \in CustomerUpdate
BY BusyPhase, BusyRequest DEF Request

\* An UPDATE of a row makes a row, and leaves alone what the body omits.
LEMMA WrittenRow ==
  ASSUME NEW row \in Row, NEW body \in CustomerUpdate, NEW loaded \in Row
  PROVE  /\ Written(row, body, loaded) \in Row
         /\ \A col \in Columns \ DOMAIN body : Written(row, body, loaded)[col] = row[col]
<1> DEFINE changed == {col \in DOMAIN body : body[col] # loaded[col]}
<1>1. PICK sent \in SUBSET Columns : body \in [sent -> Values \cup {None}]
  BY DEF CustomerUpdate
<1>2. /\ DOMAIN body = sent
      /\ "name" \in sent => body["name"] # None
  BY <1>1 DEF CustomerUpdate
<1>3. Written(row, body, loaded) =
        [col \in Columns |-> IF col \in changed THEN body[col] ELSE row[col]]
  BY DEF Written, Dirty
<1>4. row \in [Columns -> Values \cup {None}] /\ row["name"] # None
  BY DEF Row
<1>5. "name" \in Columns
  BY DEF Columns
<1> HIDE DEF changed
<1>6. changed \subseteq sent
  BY <1>2 DEF changed
<1>7. Written(row, body, loaded) \in [Columns -> Values \cup {None}]
  BY <1>1, <1>3, <1>4, <1>6
<1>8. Written(row, body, loaded)["name"] # None
  BY <1>2, <1>3, <1>4, <1>5, <1>6
<1>9. \A col \in Columns \ DOMAIN body : Written(row, body, loaded)[col] = row[col]
  BY <1>2, <1>3, <1>6
<1> QED BY <1>7, <1>8, <1>9 DEF Row

\* A deleted customer and one that never was are no rows.
LEMMA NoRows == Deleted \notin Row /\ Unused \notin Row /\ Unused # Deleted
<1>1. Deleted["name"] = None
  BY DEF Deleted, Columns
<1>2. Deleted \in [Columns -> Values \cup {None}]
  BY DEF Deleted
<1> QED BY <1>1, <1>2, NoneIsNoRow DEF Row, Unused

\* Locks conflict in either order.
LEMMA ConflictBothWays ==
  ASSUME NEW op1, NEW op2
  PROVE  Conflict(op1, op2) <=> Conflict(op2, op1)
<1>1. {op1, op2} = {op2, op1}
  OBVIOUS
<1> QED BY <1>1 DEF Conflict

-----------------------------------------------------------------------------
(***************************************************************************)
(* Every step keeps the invariant                                          *)
(***************************************************************************)

\* The empty desk.
LEMMA CustomersInitInv == Init => CustomersInv
BY DEF Init, CustomersInv, CustomersTypeOK, NoOrphans, LocksAgree, LocksProtect, Locks, Idle

\* A step that moves one request and writes nothing keeps the invariant when the
\* request, if it is locking now, locks without conflict what its check allows.
LEMMA MoveInv ==
  ASSUME CustomersInv, NEW r \in Requests, NEW request \in Request \cup {Idle},
         Move(r, request),
         Locks(r)' =>
           /\ \A q \in Requests \ {r} :
                Locks(q) /\ requests[q].customer = request.customer
                  => ~Conflict(requests[q].op, request.op)
           /\ IF request.op = "delete"
              THEN Exists(request.customer) => MayRemove(request.customer)
              ELSE Exists(request.customer)
  PROVE  CustomersInv'
<1>1. /\ requests \in [Requests -> Request \cup {Idle}]
      /\ requests' = [requests EXCEPT ![r] = request]
      /\ customers' = customers /\ conversations' = conversations
  BY DEF CustomersInv, CustomersTypeOK, Move
<1>2. requests'[r] = request /\ \A q \in Requests \ {r} : requests'[q] = requests[q]
  BY <1>1
<1>3. \A q \in Requests \ {r} : Locks(q)' <=> Locks(q)
  BY <1>2 DEF Locks
<1>4. \A c \in Customers : Exists(c)' <=> Exists(c)
  BY <1>1 DEF Exists
<1>5. CustomersTypeOK'
  BY <1>1 DEF CustomersInv, CustomersTypeOK
<1>6. NoOrphans'
  BY <1>1 DEF CustomersInv, NoOrphans, Exists
<1>7. LocksAgree'
  <2> SUFFICES ASSUME NEW p \in Requests, NEW q \in Requests, p # q,
                      Locks(p)', Locks(q)',
                      requests'[p].customer = requests'[q].customer
               PROVE  ~Conflict(requests'[p].op, requests'[q].op)
    BY DEF LocksAgree, Conflict
  <2>1. CASE p # r /\ q # r
    BY <2>1, <1>2, <1>3 DEF CustomersInv, LocksAgree
  <2>2. CASE p = r
    BY <2>2, <1>2, <1>3, ConflictBothWays
  <2>3. CASE q = r
    BY <2>3, <1>2, <1>3
  <2> QED BY <2>1, <2>2, <2>3
<1>8. LocksProtect'
  BY <1>1, <1>2, <1>3 DEF CustomersInv, LocksProtect, Exists, MayRemove
<1> QED BY <1>5, <1>6, <1>7, <1>8 DEF CustomersInv

\* The steps that write nothing.
LEMMA StatementInv ==
  ASSUME CustomersInv, NEW r \in Requests,
         \/ \E op \in Operations, c \in Customers : Begin(r, op, c)
         \/ ReadCustomer(r)
         \/ \E body \in CustomerUpdate : ReadForUpdate(r, body)
         \/ FlushUpdate(r)
         \/ FlushDelete(r)
         \/ FlushConversation(r)
         \/ Rollback(r)
  PROVE  CustomersInv'
<1>1. CustomersTypeOK /\ requests \in [Requests -> Request \cup {Idle}]
  BY DEF CustomersInv, CustomersTypeOK
<1>2. ASSUME NEW op \in Operations, NEW c \in Customers, Begin(r, op, c)
      PROVE  CustomersInv'
  <2> DEFINE request == [pc |-> "begun", op |-> op, customer |-> c]
  <2>1. request \in Request /\ Move(r, request)
    BY <1>2 DEF Begin, Request
  <2>2. ~Locks(r)'
    BY <1>1, <2>1 DEF Locks, Move
  <2> QED BY <2>1, <2>2, MoveInv
<1>3. ASSUME ReadCustomer(r) PROVE CustomersInv'
  <2> DEFINE request == [requests[r] EXCEPT !.pc = "read"]
  <2>1. requests[r] \in Request
    BY <1>1, <1>3, BusyPhase, BusyRequest DEF ReadCustomer
  <2>2. request \in Request /\ Move(r, request)
    BY <1>3, <2>1 DEF ReadCustomer, Request
  <2>3. ~Locks(r)'
    BY <1>1, <2>1, <2>2 DEF Locks, Move, Request
  <2> QED BY <2>2, <2>3, MoveInv
<1>4. ASSUME NEW body \in CustomerUpdate, ReadForUpdate(r, body) PROVE CustomersInv'
  <2> DEFINE c == requests[r].customer
             request == [pc |-> "read", op |-> "update", customer |-> c,
                         loaded |-> customers[c], body |-> body]
  <2>1. c \in Customers /\ customers[c] \in Row
    BY <1>1, <1>4, BusyPhase, BusyRequest DEF ReadForUpdate, Exists
  <2>2. request \in Request /\ Move(r, request)
    BY <1>4, <2>1 DEF ReadForUpdate, Request
  <2>3. ~Locks(r)'
    BY <1>1, <2>2 DEF Locks, Move
  <2> QED BY <2>2, <2>3, MoveInv
<1>5. ASSUME FlushUpdate(r) \/ FlushDelete(r) \/ FlushConversation(r) PROVE CustomersInv'
  <2> DEFINE request == [requests[r] EXCEPT !.pc = "flushed"]
  <2>1. requests[r] \in Request /\ requests[r].pc = "read"
    BY <1>1, <1>5, BusyPhase, BusyRequest
       DEF FlushUpdate, FlushDelete, FlushConversation
  <2>2. request \in Request /\ Move(r, request)
    BY <1>5, <2>1 DEF FlushUpdate, FlushDelete, FlushConversation, Request
  <2>3. /\ request.op = requests[r].op
        /\ request.customer = requests[r].customer
        /\ request.op = "update" => /\ request.body = requests[r].body
                                    /\ request.loaded = requests[r].loaded
    BY <2>1 DEF Request
  <2>4. requests'[r] = request
    BY <1>1, <2>2 DEF Move
  <2>5. Locks(r)' => Unlocked(r)
    BY <1>5, <2>3, <2>4 DEF Locks, FlushUpdate, FlushDelete, FlushConversation
  <2>6. IF request.op = "delete"
        THEN Exists(request.customer) => MayRemove(request.customer)
        ELSE Exists(request.customer)
    BY <1>5, <2>3 DEF FlushUpdate, FlushDelete, FlushConversation, MayInsert
  <2> HIDE DEF request
  <2>7. Unlocked(r) =>
          \A q \in Requests \ {r} :
            Locks(q) /\ requests[q].customer = request.customer
              => ~Conflict(requests[q].op, request.op)
    BY <2>3 DEF Unlocked
  <2> QED BY <2>2, <2>5, <2>6, <2>7, MoveInv
<1>6. ASSUME Rollback(r) PROVE CustomersInv'
  <2>1. Move(r, Idle)
    BY <1>6 DEF Rollback, Finish, Move
  <2>2. ~Locks(r)'
    BY <1>1, <2>1 DEF Locks, Move, Idle
  <2> QED BY <2>1, <2>2, MoveInv
<1> QED BY <1>2, <1>3, <1>4, <1>5, <1>6

\* When a request ends, the locks of the others are what they were.
LEMMA FinishLocks ==
  ASSUME CustomersTypeOK, NEW r \in Requests, Finish(r)
  PROVE  /\ requests' \in [Requests -> Request \cup {Idle}]
         /\ requests'[r] = Idle
         /\ ~Locks(r)'
         /\ \A q \in Requests \ {r} : requests'[q] = requests[q] /\ (Locks(q)' <=> Locks(q))
<1>1. requests' = [requests EXCEPT ![r] = Idle] /\ requests \in [Requests -> Request \cup {Idle}]
  BY DEF CustomersTypeOK, Finish
<1>2. requests'[r] = Idle /\ \A q \in Requests \ {r} : requests'[q] = requests[q]
  BY <1>1
<1> QED BY <1>1, <1>2 DEF Locks, Idle

\* When a request ends, what the others rely on still holds, if its commit leaves
\* their rows, and for a DELETE the references to them, as they are.
LEMMA FinishInv ==
  ASSUME CustomersInv, NEW r \in Requests, Finish(r),
         \A q \in Requests \ {r}, d \in Customers :
           Locks(q) /\ requests[q].customer = d =>
             /\ Exists(d)' <=> Exists(d)
             /\ requests[q].op = "delete" /\ MayRemove(d) => MayRemove(d)'
  PROVE  LocksAgree' /\ LocksProtect'
<1>1. CustomersTypeOK
  BY DEF CustomersInv
<1>2. LocksAgree'
  BY <1>1, FinishLocks DEF CustomersInv, LocksAgree
<1>3. LocksProtect'
  <2> SUFFICES ASSUME NEW q \in Requests, Locks(q)', NEW d, d = requests'[q].customer
               PROVE  IF requests'[q].op = "delete" THEN Exists(d)' => MayRemove(d)'
                                                    ELSE Exists(d)'
    BY DEF LocksProtect, Exists, MayRemove
  <2>1. q # r /\ Locks(q) /\ requests'[q] = requests[q]
    BY <1>1, FinishLocks
  <2>2. d \in Customers
    BY <1>1, <2>1, BusyPhase, BusyRequest DEF Locks
  <2>3. IF requests[q].op = "delete" THEN Exists(d) => MayRemove(d) ELSE Exists(d)
    BY <2>1 DEF CustomersInv, LocksProtect
  <2> QED BY <2>1, <2>2, <2>3
<1> QED BY <1>2, <1>3

\* A new customer replaces no row.
LEMMA CreateInv ==
  ASSUME CustomersInv, NEW c \in Customers, NEW row \in Row, CreateCustomer(c, row)
  PROVE  CustomersInv'
<1>1. /\ CustomersTypeOK
      /\ customers' = [customers EXCEPT ![c] = row]
      /\ conversations' = conversations /\ requests' = requests
      /\ ~Exists(c)
  BY NoRows DEF CustomersInv, CreateCustomer, Exists
<1>2. \A d \in Customers : Exists(d) => Exists(d)'
  BY <1>1 DEF CustomersTypeOK, Exists
<1>3. \A d \in Customers \ {c} : Exists(d)' => Exists(d)
  BY <1>1 DEF CustomersTypeOK, Exists
<1>4. CustomersTypeOK'
  BY <1>1 DEF CustomersTypeOK
<1>5. NoOrphans'
  BY <1>1, <1>2 DEF CustomersInv, CustomersTypeOK, NoOrphans
<1>6. LocksAgree'
  BY <1>1 DEF CustomersInv, LocksAgree, Locks
<1>7. MayRemove(c)'
  BY <1>1, NoneIsNoCustomer DEF CustomersInv, CustomersTypeOK, NoOrphans, MayRemove, Exists
<1>8. LocksProtect'
  <2> SUFFICES ASSUME NEW r \in Requests, Locks(r)', NEW d, d = requests'[r].customer
               PROVE  IF requests'[r].op = "delete" THEN Exists(d)' => MayRemove(d)'
                                                    ELSE Exists(d)'
    BY DEF LocksProtect, Exists, MayRemove
  <2>1. Locks(r) /\ requests'[r] = requests[r]
    BY <1>1 DEF Locks
  <2>2. d \in Customers
    BY <1>1, <2>1, BusyPhase, BusyRequest DEF Locks
  <2>3. IF requests[r].op = "delete" THEN Exists(d) => MayRemove(d) ELSE Exists(d)
    BY <2>1 DEF CustomersInv, LocksProtect
  <2>4. MayRemove(d) => MayRemove(d)'
    BY <1>1 DEF MayRemove
  <2> QED BY <1>2, <1>3, <1>7, <2>1, <2>2, <2>3, <2>4
<1> QED BY <1>4, <1>5, <1>6, <1>8 DEF CustomersInv

\* An UPDATE replaces a row by a row.
LEMMA CommitUpdateInv ==
  ASSUME CustomersInv, NEW r \in Requests, CommitUpdate(r)
  PROVE  CustomersInv'
<1>1. CustomersTypeOK /\ conversations' = conversations /\ Finish(r)
  BY DEF CustomersInv, CommitUpdate
<1>2. /\ customers' \in [Customers -> Row \cup {Unused, Deleted}]
      /\ \A d \in Customers : Exists(d)' <=> Exists(d)
  <2>1. CASE Locks(r)
    <3>1. PICK c \in Customers : c = requests[r].customer
      BY <1>1, UpdateRequest DEF CommitUpdate
    <3>2. customers[c] \in Row
      BY <2>1, <3>1 DEF CustomersInv, LocksProtect, CommitUpdate, Exists
    <3>3. PICK new \in Row : customers' = [customers EXCEPT ![c] = new]
      BY <1>1, <2>1, <3>1, <3>2, UpdateRequest, WrittenRow DEF CommitUpdate
    <3> QED BY <1>1, <3>2, <3>3 DEF CustomersTypeOK, Exists
  <2>2. CASE ~Locks(r)
    BY <1>1, <2>2 DEF CommitUpdate, CustomersTypeOK, Exists
  <2> QED BY <2>1, <2>2
<1>3. CustomersTypeOK'
  BY <1>1, <1>2, FinishLocks DEF CustomersTypeOK
<1>4. NoOrphans'
  BY <1>1, <1>2 DEF CustomersInv, CustomersTypeOK, NoOrphans
<1>5. \A d \in Customers : MayRemove(d) => MayRemove(d)'
  BY <1>1 DEF MayRemove
<1>6. LocksAgree' /\ LocksProtect'
  BY <1>1, <1>2, <1>5, FinishInv
<1> QED BY <1>3, <1>4, <1>6 DEF CustomersInv

\* A DELETE takes away a row nothing refers to, and nobody else holds a lock of it.
LEMMA CommitDeleteInv ==
  ASSUME CustomersInv, NEW r \in Requests, CommitDelete(r)
  PROVE  CustomersInv'
<1>1. Locks(r) /\ requests[r].op = "delete"
  BY DEF CommitDelete, Locks
<1>2. PICK c \in Customers : c = requests[r].customer
  BY <1>1, BusyPhase, BusyRequest DEF Locks, CustomersInv
<1>3. /\ CustomersTypeOK /\ conversations' = conversations /\ Finish(r)
      /\ customers' = [customers EXCEPT ![c] = Deleted]
  BY <1>2 DEF CustomersInv, CommitDelete
<1>4. \A d \in Customers \ {c} : Exists(d)' <=> Exists(d)
  BY <1>3 DEF CustomersTypeOK, Exists
<1>5. Exists(c) => MayRemove(c)
  BY <1>1, <1>2 DEF CustomersInv, LocksProtect
<1>6. CustomersTypeOK'
  BY <1>3, FinishLocks DEF CustomersTypeOK
<1>7. NoOrphans'
  BY <1>3, <1>4, <1>5 DEF CustomersInv, CustomersTypeOK, NoOrphans, MayRemove
<1>8. \A d \in Customers : MayRemove(d) => MayRemove(d)'
  BY <1>3 DEF MayRemove
<1>9. \A q \in Requests \ {r} : Locks(q) => requests[q].customer # c
  BY <1>1, <1>2 DEF CustomersInv, LocksAgree, Conflict
<1>10. LocksAgree' /\ LocksProtect'
  BY <1>3, <1>4, <1>8, <1>9, FinishInv
<1> QED BY <1>6, <1>7, <1>10 DEF CustomersInv

\* A new conversation refers to a row that nobody is deleting.
LEMMA CommitConversationInv ==
  ASSUME CustomersInv, NEW r \in Requests, NEW k \in Conversations,
         CommitConversation(r, k)
  PROVE  CustomersInv'
<1>1. Locks(r) /\ requests[r].op = "converse"
  BY DEF CommitConversation, Locks
<1>2. PICK c \in Customers : c = requests[r].customer
  BY <1>1, BusyPhase, BusyRequest DEF Locks, CustomersInv
<1>3. /\ CustomersTypeOK /\ customers' = customers /\ Finish(r)
      /\ conversations' = [conversations EXCEPT ![k] = c]
  BY <1>2 DEF CustomersInv, CommitConversation
<1>4. \A d \in Customers : Exists(d)' <=> Exists(d)
  BY <1>3 DEF Exists
<1>5. Exists(c)
  BY <1>1, <1>2 DEF CustomersInv, LocksProtect
<1>6. CustomersTypeOK'
  BY <1>3, FinishLocks DEF CustomersTypeOK
<1>7. NoOrphans'
  BY <1>3, <1>4, <1>5 DEF CustomersInv, CustomersTypeOK, NoOrphans
<1>8. \A d \in Customers \ {c} : MayRemove(d) => MayRemove(d)'
  BY <1>3 DEF MayRemove, CustomersTypeOK
<1>9. \A q \in Requests \ {r} :
        Locks(q) /\ requests[q].customer = c => requests[q].op # "delete"
  BY <1>1, <1>2 DEF CustomersInv, LocksAgree, Conflict
<1>10. LocksAgree' /\ LocksProtect'
  BY <1>3, <1>4, <1>8, <1>9, FinishInv
<1> QED BY <1>6, <1>7, <1>10 DEF CustomersInv

\* Every step keeps the invariant.
LEMMA CustomersNextInv ==
  ASSUME CustomersInv, [Next]_vars
  PROVE  CustomersInv'
<1>1. CASE UNCHANGED vars
  BY <1>1 DEF vars, CustomersInv, CustomersTypeOK, NoOrphans, LocksAgree, LocksProtect,
              Locks, Exists, MayRemove
<1>2. CASE \E c \in Customers, row \in Row : CreateCustomer(c, row)
  BY <1>2, CreateInv
<1>3. CASE \E r \in Requests : CommitUpdate(r) \/ CommitDelete(r)
  BY <1>3, CommitUpdateInv, CommitDeleteInv
<1>4. CASE \E r \in Requests, k \in Conversations : CommitConversation(r, k)
  BY <1>4, CommitConversationInv
<1>5. CASE \E r \in Requests :
             \/ \E op \in Operations, c \in Customers : Begin(r, op, c)
             \/ ReadCustomer(r)
             \/ \E body \in CustomerUpdate : ReadForUpdate(r, body)
             \/ FlushUpdate(r)
             \/ FlushDelete(r)
             \/ FlushConversation(r)
             \/ Rollback(r)
  BY <1>5, StatementInv
<1> QED BY <1>1, <1>2, <1>3, <1>4, <1>5 DEF Next

-----------------------------------------------------------------------------
(***************************************************************************)
(* The theorems                                                            *)
(***************************************************************************)

\* The inductive invariant holds in every state.
THEOREM CustomersInvariant == Spec => []CustomersInv
<1>1. CustomersInv /\ [Next]_vars => CustomersInv'
  BY CustomersNextInv
<1> QED BY <1>1, CustomersInitInv, PTL DEF Spec

\* Type correctness: no interleaving of PATCHes makes a name null.
THEOREM CustomersTypeCorrect == Spec => []CustomersTypeOK
<1>1. CustomersInv => CustomersTypeOK
  BY DEF CustomersInv
<1> QED BY <1>1, CustomersInvariant, PTL

\* A conversation's customer is never deleted, whenever the conversation is created.
THEOREM HistoryKeepsCustomer == Spec => []NoOrphans
<1>1. CustomersInv => NoOrphans
  BY DEF CustomersInv
<1> QED BY <1>1, CustomersInvariant, PTL

\* A PATCH leaves alone the columns it omits, also those that changed after it had
\* loaded the row.
THEOREM PatchKeepsOmitted == Spec => OmittedIsKept
<1> DEFINE Kept ==
      \A r \in Requests :
        requests[r].pc = "flushed" /\ requests[r].op = "update"
          /\ requests'[r] = Idle /\ customers' # customers
        => \A col \in Columns \ DOMAIN requests[r].body :
             customers'[requests[r].customer][col]
               = customers[requests[r].customer][col]
<1>1. CustomersInv /\ [Next]_vars => [Kept]_vars
  <2> SUFFICES ASSUME CustomersInv, [Next]_vars, NEW r \in Requests,
                      requests[r].pc = "flushed", requests[r].op = "update",
                      requests'[r] = Idle, customers' # customers,
                      NEW c, c = requests[r].customer,
                      NEW col \in Columns \ DOMAIN requests[r].body
               PROVE  customers'[c][col] = customers[c][col]
    BY DEF Kept
  <2>1. CustomersTypeOK /\ requests[r] # Idle
    BY BusyPhase DEF CustomersInv
  <2>2. CommitUpdate(r)
    <3>1. PICK q \in Requests : CommitUpdate(q) \/ CommitDelete(q)
      BY <2>1 DEF Next, vars, CreateCustomer, Begin, ReadCustomer, ReadForUpdate, FlushUpdate,
                  FlushDelete, FlushConversation, CommitConversation, Rollback, Move
    <3>2. Finish(q)
      BY <3>1 DEF CommitUpdate, CommitDelete
    <3>3. q = r
      BY <2>1, <3>2, FinishLocks
    <3> QED BY <3>1, <3>3 DEF CommitDelete
  <2>3. Locks(r) /\ c \in Customers /\ customers[c] \in Row
    BY <2>1, <2>2, UpdateRequest DEF CommitUpdate, CustomersInv, LocksProtect, Exists
  <2>4. customers'[c] = Written(customers[c], requests[r].body, requests[r].loaded)
    BY <2>1, <2>2, <2>3 DEF CommitUpdate, CustomersTypeOK
  <2> QED BY <2>1, <2>3, <2>4, UpdateRequest, WrittenRow
<1> QED BY <1>1, CustomersInvariant, PTL DEF Spec, OmittedIsKept

\* A deleted customer stays deleted, whatever PATCH had loaded it.
THEOREM DeletionIsFinal == Spec => DeletedForGood
<1> DEFINE Stays == \A c \in Customers : customers[c] = Deleted => customers'[c] = Deleted
<1>1. CustomersInv /\ [Next]_vars => [Stays]_vars
  <2> SUFFICES ASSUME CustomersInv, Next, NEW c \in Customers, customers[c] = Deleted
               PROVE  customers'[c] = Deleted
    BY DEF Stays
  <2>1. CustomersTypeOK /\ ~Exists(c)
    BY NoRows DEF CustomersInv, Exists
  <2>2. CASE \E d \in Customers, row \in Row : CreateCustomer(d, row)
    BY <2>1, <2>2, NoRows DEF CreateCustomer, CustomersTypeOK
  <2>3. CASE \E r \in Requests : CommitUpdate(r)
    <3>1. PICK r \in Requests : CommitUpdate(r)
      BY <2>3
    <3>2. Locks(r) => requests[r].customer # c
      BY <2>1, <3>1 DEF CommitUpdate, CustomersInv, LocksProtect
    <3> QED BY <2>1, <3>1, <3>2 DEF CommitUpdate, CustomersTypeOK
  <2>4. CASE \E r \in Requests : CommitDelete(r)
    BY <2>1, <2>4 DEF CommitDelete, CustomersTypeOK
  <2>5. CASE customers' = customers
    BY <2>5
  <2> QED BY <2>2, <2>3, <2>4, <2>5
     DEF Next, Begin, ReadCustomer, ReadForUpdate, FlushUpdate, FlushDelete,
         FlushConversation, CommitConversation, Rollback, Move
<1> QED BY <1>1, CustomersInvariant, PTL DEF Spec, DeletedForGood
=============================================================================
