------------------------------- MODULE Clients -------------------------------
(***************************************************************************)
(* Where the requests of Accounts come from: a client logs in, holds the   *)
(* token it is given and sends it along with every request, until it logs  *)
(* in again.  The server keeps nothing of a token; it knows its own by the *)
(* signature, and reads the user each time.                                *)
(*                                                                         *)
(* Login reads the user, has the password verified in a thread, and dates  *)
(* the token when it signs it; the user may change meanwhile.  The clock   *)
(* counts half seconds, the claims of a token whole ones.  It may be set   *)
(* back or forward, and the server may be restarted, with the same key,    *)
(* another or none.                                                        *)
(***************************************************************************)
EXTENDS Accounts, Integers

CONSTANTS
  Keys,       \* secrets the server may be configured with
  Lifetime,   \* access_token_expire_minutes, in seconds
  MaxClock    \* bound on the clock

ASSUME NoneIsNoKey == None \notin Keys
ASSUME TokenBounds == Lifetime \in Nat \ {0} /\ MaxClock \in Nat

\* key is None while the server has none, login and token while the client has none.
\* at is the half second a token was signed in, and away the users that were
\* inactive, or absent, when the last login began and ever since.
VARIABLES clock, key, login, token, away

clientVars == <<users, agents, sessions, clock, key, login, token, away>>

Clock == 0..MaxClock

Login == [user : Users, row : UserRow]

Token == [user : Users, iat : Nat, exp : Nat, key : Keys, at : Clock]

ClientsTypeOK ==
  /\ TypeOK
  /\ clock \in Clock
  /\ key \in Keys \cup {None}
  /\ login \in Login \cup {None}
  /\ token \in Token \cup {None}
  /\ away \in SUBSET Users

ClientsInit ==
  /\ Init
  /\ clock = 0
  /\ key \in Keys \cup {None}
  /\ login = None
  /\ token = None
  /\ away = {}

-----------------------------------------------------------------------------
(***************************************************************************)
(* Tokens                                                                  *)
(***************************************************************************)

\* Faulty variant of HasKey: the empty secret signs as any other does.
EmptyKey == TRUE

\* signing_key: without a secret whoever needs one is answered 503.
HasKey == key # None

\* A datetime as a claim: the fraction of the second is dropped.
Claim(time) == time \div 2

\* Faulty variant of NewToken: it expires too late by what the clock had of a second.
NewTokenRounded(user) ==
  [user |-> user, iat |-> Claim(clock), exp |-> Claim(clock + 1) + Lifetime,
   key |-> key, at |-> clock]

NewToken(user) ==
  [user |-> user, iat |-> Claim(clock), exp |-> Claim(clock + 2 * Lifetime),
   key |-> key, at |-> clock]

\* decode_access_token: the signature, exp, and iat, which may not be in the future.
Decodes(t) ==
  /\ HasKey
  /\ t.key = key
  /\ 2 * t.iat <= clock
  /\ clock < 2 * t.exp

-----------------------------------------------------------------------------
(***************************************************************************)
(* POST /auth/login                                                        *)
(***************************************************************************)

\* The row is read; without a key the answer is 503 at once.
BeginLogin(u) ==
  /\ login = None
  /\ HasKey
  /\ Exists(u)
  /\ login' = [user |-> u, row |-> users[u]]
  /\ token' = None
  /\ UNCHANGED <<users, agents, sessions, clock, key>>

\* Faulty variant of MayLogin: the password is all that counts.
MayLoginAnyone == login # None

\* The thread has verified the password; the row is the one read before.
MayLogin == login # None /\ login.row.is_active

IssueToken ==
  /\ MayLogin
  /\ token' = NewToken(login.user)
  /\ login' = None
  /\ UNCHANGED <<users, agents, sessions, clock, key>>

\* A wrong password, an inactive row, a client that does not wait.
FailLogin ==
  /\ login # None
  /\ login' = None
  /\ UNCHANGED <<users, agents, sessions, clock, key, token>>

-----------------------------------------------------------------------------
\* A request of the client begins as any of Accounts does.
Request(s, op) ==
  /\ token # None
  /\ Decodes(token)
  /\ Authenticate(s, op, token.user)
  /\ UNCHANGED <<clock, key, login, token>>

Continue(s) ==
  /\ Serve(s)
  /\ UNCHANGED <<clock, key, login, token>>

\* Time passes, or the clock is set.
SetClock(time) ==
  /\ clock' = time
  /\ UNCHANGED <<users, agents, sessions, key, login, token>>

\* The server is stopped, all its requests are rolled back, and the settings are
\* read anew.
Restart(k) ==
  /\ \A s \in Sessions : sessions[s] = Idle
  /\ login = None
  /\ key' = k
  /\ UNCHANGED <<users, agents, sessions, clock, login, token>>

\* away starts with a login and loses the users that are activated.
Watch ==
  away' = (IF login = None /\ login' # None THEN Users ELSE away) \cap InactiveUsers'

ClientsNext ==
  /\ \/ \E u \in Users : BeginLogin(u)
     \/ IssueToken
     \/ FailLogin
     \/ \E s \in Sessions, op \in Operations : Request(s, op)
     \/ \E s \in Sessions : Continue(s)
     \/ \E time \in Clock : SetClock(time)
     \/ \E k \in Keys \cup {None} : Restart(k)
  /\ Watch

ClientsSpec == ClientsInit /\ [][ClientsNext]_clientVars

-----------------------------------------------------------------------------
\* README: "Tokens expire after 30 minutes by default", and changing the key
\* "invalidates existing tokens".  A token is good for the life its client was told,
\* less the second that the claims drop, and never longer; it is refused while
\* another key is in force, or when the clock was set back a second before its date.
TokensLiveTheirTime ==
  token # None =>
    LET age == clock - token.at IN
    /\ Decodes(token) => key = token.key /\ -2 < age /\ age < 2 * Lifetime
    /\ key = token.key /\ 0 <= age /\ age + 2 <= 2 * Lifetime => Decodes(token)

\* Login decides on a row it read before the password was verified.  All the same a
\* user that was inactive all through a login has no token from it, also after the
\* account is activated later on.
LoginIsForTheActive == token # None => token.user \notin away
=============================================================================
